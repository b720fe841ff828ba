\* Two commands to a device that may reconnect while they are pending: retries,
\* late and repeated answers, and the fairness of the tick.
CONSTANTS
  Commands = {c1, c2}
  Devices = {d1}
  Sessions = {s1, s2}
  NoSession = nosess
  MaxRetry = 1
  AckTimeout = 1
  MaxMs = 2
SPECIFICATION FairSpec
INVARIANTS OpenIsTracked AnsweredByItsDevice
PROPERTIES FollowsLifecycle ConcludesWhileConnected
CHECK_DEADLOCK FALSE
