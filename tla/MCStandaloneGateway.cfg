\* Two devices and two connections: reconnects, and connections that log in
\* under both ids.  The program stops after an exception.
CONSTANTS
  Devices = {d1, d2}
  NoDevice = nodev
  Sessions = {s1, s2}
  NoSession = nosess
  IdleTimeout = 1
SPECIFICATION FairSpec
INVARIANTS RoutableIsOnline OnlyReconnectsHide DeadEntryWasRenamed
PROPERTIES SilentGoesOffline
CHECK_DEADLOCK FALSE
