\* One io worker: a device that reconnects while its old connection lingers, and
\* two values of dev_state, so that the backends can disagree.
CONSTANTS
  Devices = {d1}
  NoDevice = nodev
  Sessions = {s1, s2}
  NoSession = nosess
  DevStates = {"sleep", "active"}
  Workers = 1
  IdleTimeout = 2
SPECIFICATION Spec
INVARIANTS RedisKeyMeansOnline FreshDeviceHasKey OnlineIsPublished BackendsAgree
SYMMETRY Symmetry
