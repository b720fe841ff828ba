\* One worker: a device reconnects, and its old connection ends afterwards.
CONSTANTS
  Devices = {d1}
  NoDevice = nodev
  Sessions = {s1, s2}
  NoSession = nosess
  DevStates = {"sleep"}
  Workers = 1
  IdleTimeout = 1
SPECIFICATION Spec
INVARIANTS OnlineDeviceIsReachable
