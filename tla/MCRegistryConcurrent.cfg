\* Two io workers; two connections of one device, so that a reconnect overlaps
\* the end of the old connection and handlers interleave step by step.
CONSTANTS
  Devices = {d1}
  NoDevice = nodev
  Sessions = {s1, s2}
  NoSession = nosess
  DevStates = {"sleep"}
  Workers = 2
  IdleTimeout = 1
SPECIFICATION Spec
INVARIANTS RegisteredIsOnline OneCleanup EndedIsClosed
SYMMETRY Symmetry
