\* Two io workers for the two chains of a connection and the offline checker.
CONSTANTS
  Devices = {d1}
  NoDevice = nodev
  Sessions = {s1}
  NoSession = nosess
  DevStates = {"sleep"}
  Workers = 2
  IdleTimeout = 2
SPECIFICATION FairSpec
PROPERTIES SilentGoesOffline BrokenIsClosed StaleKeyExpires
