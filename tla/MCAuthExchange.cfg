\* A device in development, with the default secret, on two connections. Redis
\* may hold another key for it or none, and the index may mistake it.
CONSTANTS
  d1 = d1
  ghost = ghost
  long = long
  default = default
  json = json
  s1 = s1
  s2 = s2
  http = http
  nil = nil
  p1 = p1
  Devices <- MCDevices
  Secrets <- MCSecrets
  Values <- MCValues
  Keys <- MCKeys
  State = json
  First16 <- MCFirst16
  Crc32 <- MCCrc32
  DefaultSecret = default
  DeviceKey <- MCDeviceKey
  Owner <- MCOwner
  InitialData <- MCInitialData
  Sessions = {s1, s2}
  Backend = http
  Callers = {s1, s2, http}
  NoSession = nosess
  Nil = nil
  OK = ok
  MaxRequests = 1
  MaxOpen = 1
  MaxFaults = 2
SPECIFICATION Spec
INVARIANTS IdentityIsOwn AnswersAreAccepted WakeupMatchesKey LeftoversExpire
PROPERTIES AloneIsKeyValueStore
SYMMETRY Symmetry
CHECK_DEADLOCK FALSE
