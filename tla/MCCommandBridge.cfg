\* One worker: the only case in which main unwinds while the thread of
\* libmosquitto is running. The process ends, or hangs in stop.
CONSTANTS
  m1 = m1
  m2 = m2
  h1 = h1
  MqttRequests <- MCMqttRequests
  HttpRequests <- MCHttpRequests
  Workers = 1
  MqttEnable = TRUE
  MaxLosses = 1
SPECIFICATION FairSpec
INVARIANTS NothingLeft CallbackHasClient LinkedMeansSubscribed OneTrueAnswer
PROPERTIES ArrivedIsAnswered StopEnds
CHECK_DEADLOCK FALSE
