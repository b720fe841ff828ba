\* Two commands to a device with two connections, on one worker and on two.
CONSTANTS
  Commands = {c1, c2}
  Sessions = {s1, s2}
  NoSession = nosess
  NoCommand = nocmd
  Workers = {1, 2}
  MaxRetry = 1
SPECIFICATION Spec
INVARIANTS AnswerFindsEntry LeftKeyWasOvertaken SentInItsProtocol AloneIsUnbroken
SYMMETRY Symmetry
CHECK_DEADLOCK FALSE
