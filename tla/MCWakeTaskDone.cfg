\* One command; its device acknowledges it and reports the end of the task.
CONSTANTS
  Commands = {c1}
  Devices = {d1}
  Sessions = {s1}
  NoSession = nosess
  MaxRetry = 1
  AckTimeout = 1
  MaxMs = 2
SPECIFICATION Spec
INVARIANTS TaskDoneIsReported
