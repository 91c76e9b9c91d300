\* A pipe to read from and one to write to, every call, under fairness.
SPECIFICATION FairSpec
CONSTANTS
  Fds = {0, 1}
  Readers = {0}
  Writers = {1}
  Modes = {"none", "zero", "some"}
  MainCalls = {"read", "write", "eof", "select", "sleep"}
  HandlerCalls = {"read"}
  MaxBytes = 1
  MaxDepth = 2
PROPERTIES TimedReturns DataWakes
