\* A socket pair end and a pipe to write to; handlers read and write inside waits.
SPECIFICATION Spec
CONSTANTS
  Fds = {0, 1}
  Readers = {0}
  Writers = {0, 1}
  Modes = {"none", "zero"}
  MainCalls = {"read", "write", "select", "sleep0"}
  HandlerCalls = {"read", "write"}
  MaxBytes = 2
  MaxDepth = 2
INVARIANTS TypeOK RequestsQuiet StreamInOrder OwedIsComing
