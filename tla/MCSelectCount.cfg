\* A select interrupted by a signal returns a count without the bits.
SPECIFICATION Spec
CONSTANTS
  Fds = {0, 1}
  Readers = {0}
  Writers = {}
  Modes = {"none"}
  MainCalls = {"select"}
  HandlerCalls = {}
  MaxBytes = 1
  MaxDepth = 2
INVARIANT SelectCounts
