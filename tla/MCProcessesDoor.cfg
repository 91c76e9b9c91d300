\* A parent that exits between a child's FindPort and its PutMsg.
SPECIFICATION Spec
CONSTANTS
  MaxPid = 1
  Codes <- MCCodes
  Others = {2}
  Targets = {0, 1}
  HandlerCalls <- MCHandlerCalls
INVARIANT OnlyToLivePort
