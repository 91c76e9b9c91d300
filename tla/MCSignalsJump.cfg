\* Handlers that leave by longjmp.
SPECIFICATION Spec
CONSTANTS
  Kids = {k1}
  Sigs <- MCSigs
  Catchable <- MCJumpCatchable
  Masks <- MCMasks
  Keys = {"ctrlC"}
  MainCalls = {"signal", "sigsetmask", "setjmp", "alarm", "exit", "abort", "fpe"}
  HandlerCalls = {"call", "longjmp"}
  MaxNest = 2
  NumFds = 1
  MaxExits = 1
INVARIANTS PendingAreMasked MaskAsAsked
