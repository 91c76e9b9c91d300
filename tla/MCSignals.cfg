\* Handlers that call the library but neither longjmp nor sigsetmask.
SPECIFICATION Spec
CONSTANTS
  Kids = {k1, k2}
  Sigs <- MCSigs
  Catchable <- MCCatchable
  Masks <- MCMasks
  Keys = {"ctrlC"}
  MainCalls = {"signal", "sigsetmask", "sigpause", "alarm", "kill"}
  HandlerCalls = {"call", "sigpause"}
  MaxNest = 2
  NumFds = 0
  MaxExits = 1
SYMMETRY MCSymmetry
INVARIANTS TypeOK PendingAreMasked MaskAsAsked NoLostWakeup NoLostBreak HandlerNotReentered
