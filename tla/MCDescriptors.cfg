SPECIFICATION Spec
CONSTANTS
  f1 = f1 f2 = f2 i1 = i1 i2 = i2
  Names = {f1, f2}
  Infos = {i1, i2}
  FILE_STEP = 1
  MaxFds = 2
  MainCalls = {"open", "close", "read", "write", "unlink", "give"}
  HandlerCalls = {"open", "close", "read", "write", "unlink"}
SYMMETRY MCSymmetry
INVARIANTS TypeOK OneOwner NothingMisused DeletedMeansGone
