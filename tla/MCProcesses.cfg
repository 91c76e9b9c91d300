SPECIFICATION FairSpec
CONSTANTS
  MaxPid = 2
  Codes <- MCCodes
  Others = {2}
  Targets = {0, 1}
  HandlerCalls <- MCHandlerCalls
INVARIANTS TypeOK OwnArguments MessageFreedOnce NoForgottenExit QueuedIsSignalled
PROPERTIES ImplementsChildTable WaitReturns
