\* A handler that sleeps takes the timer of the sleep it interrupts.
SPECIFICATION Spec
CONSTANTS
  Fds = {0, 1}
  Readers = {}
  Writers = {}
  Modes = {"some"}
  MainCalls = {"sleep"}
  HandlerCalls = {"sleep"}
  MaxBytes = 0
  MaxDepth = 2
INVARIANT WaitIsTimed
