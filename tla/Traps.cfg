SPECIFICATION Spec
CONSTANTS
  Lines = {0, 1, 7}
  Spurious = {7}
  USB_IRQ_VECTOR = 64
  Exceptions <- AllExceptions
  UserInts <- SomeInts
  MaxRaise = 2
INVARIANTS FramesRight InterruptsServed
PROPERTIES KeyServed
CHECK_DEADLOCK FALSE
