CONSTANTS
  W = 32
  KERNBASE = 16
  IntSize = 2
  InfoSize = 3
SPECIFICATION Spec
CHECK_DEADLOCK FALSE
INVARIANTS
  TypeOK
  SizeIsMapped
PROPERTY KernelStaysInside
