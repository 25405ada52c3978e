CONSTANTS
  None = None
  Name <- MCName
  SlotOf <- MCSlotOf
  Kind <- MCKind
  MaxRemoved = 3
  MaxFile = 2
SPECIFICATION Spec
CHECK_DEADLOCK FALSE
INVARIANTS TreeAgrees DepthsAgree
PROPERTIES IsTable
