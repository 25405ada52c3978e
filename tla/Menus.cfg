SPECIFICATION Spec
CONSTANTS
  bite = bite
  roar = roar
  dash = dash
  Slots = 3
  Teach <- MCTeach
  MaxLevel = 4
  Size <- MCSize
  Below <- MCBelow
  Units = 3
  Deployable = 2
  Heights = {2, 4}
  MaxCream = 1
CHECK_DEADLOCK FALSE
INVARIANTS CursorIsShown
PROPERTIES HolesAreTheOnlyHarm OnlyTheSelectedChanges
