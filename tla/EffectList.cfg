SPECIFICATION Spec
CONSTANTS
  u1 = u1
  u2 = u2
  curse = curse
  bomb = bomb
  burn = burn
  Kind <- MCKind
  Prior <- MCPrior
  Unit <- MCUnit
  Dest <- MCDest
  Kept = {curse}
  AllowFailed = {}
  Isolated = {bomb}
  Hook = {"add", "end", "kill", "rewind"}
  MaxNode = 3
  MaxDepth = 2
CHECK_DEADLOCK FALSE
INVARIANTS ListIsWhole FallenAreBare
PROPERTIES WalkIsSound InOrder
