SPECIFICATION Spec
CONSTANTS
  u1 = u1
  u2 = u2
  curse = curse
  bomb = bomb
  burn = burn
  Kind <- MCKind
  Prior <- MCPrior
  Unit <- MCUnit
  Dest <- MCDest
  Kept = {curse}
  AllowFailed = {}
  Isolated = {bomb}
  Hook = {"kill"}
  MaxNode = 3
  MaxDepth = 2
CHECK_DEADLOCK FALSE
PROPERTY EveryRoundEndHook
