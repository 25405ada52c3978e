SPECIFICATION Spec
CONSTANTS
  Unit <- OneToTwo
  MoveIndex <- TwoMoves
  Kit <- WinnerKit
  Rounds <- ShortRounds
  StartCooldown <- ShortStart
  Cooldown <- ShortCooldown
  MaxHp = 2
  TimeBackSpan = 1
  KarmaSpan = 1
  RoundMax = 3
INVARIANTS WinnerIsRight
PROPERTIES ImmortalStands
