SPECIFICATION Spec
CONSTANTS
  Unit <- TwoASide
  MoveIndex <- OneMove
  Kit <- RoarKit
  Rounds <- ShortRounds
  StartCooldown <- ShortStart
  Cooldown <- ShortCooldown
  MaxHp = 1
  TimeBackSpan = 1
  KarmaSpan = 1
  RoundMax = 3
INVARIANTS TypeOK RoaredInEverySnapshot RoundsBeginSettled OwnAction FallenAreStripped
PROPERTIES RoaredForever Termination
