SPECIFICATION Spec
CONSTANTS
  Unit <- TwoToOne
  MoveIndex <- TwoMoves
  Kit <- ControlKit
  Rounds <- ShortRounds
  StartCooldown <- ShortStart
  Cooldown <- ShortCooldown
  MaxHp = 2
  TimeBackSpan = 1
  KarmaSpan = 1
  RoundMax = 3
INVARIANTS DenialEndsWithTheRound
PROPERTIES RoarIsUnstoppable VanishedComesBackOnlyInTime ImplementsLifecycle
