SPECIFICATION Spec
CONSTANTS
  Key <- MCKey
  Rank <- MCRank
  Slots = 3
  Species <- MCSpecies
  XpType <- MCXpType
  EvolveLevel <- MCEvolveLevel
  CanSelectType = {2}
  MaxType <- MCMaxType
  Types = 3
  MaxLevel = 3
  Factor <- MCFactor
  Prize = 2
  NewUnits <- MCNewUnits
  NewStorage <- MCNewStorage
  MaxEarned = 6
  MaxCream = 1
  MaxChanges = 3
  MaxStarts = 3
CHECK_DEADLOCK FALSE
INVARIANTS UnitsAreKept XpIsKept
PROPERTIES LoadedWholeOrNew
