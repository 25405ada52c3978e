SPECIFICATION Spec
CONSTANTS
  RecSize = 3
  ArgN = 0
  ArgZ = 1
  Boards <- MCBoards
  MaxHistory = 2
INVARIANTS NothingCarriesOver ArrowsUndo
PROPERTIES OnlyProgressIsReplaced AnswersCount
