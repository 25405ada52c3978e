CONSTANTS
  Key <- MCKey
  Typed = {"", "a", "an", "b"}
  AddNext <- MCAddNext
  FindNext <- MCFindNext
  Kinds <- MCKinds
  Files <- MCFiles
  Value = {0}
  MaxLen = 2
  MaxNode = 4
  MaxDepth = 2
SPECIFICATION Spec
CHECK_DEADLOCK FALSE
INVARIANTS NodesAreKept SavedReadsBack FramesHoldTheirLists
PROPERTIES OneKeyOneEdit
