SPECIFICATION Spec
CONSTANTS
  Content <- MCContent
  Change <- MCChange
  Compose <- MCCompose
  Unite <- MCUnite
  Name = {"A", "B", "Z"}
  TooLong = {"Z"}
  Void = "void"
  Temporary = "argument"
  Chunk <- MCChunk
  Matrix <- MCMatrix
  Cell <- MCCell
  MaxStack = 3
  MaxHandles = 1
  NULL = NULL
VIEW Shape
INVARIANTS
  MedUsesMatrix
CHECK_DEADLOCK FALSE
