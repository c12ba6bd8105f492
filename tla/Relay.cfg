SPECIFICATION Spec
CONSTANTS
  Kinds <- MCKinds
  Layout <- MCLayout
  Values <- MCValues
  AuthorStyles <- MCStyles
  MaxEdits = 1
INVARIANTS
  HashedBytesKept
  NothingStale
