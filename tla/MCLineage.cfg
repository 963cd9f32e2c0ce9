CONSTANTS
  Position <- MCPosition
  Origin = {"a", "z"}
  NoOrigin = "none"
  Key = {"alice", "bob"}
  OriginOf <- MCOriginOf
  KeyOf <- MCKeyOf
  ValueOf <- MCValueOf
  IsMint <- MCIsMint
  MultOf <- MCMultOf
  Block <- MCBlock
  MaxInt64 = 11
  MaxHeight = 5
SPECIFICATION Spec
INVARIANTS
  TypeOK
  LineageMatchesPositions
  SupplyIsSaturatedSum
PROPERTY
  UndoRestores
