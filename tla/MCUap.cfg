CONSTANTS
  Output <- MCOutput
  OutputLists <- MCOutputLists
  Start <- MCStart
  Multiplier = {1, 2}
  EntryFee = 2
  COIN = 1
  MaxBalance = 4
  MaxMoney = 8
  UAPMintHeight = 2
  MaxOutputs = 7
  MaxEarly = 4
  MaxHeight = 1
  Radix = 16
  DirectMax = 4
  SmallMax = 2
  NumSize = 2
  GoNumSize = 4
  PubkeySizes = {3, 4}
  OriginSize = 2
  ElementAt <- MCElementAt
SPECIFICATION MCSpec
INVARIANTS
  TypeOK
  Provenance
  BackingBounded
  PositionsCanMove
  ParsersAgree
  OneEncoding
PROPERTY PooledStaysMinable
CHECK_DEADLOCK FALSE
