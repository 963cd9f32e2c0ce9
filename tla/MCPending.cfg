CONSTANTS
  Tx <- MCTx
  NoTx = "notx"
  Position <- MCPosition
  Ins <- MCIns
  StoreReadsFail = FALSE
SPECIFICATION FairSpec
INVARIANTS
  TypeOK
  RebuildKeepsListed
PROPERTY
  Converges
