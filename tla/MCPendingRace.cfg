CONSTANTS
  Tx <- MCTx
  NoTx = "notx"
  Position <- MCPosition
  Ins <- MCIns
  StoreReadsFail = FALSE
SPECIFICATION Spec
PROPERTY
  FilledStaysOffBook
