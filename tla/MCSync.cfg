CONSTANTS
  Block <- MCBlock
  NoBlock = "none"
  Prev <- MCPrev
  HeightOf <- MCHeightOf
  Anc <- MCAnc
  Tx <- MCTx
  NoTx = "notx"
  TxsOf <- MCTxsOf
  Outpoint <- MCOutpoint
  Ins <- MCIns
  Outs <- MCOuts
  UAP <- MCUAP
  P2PKH <- MCP2PKH
  StartHeight = 1
  MaxHeight = 4
  Fragment <- MCFragment
  Offers <- MCOffers
  NoOrder = NoOrder
  NoEntry = NoEntry
  ReorgWindow = 2
  NodeHoldsStill = TRUE
  StoreReadsFail = FALSE
  MaxCrashes = 1
SPECIFICATION FairSyncSpec
INVARIANTS
  SyncTypeOK
  IndexMatchesChain
  NoOrderForSpentPosition
  LastWithdrawalSticks
  UndoWindowIsTheTop
PROPERTIES
  ImplementsMarket
  CallsAreDisciplined
  StopsAtFork
  CatchesUp
