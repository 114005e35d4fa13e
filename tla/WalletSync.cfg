SPECIFICATION Spec
CONSTANTS
  EveryBlock = 4
  FirstIds = 2
  Level <- const_Level
  Genesis = "g"
  Parent <- const_Parent
  TxsOf <- const_TxsOf
  In <- const_In
  Out <- const_Out
  Coinbase = {"k", "m"}
  Foreign = {"s", "x"}
  Sendable = {"x"}
  FirstTip = "a5"
  Tips = {"a5", "b5", "b6", "c8"}
  MinimumHeights = {0, 2}
  MaxCount = 4
  MaxMoves = 2
CHECK_DEADLOCK FALSE
INVARIANTS TypeOK ShortenerSound WalletExact SpentMarksBacked
PROPERTY CatchesUp
