CONSTANTS
  c1 = c1
  Contract <- const_Contract
  Kind <- const_Kind
  Losable <- const_Losable
  CancelTime <- const_CancelTime
  Expiration = 2
  MaxHeight = 3
  MaxQueue = 1
  MaxOpens = 2
  Confirmations = 1
  WalletId = 1
SPECIFICATION Spec
INVARIANTS TypeOK ContractsAgree OffersSound StartedIsConfirmed
PROPERTY ShownWhenDeep
CHECK_DEADLOCK FALSE
