SPECIFICATION FairSpec
CONSTANTS
  o1 = o1
  o2 = o2
  x1 = x1
  x2 = x2
  t1 = t1
  t2 = t2
  w1 = w1
  w2 = w2
  NoOrder = NoOrder
  Worker = Worker
  Orders = {o1}
  Transfers = {x1, x2}
  Txs = {t1, t2}
  TxOf <- OwnTx
  OrderOf <- OneLost
  Web = {w1}
  RetryIds = {1, 2}
  MaxAttempts = 2
  MaxFaults = 2
  MaxDbErrors = 0
PROPERTIES
  LedgerRefined
  RetriesSettle
