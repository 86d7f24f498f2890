CONSTANTS
    tx1 = tx1
    tx2 = tx2
    Txs <- MCTxs
    TxBytes <- MCTxBytes
    WordSize = 2
    Width = 3
    ArgWidth = 4
    MaxTxs = 3
    NoTx = NoTx
SPECIFICATION Spec
CHECK_DEADLOCK FALSE
INVARIANTS
    EveryPageReturns
