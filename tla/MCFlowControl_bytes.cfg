\* Both axes, messages of one or two bytes, and one max-tx-size upgrade of
\* one byte that S and R apply in either order.
CONSTANTS
    ClassOrder <- MCClassOrder
    TxClasses <- MCTxClasses
    BytesEnabled = TRUE
    FloodReadingCapacity = 2
    ReadingCapacity = 3
    FloodBytes = 3
    SendMoreBatch = 2
    SendMoreBatchBytes = 2
    InitialMaxTxSize = 2
    TxSizeUpgrades <- MCOneUpgrade
    MaxFlood = 3
    MaxNonFlood = 1
SPECIFICATION Spec
INVARIANTS
    CapacityWithinLimits
    CreditConservation
    NoOverrunDrop
    PerClassFifo
PROPERTIES
    FloodCreditRefined
