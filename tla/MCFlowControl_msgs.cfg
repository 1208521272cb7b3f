\* Message axis only; the SEND_MORE batch is the whole flood window.
CONSTANTS
    ClassOrder <- MCClassOrder
    TxClasses <- MCTxClasses
    BytesEnabled = FALSE
    FloodReadingCapacity = 2
    ReadingCapacity = 3
    FloodBytes = 3
    SendMoreBatch = 2
    SendMoreBatchBytes = 2
    InitialMaxTxSize = 1
    TxSizeUpgrades <- MCNoUpgrades
    MaxFlood = 4
    MaxNonFlood = 2
SPECIFICATION Spec
INVARIANTS
    TypeOK
    CapacityWithinLimits
    CreditConservation
    NoOverrunDrop
    PerClassFifo
PROPERTIES
    FloodQueuesDrain
    FloodCreditRefined
