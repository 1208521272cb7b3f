\* Message axis only: does R keep reading once its flood capacity is used up?
CONSTANTS
    ClassOrder <- MCClassOrder
    TxClasses <- MCTxClasses
    BytesEnabled = FALSE
    FloodReadingCapacity = 2
    ReadingCapacity = 3
    FloodBytes = 3
    SendMoreBatch = 2
    SendMoreBatchBytes = 2
    InitialMaxTxSize = 1
    TxSizeUpgrades <- MCNoUpgrades
    MaxFlood = 4
    MaxNonFlood = 2
SPECIFICATION Spec
PROPERTIES
    ReadsPausedAtZeroFloodCapacity
