CONSTANTS
    h1 = h1
    h2 = h2
    h3 = h3
    Hashes <- MCHashes
    Pool <- MCPool
    Banned <- MCBanned
    TxAdvertVectorMaxSize = 2
    MaxAdvertSizes = {2, 4}
    AdvertCacheSize = 1
    MaxLedger = 2
    MaxDemands = 1
    MaxOffered = 3
SPECIFICATION Spec
INVARIANTS
    TypeOK
    AdvertsExactlyOnce
    AdvertTimerCancelled
    DemandOutcomesAccounted
PROPERTIES
    AdvertEventuallySent
\* a destroyed session has nothing left to do
CHECK_DEADLOCK FALSE
