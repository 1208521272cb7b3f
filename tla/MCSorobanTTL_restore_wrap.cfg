CONSTANTS
    k1 = k1
    k2 = k2
    k3 = k3
    k4 = k4
    v1 = v1
    v2 = v2
    v3 = v3
    none = none
    noTTL = noTTL
    Keys <- MCKeys
    Persistent <- MCPersistent
    Values <- MCValues
    VSize <- MCVSize
    NoEntry = none
    NoTTL = noTTL
    InitEntry <- MCInitEntry
    Width = 3
    MaxEntryTTL = 3
    MinPersistentTTL = 2
    MaxEntrySize = 2
    ByteBudgets = {1, 3}
    MaxLedgerSeq = 7
    InitTTLs = {0, 2}
SPECIFICATION Spec
PROPERTIES
    RestoredEntriesLive
