\* One persistent and one temporary key, ledgers 1..4 of 3-bit
\* numbers (no wrap), footprints of up to two keys, budgets 1 and 2, any host
\* answer, and every extendTo up to maxEntryTTL.
CONSTANTS
    p1 = p1
    t1 = t1
    a = a
    big = big
    none = none
    noTTL = noTTL
    omit = omit
    NoEntry = none
    NoTTL = noTTL
    Omit = omit
    Keys <- MCKeys
    Temporary <- MCTemporary
    Values <- MCValues
    VSize <- MCVSize
    InitValues <- MCInitValues
    InitTTLs = {1, 2}
    MinPersistentTTL = 2
    MinTemporaryTTL = 1
    MaxEntryTTL = 3
    MaxEntrySize = 1
    ByteBudgets = {1, 2}
    MaxLedgerSeq = 4
    Width = 3
    ExtendTos = {1, 2}
SPECIFICATION Spec
INVARIANTS
    NoReleaseAssertFails
PROPERTIES
    OnlyRestoreRevives
    ArchivalRefined
