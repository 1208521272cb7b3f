---------------------------- MODULE SorobanInvoke ----------------------------
(***************************************************************************)
(* InvokeHostFunctionOpFrame::doApply (src/unnamed/part_002) over a small  *)
(* ledger of contract entries and their TTLEntries.                        *)
(*                                                                         *)
(* The footprint's entries are read in order (read-only keys, then         *)
(* read-write keys): an archived persistent entry aborts the operation, an *)
(* expired temporary entry is treated as missing, every loaded entry is    *)
(* size-checked and charged to the readBytes budget. The Rust host is an  *)
(* opaque function: for each read-write key it returns a new value, or     *)
(* omits the key, or fails. Every returned entry is size-checked, charged  *)
(* to writeBytes and created or updated; every read-write key it omitted   *)
(* is erased with its TTLEntry. A failed operation leaves the ledger as it *)
(* was (the caller rolls back the operation's LedgerTxn). The releaseAsserts *)
(* of doApply are recorded as the result code "ASSERT".                    *)
(***************************************************************************)
EXTENDS Naturals, Sequences, FiniteSets, FiniteSetsExt

CONSTANTS
    Keys,              \* contract data keys (model values)
    Temporary,         \* keys of temporary entries (isTemporaryEntry)
    Values,            \* entry contents the host can write
    VSize,             \* xdr size of each value
    NoEntry,           \* the key has no entry
    NoTTL,             \* the key has no TTLEntry
    Omit,              \* the host did not return the key
    InitValues,        \* contents entries start with
    InitTTLs,          \* liveUntilLedgerSeq values entries start with
    MinPersistentTTL,  \* stateArchivalSettings().minPersistentTTL
    MinTemporaryTTL,   \* stateArchivalSettings().minTemporaryTTL
    MaxEntrySize,      \* entry size limit of validateContractLedgerEntry
    ByteBudgets,       \* readBytes / writeBytes a transaction may declare
    MaxLedgerSeq       \* last ledger explored

ASSUME /\ Temporary \subseteq Keys /\ InitValues \subseteq Values
       /\ VSize \in [Values -> Nat \ {0}]
       /\ {MinPersistentTTL, MinTemporaryTTL} \subseteq Nat \ {0}

VARIABLES
    ledgerSeq,  \* ltx.loadHeader().current().ledgerSeq
    entry,      \* the contract entry of each key, or NoEntry
    ttl,        \* liveUntilLedgerSeq of each key's TTLEntry, or NoTTL
    last        \* the last operation's result code and the keys the host saw

vars == <<ledgerSeq, entry, ttl, last>>

Codes == {"NONE", "SUCCESS", "ENTRY_ARCHIVED", "RESOURCE_LIMIT_EXCEEDED",
          "TRAPPED", "INSUFFICIENT_REFUNDABLE_FEE", "ASSERT"}

MaxTTL == MaxLedgerSeq + Max({MinPersistentTTL, MinTemporaryTTL})

TypeOK ==
    /\ ledgerSeq \in 1..MaxLedgerSeq
    /\ entry \in [Keys -> Values \cup {NoEntry}]
    /\ ttl \in [Keys -> 0..MaxTTL \cup {NoTTL}]
    /\ last \in [code : Codes, seen : SUBSET Keys]

\* every existing entry has its TTLEntry and no TTLEntry is orphaned
Init ==
    /\ ledgerSeq = 1
    /\ \E present \in SUBSET Keys :
          /\ entry \in [Keys -> InitValues \cup {NoEntry}]
          /\ \A k \in Keys : (entry[k] # NoEntry) = (k \in present)
          /\ ttl \in [Keys -> InitTTLs \cup {NoTTL}]
          /\ \A k \in Keys : (ttl[k] # NoTTL) = (k \in present)
    /\ last = [code |-> "NONE", seen |-> {}]

\* footprints: two disjoint sequences of distinct keys, at most two keys
KeysOf(s) == {s[i] : i \in DOMAIN s}

Footprints ==
    LET Seqs == {<<>>} \cup {<<k>> : k \in Keys} \cup
                {xy \in Keys \X Keys : xy[1] # xy[2]}
    IN {fp \in [readOnly : Seqs, readWrite : Seqs] :
          /\ KeysOf(fp.readOnly) \cap KeysOf(fp.readWrite) = {}
          /\ Len(fp.readOnly) + Len(fp.readWrite) <= 2}

\* isLive (TransactionUtils, not under src/)
IsLive(k) == ttl[k] >= ledgerSeq

\* sorobanEntryLive: the TTLEntry exists and is live
EntryLive(k) == ttl[k] # NoTTL /\ IsLive(k)

\* mutant: expired persistent entries are treated as missing, like temporary ones
ArchivedBlockedNever(k) == FALSE

\* an expired entry that is not temporary cannot be accessed
ArchivedBlocked(k) == k \notin Temporary

\* validateContractLedgerEntry: the entry fits the network's size limit
ValidSize(size) == size <= MaxEntrySize

(***************************************************************************)
(* addReads over the footprint's keys, read-only first: the result code,  *)
(* the keys whose entries are handed to the host and the bytes read.      *)
(***************************************************************************)
RECURSIVE AddReads(_, _, _, _)
AddReads(keys, budget, seen, used) ==
    IF keys = <<>> THEN [code |-> "SUCCESS", seen |-> seen, used |-> used]
    ELSE LET k == Head(keys)
             loaded == EntryLive(k) /\ entry[k] # NoEntry
             size == IF loaded THEN VSize[entry[k]] ELSE 0
         IN IF ttl[k] # NoTTL /\ ~IsLive(k) /\ ArchivedBlocked(k)
            THEN [code |-> "ENTRY_ARCHIVED", seen |-> seen, used |-> used]
            ELSE IF EntryLive(k) /\ entry[k] = NoEntry
            THEN [code |-> "ASSERT", seen |-> seen, used |-> used]
            ELSE IF ~ValidSize(size) \/ budget < used + size
            THEN [code |-> "RESOURCE_LIMIT_EXCEEDED", seen |-> seen, used |-> used]
            ELSE AddReads(Tail(keys), budget,
                          IF loaded THEN seen \cup {k} ELSE seen, used + size)


\* resources.writeBytes < metrics.mLedgerWriteByte, summed over the entries
WriteExceeded(written, budget) ==
    budget < MapThenSumSet(LAMBDA k : VSize[written[k]], DOMAIN written)

\* the host sets the TTL of an entry it creates to the minimum for its kind
CreatedTTL(k) ==
    ledgerSeq + (IF k \in Temporary THEN MinTemporaryTTL ELSE MinPersistentTTL) - 1

\* mutant: the erased entry's TTLEntry is left behind
EraseKeepTTL(k) == [entry |-> NoEntry, ttl |-> ttl[k]]

\* ltx.erase(lk) and ltx.erase(getTTLKey(lk))
Erase(k) == [entry |-> NoEntry, ttl |-> NoTTL]

(***************************************************************************)
(* InvokeHostFunctionOpFrame::doApply. `out` is the host's answer for each *)
(* read-write key (a value or Omit); `fail` is "host" when the host fails  *)
(* and "late" when the events-size or refundable-fee check after the      *)
(* writes fails.                                                           *)
(***************************************************************************)
InvokeHostFunction(fp, readBytes, writeBytes, out, fail) ==
    LET reads == AddReads(fp.readOnly \o fp.readWrite, readBytes, {}, 0)
        rw == KeysOf(fp.readWrite)
        modified == {k \in rw : out[k] # Omit}
        written == [k \in modified |-> out[k]]
        erased == {k \in rw \ modified : entry[k] # NoEntry}
        code ==
            IF reads.code # "SUCCESS" THEN reads.code
            ELSE IF fail = "host" THEN "TRAPPED"
            ELSE IF \E k \in modified : ~ValidSize(VSize[out[k]])
            THEN "RESOURCE_LIMIT_EXCEEDED"
            ELSE IF WriteExceeded(written, writeBytes)
            THEN "RESOURCE_LIMIT_EXCEEDED"
            ELSE IF \E k \in erased : ttl[k] = NoTTL THEN "ASSERT"
            ELSE IF fail = "late" THEN "INSUFFICIENT_REFUNDABLE_FEE"
            ELSE "SUCCESS"
    IN /\ last' = [code |-> code, seen |-> reads.seen]
       /\ IF code = "SUCCESS"
          THEN /\ entry' = [k \in Keys |->
                              IF k \in modified THEN out[k]
                              ELSE IF k \in erased THEN Erase(k).entry
                              ELSE entry[k]]
               /\ ttl' = [k \in Keys |->
                            IF k \in modified \ reads.seen THEN CreatedTTL(k)
                            ELSE IF k \in erased THEN Erase(k).ttl
                            ELSE ttl[k]]
          ELSE UNCHANGED <<entry, ttl>>
       /\ UNCHANGED ledgerSeq

Invoke ==
    \E fp \in Footprints, rb, wb \in ByteBudgets,
       fail \in {"none", "host", "late"} :
        \E out \in [KeysOf(fp.readWrite) -> Values \cup {Omit}] :
            InvokeHostFunction(fp, rb, wb, out, fail)

\* the next ledger closes
CloseLedger ==
    /\ ledgerSeq < MaxLedgerSeq
    /\ ledgerSeq' = ledgerSeq + 1
    /\ last' = [code |-> "NONE", seen |-> {}]
    /\ UNCHANGED <<entry, ttl>>

Next == Invoke \/ CloseLedger

Spec == Init /\ [][Next]_vars

====
