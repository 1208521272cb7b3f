----------------------------- MODULE SorobanTTL -----------------------------
(***************************************************************************)
(* The TTL side of the two Soroban state-archival operations over a small  *)
(* ledger of contract entries:                                            *)
(*   ExtendFootprintTTLOpFrame (src/unnamed/part_001): doCheckValid, then  *)
(*     doApply over the read-only footprint;                               *)
(*   RestoreFootprintOpFrame (src/src/transactions/RestoreFootprintOpFrame *)
(*     .cpp): doCheckValid, then doApply over the read-write footprint.    *)
(* Ledger sequence numbers are unsigned integers of Width bits; the code's *)
(* uint32 additions wrap modulo 2^Width.                                   *)
(*                                                                         *)
(* A failed operation leaves the ledger as it was: the operation's nested  *)
(* LedgerTxn is rolled back by the transaction apply loop (not under src/).*)
(* The rent fee is computed by the Rust host; whether the refundable fee   *)
(* covers it is the environment's choice.                                  *)
(***************************************************************************)
EXTENDS Naturals, Sequences, SequencesExt, FiniteSets

CONSTANTS
    Keys,              \* contract data / code ledger keys (model values)
    Persistent,        \* keys of persistent entries (isPersistentEntry)
    Values,            \* entry contents
    VSize,             \* xdr size of each content
    NoEntry,           \* the key has no entry
    NoTTL,             \* the key has no TTLEntry
    InitEntry,         \* the entry of each key at the start
    Width,             \* bits of a ledger sequence number (32 in the code)
    MaxEntryTTL,       \* stateArchivalSettings().maxEntryTTL
    MinPersistentTTL,  \* stateArchivalSettings().minPersistentTTL
    MaxEntrySize,      \* entry size limit of validateContractLedgerEntry
    ByteBudgets,       \* readBytes / writeBytes a transaction may declare
    MaxLedgerSeq,      \* last ledger explored
    InitTTLs           \* liveUntilLedgerSeq values entries start with

ASSUME /\ Persistent \subseteq Keys
       /\ VSize \in [Values -> Nat \ {0}]
       /\ InitEntry \in [Keys -> Values \cup {NoEntry}]
       /\ Width \in Nat \ {0}
       /\ MinPersistentTTL \in 1..MaxEntryTTL
       /\ ByteBudgets \subseteq Nat
       /\ MaxLedgerSeq \in 1..(2^Width - 1)
       /\ InitTTLs \subseteq 0..MaxEntryTTL

VARIABLES
    ledgerSeq,  \* ltx.loadHeader().current().ledgerSeq
    entry,      \* the contract entry of each key, or NoEntry
    ttl,        \* liveUntilLedgerSeq of each key's TTLEntry, or NoTTL
    last        \* the operation last applied and its result code

vars == <<ledgerSeq, entry, ttl, last>>

UInt == 0..(2^Width - 1)

\* uint32_t addition: wraps modulo 2^Width
U32(x) == x % (2^Width)

\* "ASSERT": a releaseAssertOrThrow of doApply fired
Codes == {"NONE", "SUCCESS", "MALFORMED", "RESOURCE_LIMIT_EXCEEDED",
          "INSUFFICIENT_REFUNDABLE_FEE", "ASSERT"}

\* footprints: sequences of distinct keys of length at most two
Footprints == {<<>>} \cup {<<k>> : k \in Keys} \cup
              {fp \in {<<a, b>> : a, b \in Keys} : fp[1] # fp[2]}

Op == [op : {"none", "extend", "restore"}, fp : Seq(Keys), extendTo : Nat,
       readBytes : Nat, writeBytes : Nat, code : Codes]

TypeOK ==
    /\ ledgerSeq \in 1..MaxLedgerSeq
    /\ entry \in [Keys -> Values \cup {NoEntry}]
    /\ ttl \in [Keys -> UInt \cup {NoTTL}]
    /\ last \in Op

NoOp == [op |-> "none", fp |-> <<>>, extendTo |-> 0, readBytes |-> 0,
         writeBytes |-> 0, code |-> "NONE"]

Init ==
    /\ ledgerSeq = 1
    /\ entry = InitEntry
    /\ ttl \in [Keys -> InitTTLs \cup {NoTTL}]
    /\ \A k \in Keys : (ttl[k] = NoTTL) = (entry[k] = NoEntry)
    /\ last = NoOp

\* isLive (TransactionUtils, not under src/)
IsLive(k, seq) == ttl[k] >= seq

\* xdr::xdr_size of the entry loaded for key k
Size(k) == VSize[entry[k]]

\* validateContractLedgerEntry: the entry fits the network's size limit
ValidEntry(k) == Size(k) <= MaxEntrySize

----------------------------------------------------------------------------
(* ExtendFootprintTTL                                                      *)

\* mutant: the extendTo bound is off by one
ExtendToValidOffByOne(extendTo) == extendTo <= MaxEntryTTL

\* doCheckValid's bound: extendTo <= maxEntryTTL - 1
ExtendToValid(extendTo) == extendTo <= MaxEntryTTL - 1

\* the other half of the footprint, which the operation requires empty:
\* empty, or holding some key (doCheckValid only asks whether it is empty)
OtherHalves == {<<>>, <<CHOOSE k \in Keys : TRUE>>}

\* ExtendFootprintTTLOpFrame::doCheckValid: an empty read-write footprint
\* and the extendTo bound (every key of the model is a Soroban key)
ExtendCheckValid(readWrite, extendTo) ==
    readWrite = <<>> /\ ExtendToValid(extendTo)

\* mutant: newLiveUntilLedgerSeq excludes one ledger too many
NewLiveUntilOffByOne(extendTo) == U32(ledgerSeq + extendTo - 1)

\* uint32_t newLiveUntilLedgerSeq = ledgerSeq + extendTo
NewLiveUntil(extendTo) == U32(ledgerSeq + extendTo)

\* mutant: entries already living long enough are extended anyway
ExtendSkipNoneLive(k, new) == ~IsLive(k, ledgerSeq)

\* mutant: archived entries are not skipped and get extended
ExtendSkipLongerOnly(k, new) == ttl[k] >= new

\* skip missing and archived entries and those already living until `new`
ExtendSkip(k, new) == ~IsLive(k, ledgerSeq) \/ ttl[k] >= new

\* mutant: the byte budget is compared before the entry is counted
ReadExceededBefore(used, k, budget) == budget < used

\* resources.readBytes < metrics.mLedgerReadByte, after counting entry k
ReadExceeded(used, k, budget) == budget < used + Size(k)

(***************************************************************************)
(* The doApply loop over the read-only footprint: returns the result code, *)
(* the TTLs as the loop left them and the bytes read so far.              *)
(***************************************************************************)
RECURSIVE ExtendLoop(_, _, _, _, _)
ExtendLoop(fp, new, budget, t, used) ==
    IF fp = <<>> THEN [code |-> "SUCCESS", ttl |-> t, used |-> used]
    ELSE LET k == Head(fp) IN
         IF ttl[k] = NoTTL \/ ExtendSkip(k, new)
         THEN ExtendLoop(Tail(fp), new, budget, t, used)
         ELSE IF entry[k] = NoEntry
         THEN [code |-> "ASSERT", ttl |-> t, used |-> used]
         ELSE IF ~ValidEntry(k) \/ ReadExceeded(used, k, budget)
              THEN [code |-> "RESOURCE_LIMIT_EXCEEDED", ttl |-> t, used |-> used]
              ELSE ExtendLoop(Tail(fp), new, budget, [t EXCEPT ![k] = new],
                              used + Size(k))

\* ExtendFootprintTTLOpFrame::doCheckValid then doApply, one transaction
ExtendFootprintTTL(fp, readWrite, extendTo, readBytes) ==
    LET r == ExtendLoop(fp, NewLiveUntil(extendTo), readBytes, ttl, 0)
        code == IF ~ExtendCheckValid(readWrite, extendTo) THEN {"MALFORMED"}
                ELSE IF r.code # "SUCCESS" THEN {r.code}
                ELSE {"SUCCESS", "INSUFFICIENT_REFUNDABLE_FEE"}
    IN \E c \in code :
        /\ ttl' = IF c = "SUCCESS" THEN r.ttl ELSE ttl
        /\ last' = [op |-> "extend", fp |-> fp, extendTo |-> extendTo,
                    readBytes |-> readBytes, writeBytes |-> 0, code |-> c]
        /\ UNCHANGED <<ledgerSeq, entry>>

----------------------------------------------------------------------------
(* RestoreFootprint                                                        *)

\* RestoreFootprintOpFrame::doCheckValid: an empty read-only footprint and
\* only persistent keys in the read-write one
RestoreCheckValid(readOnly, fp) ==
    readOnly = <<>> /\ \A i \in 1..Len(fp) : fp[i] \in Persistent

\* mutant: the restored TTL leaves out one ledger too many
RestoredLiveUntilOffByOne == U32(ledgerSeq + MinPersistentTTL - 2)

\* uint32_t restoredLiveUntilLedger = ledgerSeq + minPersistentTTL - 1
RestoredLiveUntil == U32(ledgerSeq + MinPersistentTTL - 1)

(***************************************************************************)
(* The doApply loop over the read-write footprint: missing and live        *)
(* entries are skipped; each archived one is counted against readBytes,    *)
(* its size checked, counted against writeBytes, and its TTL set.          *)
(***************************************************************************)
RECURSIVE RestoreLoop(_, _, _, _, _, _)
RestoreLoop(fp, rb, wb, t, read, written) ==
    IF fp = <<>> THEN [code |-> "SUCCESS", ttl |-> t]
    ELSE LET k == Head(fp) IN
         IF ttl[k] = NoTTL \/ IsLive(k, ledgerSeq)
         THEN RestoreLoop(Tail(fp), rb, wb, t, read, written)
         ELSE IF entry[k] = NoEntry
         THEN [code |-> "ASSERT", ttl |-> t]
         ELSE IF \/ ReadExceeded(read, k, rb)
                 \/ ~ValidEntry(k)
                 \/ wb < written + Size(k)
              THEN [code |-> "RESOURCE_LIMIT_EXCEEDED", ttl |-> t]
              ELSE RestoreLoop(Tail(fp), rb, wb,
                               [t EXCEPT ![k] = RestoredLiveUntil],
                               read + Size(k), written + Size(k))

\* RestoreFootprintOpFrame::doCheckValid then doApply, one transaction
RestoreFootprint(fp, readOnly, readBytes, writeBytes) ==
    LET r == RestoreLoop(fp, readBytes, writeBytes, ttl, 0, 0)
        code == IF ~RestoreCheckValid(readOnly, fp) THEN {"MALFORMED"}
                ELSE IF r.code # "SUCCESS" THEN {r.code}
                ELSE {"SUCCESS", "INSUFFICIENT_REFUNDABLE_FEE"}
    IN \E c \in code :
        /\ ttl' = IF c = "SUCCESS" THEN r.ttl ELSE ttl
        /\ last' = [op |-> "restore", fp |-> fp, extendTo |-> 0,
                    readBytes |-> readBytes, writeBytes |-> writeBytes, code |-> c]
        /\ UNCHANGED <<ledgerSeq, entry>>

\* the network closes a ledger
CloseLedger ==
    /\ ledgerSeq < MaxLedgerSeq
    /\ ledgerSeq' = ledgerSeq + 1
    /\ last' = NoOp
    /\ UNCHANGED <<entry, ttl>>

Next ==
    \/ \E fp \in Footprints, o \in OtherHalves, e \in 0..MaxEntryTTL,
          rb \in ByteBudgets :
          ExtendFootprintTTL(fp, o, e, rb)
    \/ \E fp \in Footprints, o \in OtherHalves, rb, wb \in ByteBudgets :
          RestoreFootprint(fp, o, rb, wb)
    \/ CloseLedger

Spec == Init /\ [][Next]_vars

----------------------------------------------------------------------------
(* Properties                                                              *)

Succeeded(op) == last'.op = op /\ last'.code = "SUCCESS"
InFootprint(k) == \E i \in 1..Len(last'.fp) : last'.fp[i] = k
HasTTL == {k \in Keys : ttl[k] # NoTTL}
Changed == {k \in Keys : ttl'[k] # ttl[k]}

\* sum of the sizes of a set of keys
Bytes(S) == FoldSet(LAMBDA k, acc : Size(k) + acc, 0, S)

(***************************************************************************)
(* No live entry ever lives longer than maxEntryTTL ledgers counting the   *)
(* current one: doCheckValid's bound on extendTo (checked before apply)    *)
(* and minPersistentTTL <= maxEntryTTL keep every extension and            *)
(* restoration within it as ledgers close.                                 *)
(***************************************************************************)
TTLWithinMaxEntryTTL ==
    \A k \in HasTTL : IsLive(k, ledgerSeq) => ttl[k] <= ledgerSeq + MaxEntryTTL - 1

(***************************************************************************)
(* Neither operation ever shortens an entry's TTL: ExtendFootprintTTL      *)
(* skips entries already living until the new ledger, RestoreFootprint     *)
(* skips live ones.                                                        *)
(***************************************************************************)
TTLNeverDecreases ==
    [][\A k \in HasTTL : ttl'[k] # NoTTL /\ ttl'[k] >= ttl[k]]_vars

(***************************************************************************)
(* A successful ExtendFootprintTTL leaves every live entry of its          *)
(* footprint living at least extendTo ledgers past the current one, as the *)
(* comment at the newLiveUntilLedgerSeq computation says.                  *)
(***************************************************************************)
ExtendReachesTarget ==
    [][Succeeded("extend") =>
        \A k \in HasTTL : InFootprint(k) /\ IsLive(k, ledgerSeq) =>
            ttl'[k] >= ledgerSeq + last'.extendTo]_vars

(***************************************************************************)
(* A successful RestoreFootprint leaves every existing entry of its        *)
(* footprint live, and every archived one it restored live for            *)
(* minPersistentTTL ledgers including the current one.                     *)
(***************************************************************************)
RestoredEntriesLive ==
    [][Succeeded("restore") =>
        \A k \in HasTTL : InFootprint(k) =>
            /\ ttl'[k] >= ledgerSeq
            /\ ~IsLive(k, ledgerSeq) => ttl'[k] >= ledgerSeq + MinPersistentTTL - 1]_vars

(***************************************************************************)
(* A successful operation changes the TTLs of entries whose sizes add up   *)
(* to no more than the declared readBytes (and, for a restore, the         *)
(* declared writeBytes): the byte budget checks in both doApply loops.     *)
(***************************************************************************)
ResourcesRespected ==
    [][last'.code = "SUCCESS" =>
        /\ Bytes(Changed) <= last'.readBytes
        /\ last'.op = "restore" => Bytes(Changed) <= last'.writeBytes]_vars

====
