---------------------------- MODULE SorobanLedger ----------------------------
(***************************************************************************)
(* The three Soroban operations applied to one ledger of contract entries  *)
(* and their TTLEntries: InvokeHostFunction (SorobanInvoke) creates,       *)
(* updates and erases entries, ExtendFootprintTTL and RestoreFootprint     *)
(* (SorobanTTL) move their TTLs, and ledgers close. The two modules share  *)
(* ledgerSeq, entry and ttl; each keeps the result of its own last         *)
(* operation, reset when the other kind of operation or a ledger close     *)
(* comes next. Ledger numbers stay below 2^Width, so the uint32 additions  *)
(* of SorobanTTL do not wrap here.                                         *)
(***************************************************************************)
EXTENDS Naturals

CONSTANTS
    Keys, Temporary, Values, VSize, NoEntry, NoTTL, Omit, InitValues,
    InitTTLs, MinPersistentTTL, MinTemporaryTTL, MaxEntryTTL, MaxEntrySize,
    ByteBudgets, MaxLedgerSeq, Width,
    ExtendTos    \* extendTo values of the ExtendFootprintTTL operations

VARIABLES
    ledgerSeq,   \* ltx.loadHeader().current().ledgerSeq
    entry,       \* the contract entry of each key, or NoEntry
    ttl,         \* liveUntilLedgerSeq of each key's TTLEntry, or NoTTL
    lastInvoke,  \* result of the last InvokeHostFunction
    lastTTL      \* the last ExtendFootprintTTL or RestoreFootprint and its result

vars == <<ledgerSeq, entry, ttl, lastInvoke, lastTTL>>

Invoke == INSTANCE SorobanInvoke WITH last <- lastInvoke
TTL == INSTANCE SorobanTTL
          WITH last <- lastTTL, Persistent <- Keys \ Temporary,
               InitEntry <- [k \in Keys |-> NoEntry]

ASSUME /\ MaxLedgerSeq + MaxEntryTTL < 2^Width
       /\ ExtendTos \subseteq 0..MaxEntryTTL

NoInvoke == [code |-> "NONE", seen |-> {}]

Init == Invoke!Init /\ lastTTL = TTL!NoOp

InvokeHostFunction == Invoke!Invoke /\ lastTTL' = TTL!NoOp

ExtendFootprintTTL ==
    /\ \E fp \in TTL!Footprints, e \in ExtendTos, rb \in ByteBudgets :
          TTL!ExtendFootprintTTL(fp, <<>>, e, rb)
    /\ lastInvoke' = NoInvoke

RestoreFootprint ==
    /\ \E fp \in TTL!Footprints, rb, wb \in ByteBudgets :
          TTL!RestoreFootprint(fp, <<>>, rb, wb)
    /\ lastInvoke' = NoInvoke

CloseLedger == Invoke!CloseLedger /\ TTL!CloseLedger

Next == InvokeHostFunction \/ ExtendFootprintTTL \/ RestoreFootprint \/ CloseLedger

Spec == Init /\ [][Next]_vars

----------------------------------------------------------------------------
(* Properties                                                              *)

Archived(k) == k \notin Temporary /\ ttl[k] # NoTTL /\ ttl[k] < ledgerSeq

(***************************************************************************)
(* An archived persistent entry keeps its contents, and only a successful  *)
(* RestoreFootprint changes its TTLEntry: InvokeHostFunction refuses it   *)
(* (ENTRY_ARCHIVED) rather than recreating it, and ExtendFootprintTTL      *)
(* skips it rather than reviving it without the restore's write fee.      *)
(***************************************************************************)
OnlyRestoreRevives ==
    [][\A k \in Keys :
          Archived(k) =>
              /\ entry'[k] = entry[k]
              /\ ttl'[k] # ttl[k] =>
                    lastTTL'.op = "restore" /\ lastTTL'.code = "SUCCESS"]_vars

(***************************************************************************)
(* No releaseAssertOrThrow of the three doApply functions fires, whatever  *)
(* the interleaving of creations, erasures, extensions, restorations and  *)
(* ledger closes: a TTLEntry never outlives its entry or the reverse.      *)
(***************************************************************************)
NoReleaseAssertFails ==
    lastInvoke.code # "ASSERT" /\ lastTTL.code # "ASSERT"

(***************************************************************************)
(* The refinement mapping onto EntryArchival: an entry is live while its  *)
(* TTLEntry's liveUntilLedgerSeq is at least the current ledger (isLive), *)
(* and lapsed (archived or expired by its kind) after that.               *)
(***************************************************************************)
StatusOf(k) ==
    IF entry[k] = NoEntry THEN "absent"
    ELSE IF ttl[k] # NoTTL /\ ttl[k] >= ledgerSeq THEN "live"
    ELSE IF k \in Temporary THEN "expired"
    ELSE "archived"

LastOpOf ==
    IF lastTTL.op # "none" THEN lastTTL.op
    ELSE IF lastInvoke.code # "NONE" THEN "invoke"
    ELSE "none"

Archival == INSTANCE EntryArchival
              WITH ledger <- ledgerSeq, status <- [k \in Keys |-> StatusOf(k)],
                   value <- entry, lastOp <- LastOpOf

(***************************************************************************)
(* The three operations and ledger closes together keep the promise of    *)
(* state archival: archived entries are touched only by a restore, which  *)
(* keeps their content; expired temporary entries come back only when an  *)
(* invocation recreates them; an extension never brings an entry back;    *)
(* and entries lapse only when a ledger closes.                           *)
(***************************************************************************)
ArchivalRefined == Archival!Spec

====
