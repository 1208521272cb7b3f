--------------------------- MODULE EntryArchival ---------------------------
(***************************************************************************)
(* What Soroban state archival promises about each contract entry, with   *)
(* TTL numbers, byte budgets and fees left out. An entry is absent, live,  *)
(* archived (a persistent entry whose TTL passed) or expired (a temporary  *)
(* entry whose TTL passed):                                                *)
(*                                                                         *)
(*   - an invocation may write any entry that is absent, live or expired   *)
(*     (the last is a recreation) and erase one that is live or expired,   *)
(*     but never touches an archived entry;                                *)
(*   - an extension changes nothing an observer of the entries can see:    *)
(*     it cannot bring back an archived or expired entry;                  *)
(*   - a restoration brings archived entries back live with their content; *)
(*   - only a ledger close lets live entries lapse, and it changes no      *)
(*     content.                                                            *)
(*                                                                         *)
(* SorobanLedger implements it (SorobanLedger!ArchivalRefined).           *)
(***************************************************************************)
EXTENDS Naturals

CONSTANTS
    Keys,        \* contract entry keys
    Temporary,   \* keys of temporary entries
    Values,      \* entry contents
    NoEntry      \* the key has no entry

VARIABLES
    ledger,      \* the ledger being applied
    status,      \* "absent", "live", "archived" or "expired", per key
    value,       \* the content of each key's entry, or NoEntry
    lastOp       \* the kind of the last operation applied in this ledger

vars == <<ledger, status, value, lastOp>>

Status == {"absent", "live", "archived", "expired"}

\* the status an entry of key k falls to when its TTL passes
Lapsed(k) == IF k \in Temporary THEN "expired" ELSE "archived"

Consistent(k) ==
    /\ (value[k] = NoEntry) = (status[k] = "absent")
    /\ status[k] \in {"absent", "live", Lapsed(k)}

Init ==
    /\ ledger = 1
    /\ status \in [Keys -> Status]
    /\ value \in [Keys -> Values \cup {NoEntry}]
    /\ \A k \in Keys : Consistent(k)
    /\ lastOp = "none"

\* per key: untouched, written (created, updated or recreated), or erased
Invoked(k) ==
    \/ status'[k] = status[k] /\ value'[k] = value[k]
    \/ /\ status[k] \in {"absent", "live", "expired"}
       /\ status'[k] = "live" /\ value'[k] \in Values
    \/ /\ status[k] \in {"live", "expired"}
       /\ status'[k] = "absent" /\ value'[k] = NoEntry

InvokeHostFunction ==
    /\ \A k \in Keys : Invoked(k)
    /\ lastOp' = "invoke"
    /\ UNCHANGED ledger

ExtendFootprintTTL ==
    /\ lastOp' = "extend"
    /\ UNCHANGED <<ledger, status, value>>

\* per key: untouched, or an archived entry back live with its content
Restored(k) ==
    \/ status'[k] = status[k]
    \/ status[k] = "archived" /\ status'[k] = "live"

RestoreFootprint ==
    /\ \A k \in Keys : Restored(k)
    /\ lastOp' = "restore"
    /\ UNCHANGED <<ledger, value>>

CloseLedger ==
    /\ ledger' = ledger + 1
    /\ \A k \in Keys :
          status'[k] \in IF status[k] = "live" THEN {"live", Lapsed(k)}
                         ELSE {status[k]}
    /\ lastOp' = "none"
    /\ UNCHANGED value

Next == InvokeHostFunction \/ ExtendFootprintTTL \/ RestoreFootprint \/ CloseLedger

Spec == Init /\ [][Next]_vars

====
