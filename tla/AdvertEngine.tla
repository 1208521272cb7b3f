--------------------------- MODULE AdvertEngine ---------------------------
(***************************************************************************)
(* The pull-based transaction flood of one peer session (Peer.cpp):        *)
(* batching outgoing tx-hash adverts (queueTxHashToAdvertise,             *)
(* startAdvertTimer, flushAdvert), sending demands (sendTxDemand),         *)
(* serving incoming demands (fulfillDemand), remembering what the peer     *)
(* advertised (recvFloodAdvert, rememberHash, mAdvertHistory) and pruning *)
(* it (clearBelow), together with the session's drop and shutdown that    *)
(* cancel the advert timer.                                                *)
(*                                                                         *)
(* Sends are posted to the main thread with a weak pointer; the task does  *)
(* nothing once the Peer object is gone, and a message sent to a closing   *)
(* peer is not written.                                                    *)
(***************************************************************************)
EXTENDS Naturals, Sequences, SequencesExt, FiniteSets

CONSTANTS
    Hashes,                 \* transaction hashes (model values)
    Pool,                   \* hashes the herder holds (Herder::getTx)
    Banned,                 \* hashes the herder has banned (Herder::isBannedTx)
    TxAdvertVectorMaxSize,  \* TX_ADVERT_VECTOR_MAX_SIZE
    MaxAdvertSizes,         \* values OverlayManager::getMaxAdvertSize may take
    AdvertCacheSize,        \* ADVERT_CACHE_SIZE of mAdvertHistory
    MaxLedger,              \* last tracking-consensus ledger explored
    MaxDemands,             \* incoming and outgoing demands explored
    MaxOffered              \* hashes handed to queueTxHashToAdvertise explored

ASSUME /\ Pool \subseteq Hashes /\ Banned \subseteq Hashes /\ Pool \cap Banned = {}
       /\ TxAdvertVectorMaxSize \in Nat \ {0}
       /\ MaxAdvertSizes \subseteq Nat \ {0} /\ MaxAdvertSizes # {}
       /\ AdvertCacheSize \in Nat \ {0}
       /\ MaxLedger \in Nat \ {0} /\ MaxDemands \in Nat /\ MaxOffered \in Nat

VARIABLES
    toAdvertise,    \* mTxHashesToAdvertise
    advertTimer,    \* mAdvertTimer: "idle" or "armed"
    maxAdvertSize,  \* current OverlayManager::getMaxAdvertSize
    posted,         \* sends posted to the main thread, oldest first
    wire,           \* messages written to the peer
    history,        \* mAdvertHistory: hash -> ledger sequence
    ledger,         \* Herder::trackingConsensusLedgerIndex
    peer,           \* "open", "closing" (dropped and shut down) or "gone"
    counters,       \* fulfilled / banned / unknown demand outcomes
    offered,        \* hashes handed to queueTxHashToAdvertise, in order
    refused,        \* hashes queueTxHashToAdvertise dropped for a full vector
    demands,        \* demands received and sent so far
    demanded        \* hashes of the demands received, in order

vars == <<toAdvertise, advertTimer, maxAdvertSize, posted, wire, history,
          ledger, peer, counters, offered, refused, demands, demanded>>

MsgTypes == {"FLOOD_ADVERT", "FLOOD_DEMAND", "TRANSACTION"}
Message == [type : MsgTypes, hashes : Seq(Hashes)]

TypeOK ==
    /\ toAdvertise \in Seq(Hashes) /\ Len(toAdvertise) <= TxAdvertVectorMaxSize
    /\ advertTimer \in {"idle", "armed"}
    /\ maxAdvertSize \in MaxAdvertSizes
    /\ posted \in Seq(Message) /\ wire \in Seq(Message)
    /\ \E D \in SUBSET Hashes : history \in [D -> 1..MaxLedger]
    /\ ledger \in 1..MaxLedger
    /\ peer \in {"open", "closing", "gone"}
    /\ counters \in [fulfilled : Nat, banned : Nat, unknown : Nat]
    /\ offered \in Seq(Hashes) /\ refused \subseteq Hashes
    /\ demands \in 0..MaxDemands
    /\ demanded \in Seq(Hashes)

Init ==
    /\ toAdvertise = <<>>
    /\ advertTimer = "idle"
    /\ maxAdvertSize \in MaxAdvertSizes
    /\ posted = <<>> /\ wire = <<>>
    /\ history = <<>>
    /\ ledger = 1
    /\ peer = "open"
    /\ counters = [fulfilled |-> 0, banned |-> 0, unknown |-> 0]
    /\ offered = <<>> /\ refused = {}
    /\ demands = 0
    /\ demanded = <<>>

\* Peer::shouldAbort (the overlay's own shutdown is not modelled)
ShouldAbort == peer # "open"

\* mutant: the timer is armed also for an aborting session
StartAdvertTimerUnchecked == "armed"

\* mutant: the timer is never started
StartAdvertTimerNever == advertTimer

\* Peer::startAdvertTimer: re-arm mAdvertTimer unless the session aborts
StartAdvertTimer == IF ShouldAbort THEN advertTimer ELSE "armed"

\* mutant: the vector is copied into the advert and not cleared
FlushAdvertNoClear(q) ==
    /\ toAdvertise' = q
    /\ posted' = IF q # <<>>
                 THEN Append(posted, [type |-> "FLOOD_ADVERT", hashes |-> q])
                 ELSE posted

\* Peer::flushAdvert of the vector q: post one FLOOD_ADVERT carrying all of it
FlushAdvert(q) ==
    /\ toAdvertise' = <<>>
    /\ posted' = IF q # <<>>
                 THEN Append(posted, [type |-> "FLOOD_ADVERT", hashes |-> q])
                 ELSE posted

\* mutant: the full check is off by one
VectorFullOffByOne == Len(toAdvertise) = TxAdvertVectorMaxSize + 1

\* mTxHashesToAdvertise.size() == TX_ADVERT_VECTOR_MAX_SIZE
VectorFull == Len(toAdvertise) = TxAdvertVectorMaxSize

(***************************************************************************)
(* Peer::queueTxHashToAdvertise(h): start the timer if the vector is       *)
(* empty, drop h if the vector is full, else append it and flush once it   *)
(* reaches getMaxAdvertSize. Called by the overlay while it holds the      *)
(* peer, also after the peer started closing.                              *)
(***************************************************************************)
QueueTxHashToAdvertise(h) ==
    /\ peer # "gone" /\ h \notin Range(offered) /\ Len(offered) < MaxOffered
    /\ offered' = Append(offered, h)
    /\ advertTimer' = IF toAdvertise = <<>> THEN StartAdvertTimer ELSE advertTimer
    /\ IF VectorFull
       THEN /\ refused' = refused \cup {h}
            /\ UNCHANGED <<toAdvertise, posted>>
       ELSE LET q == Append(toAdvertise, h)
            IN /\ UNCHANGED refused
               /\ IF Len(q) >= maxAdvertSize
                  THEN FlushAdvert(q)
                  ELSE toAdvertise' = q /\ UNCHANGED posted
    /\ UNCHANGED <<maxAdvertSize, wire, history, ledger, peer, counters,
                   demands, demanded>>

\* the mAdvertTimer callback: flushAdvert when the wait was not cancelled
AdvertTimerFires ==
    /\ advertTimer = "armed"
    /\ advertTimer' = "idle"
    /\ FlushAdvert(toAdvertise)
    /\ UNCHANGED <<maxAdvertSize, wire, history, ledger, peer, counters,
                   offered, refused, demands, demanded>>

(***************************************************************************)
(* A posted send runs: the weak pointer no longer locks once the Peer is   *)
(* gone; a closing peer does not write it.                                 *)
(***************************************************************************)
RunPosted ==
    /\ posted # <<>>
    /\ posted' = Tail(posted)
    /\ wire' = IF peer = "open" THEN Append(wire, Head(posted)) ELSE wire
    /\ UNCHANGED <<toAdvertise, advertTimer, maxAdvertSize, history, ledger,
                   peer, counters, offered, refused, demands, demanded>>

\* hash vectors of an advert or a demand: empty, one or two hashes
HashVectors == {<<>>} \cup {<<h>> : h \in Hashes} \cup
                 {<<h1, h2>> : h1, h2 \in Hashes}

\* Peer::sendTxDemand: post a FLOOD_DEMAND if there is anything to demand
SendTxDemand(hs) ==
    /\ peer # "gone" /\ demands < MaxDemands
    /\ demands' = demands + 1
    /\ posted' = IF Len(hs) > 0
                 THEN Append(posted, [type |-> "FLOOD_DEMAND", hashes |-> hs])
                 ELSE posted
    /\ UNCHANGED <<toAdvertise, advertTimer, maxAdvertSize, wire, history,
                   ledger, peer, counters, offered, refused, demanded>>

(***************************************************************************)
(* Peer::recvFloodDemand -> fulfillDemand, run by the posted recvMessage   *)
(* task of an open session (recvRawMessage checks shouldAbort first). For  *)
(* each hash: a transaction the herder holds is sent at once; otherwise    *)
(* the demand counts as banned or unknown. The task is a droppable action, *)
(* so Peer::sendMessage sheds the TRANSACTION when the write queue is      *)
(* overloaded (the environment's choice, `shedding`); the fulfilled        *)
(* counter is bumped either way.                                           *)
(***************************************************************************)
\* mutant: banned and unknown demands counted under each other's counter
RECURSIVE FulfillSwapped(_, _, _, _)
FulfillSwapped(hs, shed, w, c) ==
    IF hs = <<>> THEN <<w, c>>
    ELSE LET h == Head(hs)
             rest == Tail(hs)
         IN IF h \in Pool
            THEN FulfillSwapped(rest, Tail(shed),
                         IF Head(shed) THEN w
                         ELSE Append(w, [type |-> "TRANSACTION", hashes |-> <<h>>]),
                         [c EXCEPT !.fulfilled = @ + 1])
            ELSE IF h \in Banned
                 THEN FulfillSwapped(rest, Tail(shed), w, [c EXCEPT !.unknown = @ + 1])
                 ELSE FulfillSwapped(rest, Tail(shed), w, [c EXCEPT !.banned = @ + 1])

RECURSIVE Fulfill(_, _, _, _)
Fulfill(hs, shed, w, c) ==
    IF hs = <<>> THEN <<w, c>>
    ELSE LET h == Head(hs)
             rest == Tail(hs)
         IN IF h \in Pool
            THEN Fulfill(rest, Tail(shed),
                         IF Head(shed) THEN w
                         ELSE Append(w, [type |-> "TRANSACTION", hashes |-> <<h>>]),
                         [c EXCEPT !.fulfilled = @ + 1])
            ELSE IF h \in Banned
                 THEN Fulfill(rest, Tail(shed), w, [c EXCEPT !.banned = @ + 1])
                 ELSE Fulfill(rest, Tail(shed), w, [c EXCEPT !.unknown = @ + 1])

FulfillDemand(hs) ==
    \E shed \in [1..Len(hs) -> BOOLEAN] :
        LET r == Fulfill(hs, shed, wire, counters)
        IN /\ wire' = r[1]
           /\ counters' = r[2]

RecvFloodDemand(hs) ==
    /\ peer = "open" /\ demands < MaxDemands
    /\ demands' = demands + 1
    /\ demanded' = demanded \o hs
    /\ FulfillDemand(hs)
    /\ UNCHANGED <<toAdvertise, advertTimer, maxAdvertSize, posted, history,
                   ledger, peer, offered, refused>>

(***************************************************************************)
(* mAdvertHistory is a RandomEvictionCache (not under src/): put updates   *)
(* an existing key; a new key is inserted after evicting some key when the *)
(* cache is full. The evicted key is random: every choice is a successor.  *)
(***************************************************************************)
Insert(c, h, s) == [k \in DOMAIN c \cup {h} |-> IF k = h THEN s ELSE c[k]]

Put(c, h, s) ==
    IF h \in DOMAIN c \/ Cardinality(DOMAIN c) < AdvertCacheSize
    THEN {Insert(c, h, s)}
    ELSE {Insert([k \in DOMAIN c \ {e} |-> c[k]], h, s) : e \in DOMAIN c}

\* Peer::rememberHash of every hash of an advert, in order
RECURSIVE RememberAll(_, _, _)
RememberAll(cs, hs, s) ==
    IF hs = <<>> THEN cs
    ELSE RememberAll(UNION {Put(c, Head(hs), s) : c \in cs}, Tail(hs), s)

\* Peer::recvFloodAdvert; mTxAdvertQueue (TxAdverts) is not modelled
RecvFloodAdvert(hs) ==
    /\ peer = "open" /\ hs # <<>>
    /\ history' \in RememberAll({history}, hs, ledger)
    /\ UNCHANGED <<toAdvertise, advertTimer, maxAdvertSize, posted, wire,
                   ledger, peer, counters, offered, refused, demands, demanded>>

\* Peer::clearBelow(L), called by the overlay as ledgers close
ClearBelow(L) ==
    /\ history' = [k \in {k \in DOMAIN history : history[k] >= L} |-> history[k]]
    /\ UNCHANGED <<toAdvertise, advertTimer, maxAdvertSize, posted, wire,
                   ledger, peer, counters, offered, refused, demands, demanded>>

\* the herder tracks the next consensus ledger
LedgerAdvances ==
    /\ ledger < MaxLedger
    /\ ledger' = ledger + 1
    /\ UNCHANGED <<toAdvertise, advertTimer, maxAdvertSize, posted, wire,
                   history, peer, counters, offered, refused, demands, demanded>>

\* a network-config upgrade changes OverlayManager::getMaxAdvertSize
MaxAdvertSizeChanges(n) ==
    /\ n # maxAdvertSize
    /\ maxAdvertSize' = n
    /\ UNCHANGED <<toAdvertise, advertTimer, posted, wire, history, ledger,
                   peer, counters, offered, refused, demands, demanded>>

(***************************************************************************)
(* The session is dropped: mState becomes CLOSING and Peer::shutdown       *)
(* cancels mRecurringTimer, mAdvertTimer and mDelayedExecutionTimer (the   *)
(* cancelled wait runs its callback with an error: no flush).              *)
(***************************************************************************)
Drop ==
    /\ peer = "open"
    /\ peer' = "closing"
    /\ advertTimer' = "idle"
    /\ UNCHANGED <<toAdvertise, maxAdvertSize, posted, wire, history, ledger,
                   counters, offered, refused, demands, demanded>>

\* the overlay releases its last shared_ptr: the Peer object is destroyed
Destroy ==
    /\ peer = "closing"
    /\ peer' = "gone"
    /\ UNCHANGED <<toAdvertise, advertTimer, maxAdvertSize, posted, wire,
                   history, ledger, counters, offered, refused, demands, demanded>>

Next ==
    \/ \E h \in Hashes : QueueTxHashToAdvertise(h)
    \/ AdvertTimerFires
    \/ RunPosted
    \/ \E hs \in HashVectors : SendTxDemand(hs)
    \/ \E hs \in HashVectors : RecvFloodDemand(hs)
    \/ \E hs \in HashVectors : RecvFloodAdvert(hs)
    \/ \E L \in 1..ledger : ClearBelow(L)
    \/ LedgerAdvances
    \/ \E n \in MaxAdvertSizes : MaxAdvertSizeChanges(n)
    \/ Drop
    \/ Destroy

\* the VirtualClock fires an expired timer and the main thread runs every
\* posted task
Fairness == WF_vars(AdvertTimerFires) /\ WF_vars(RunPosted)

Spec == Init /\ [][Next]_vars /\ Fairness

----------------------------------------------------------------------------
(* Properties                                                              *)

AdvertHashes(s) ==
    FlattenSeq([i \in 1..Len(SelectSeq(s, LAMBDA m : m.type = "FLOOD_ADVERT"))
                |-> SelectSeq(s, LAMBDA m : m.type = "FLOOD_ADVERT")[i].hashes])

TxHashes == FlattenSeq([i \in 1..Len(SelectSeq(wire, LAMBDA m : m.type = "TRANSACTION"))
                |-> SelectSeq(wire, LAMBDA m : m.type = "TRANSACTION")[i].hashes])

\* s is t with some elements left out (greedy matching)
RECURSIVE IsSubSeq(_, _)
IsSubSeq(s, t) ==
    \/ s = <<>>
    \/ /\ t # <<>>
       /\ IF Head(s) = Head(t) THEN IsSubSeq(Tail(s), Tail(t)) ELSE IsSubSeq(s, Tail(t))

(***************************************************************************)
(* Every hash handed to queueTxHashToAdvertise and not dropped for a full  *)
(* vector is at most once, and in the order it was handed over, written   *)
(* in an advert, in a posted flushAdvert task or still in                  *)
(* mTxHashesToAdvertise; while the session is open it is in exactly one of *)
(* them (after the drop, posted tasks are discarded). flushAdvert's        *)
(* move-and-clear, the timer flush racing the size flush, and a batch size *)
(* lowered below the queued vector never lose or repeat a hash.            *)
(***************************************************************************)
AdvertsExactlyOnce ==
    LET advertised == AdvertHashes(wire) \o AdvertHashes(posted) \o toAdvertise
        accepted == SelectSeq(offered, LAMBDA h : h \notin refused)
    IN /\ IsSubSeq(advertised, accepted)
       /\ peer = "open" => advertised = accepted

(***************************************************************************)
(* Once the session is dropped the advert timer is never armed: the        *)
(* mAdvertTimer callback captures a raw `this`, so a wait left armed after *)
(* shutdown could flush on a closing or destroyed Peer. queueTxHashTo-     *)
(* Advertise keeps being called after the drop and relies on               *)
(* startAdvertTimer's shouldAbort check.                                   *)
(***************************************************************************)
AdvertTimerCancelled == peer # "open" => advertTimer = "idle"

(***************************************************************************)
(* fulfillDemand accounts for every demanded hash exactly once: the        *)
(* fulfilled, banned and unknown counters count the demanded hashes the    *)
(* herder holds, has banned and does not know, and the transactions        *)
(* written are demanded held hashes, in demand order (some may have been   *)
(* shed under load).                                                       *)
(***************************************************************************)
CountIn(S) == Len(SelectSeq(demanded, LAMBDA h : h \in S))

DemandOutcomesAccounted ==
    /\ counters.fulfilled = CountIn(Pool)
    /\ counters.banned = CountIn(Banned)
    /\ counters.unknown = CountIn(Hashes \ (Pool \cup Banned))
    /\ IsSubSeq(TxHashes, SelectSeq(demanded, LAMBDA h : h \in Pool))

(***************************************************************************)
(* Every hash queued for advertising is eventually written in an advert,   *)
(* unless the session is dropped first: the first queued hash arms the     *)
(* timer, and a size flush leaves the timer armed for the next batch.      *)
(***************************************************************************)
AdvertEventuallySent ==
    \A h \in Hashes :
        (h \in Range(toAdvertise)) ~> (h \in Range(AdvertHashes(wire)) \/ peer # "open")

=============================================================================
