---------------------------- MODULE FlowControl ----------------------------
(***************************************************************************)
(* Flow control of one direction of an authenticated connection: a sender *)
(* S that may put flood messages on the wire only against credit, and a    *)
(* receiver R that locks local capacity for every message it reads,        *)
(* releases it when the posted task is done, and grants it back with       *)
(* SEND_MORE / SEND_MORE_EXTENDED.                                         *)
(*                                                                         *)
(* Source: FlowControlCapacity.cpp and Peer.cpp in src/unnamed/part_000    *)
(* (capacity accounting, MsgCapacityTracker, beginMessageProcessing,       *)
(* endMessageProcessing, recvMessage, recvSendMore, handleMaxTxSizeIncrease)*)
(* FlowControl.cpp itself is not under src/: its queueing, batching and   *)
(* SEND_MORE coalescing are modelled from the spec (section 4.2).          *)
(*                                                                         *)
(* Two capacity axes: "msgs" (always on; one unit per message, with a      *)
(* total reading capacity for all messages besides the flood capacity)     *)
(* and "bytes" (when both peers negotiated it; one unit per byte of the    *)
(* message body, flood capacity only).                                     *)
(***************************************************************************)
EXTENDS Naturals, Sequences, SequencesExt

CONSTANTS
    ClassOrder,            \* flood queues of the sender, in the order they are served
    TxClasses,             \* flood classes dropped while the ledger is out of sync
    BytesEnabled,          \* byte-axis flow control negotiated in AUTH
    FloodReadingCapacity,  \* PEER_FLOOD_READING_CAPACITY
    ReadingCapacity,       \* PEER_READING_CAPACITY (total, flood and non-flood)
    FloodBytes,            \* byte flood capacity (flow-control bytes config mTotal)
    SendMoreBatch,         \* FLOW_CONTROL_SEND_MORE_BATCH_SIZE
    SendMoreBatchBytes,    \* byte batch size of the flow-control bytes config
    InitialMaxTxSize,      \* largest flood message body before any upgrade
    TxSizeUpgrades,        \* sequence of max-tx-size increases applied by upgrades
    MaxFlood,              \* flood messages the sender produces
    MaxNonFlood            \* non-flood messages the sender produces

Classes == Range(ClassOrder)
Axes == IF BytesEnabled THEN {"msgs", "bytes"} ELSE {"msgs"}
NonFlood == "CTRL"

ASSUME /\ ClassOrder \in Seq(STRING) /\ Len(ClassOrder) > 0
       /\ TxClasses \subseteq Classes
       /\ BytesEnabled \in BOOLEAN
       /\ {FloodReadingCapacity, ReadingCapacity, FloodBytes, SendMoreBatch,
           SendMoreBatchBytes, InitialMaxTxSize} \subseteq Nat \ {0}
       /\ TxSizeUpgrades \in Seq(Nat \ {0})
       \* the node's configuration checks: the batch fits in the window and
       \* the byte window can always carry the largest message
       /\ SendMoreBatch <= FloodReadingCapacity
       /\ FloodReadingCapacity <= ReadingCapacity
       /\ SendMoreBatchBytes + InitialMaxTxSize <= FloodBytes + 1
       /\ MaxFlood \in Nat /\ MaxNonFlood \in Nat

VARIABLES
    outbound,     \* S: mOutboundCapacity of each axis
    outQueue,     \* S: flood messages waiting for credit, per class
    wire,         \* messages S wrote and R has not read, in order
    grants,       \* SEND_MORE messages R wrote and S has not read
    floodCap,     \* R: mCapacity.mFloodCapacity of each axis
    floodLimit,   \* R: getCapacityLimits().mFloodCapacity of each axis
    totalCap,     \* R: mCapacity.mTotalCapacity of the message axis
    processing,   \* R: posted messages whose MsgCapacityTracker is alive, per scheduler queue
    processed,    \* R: flood capacity released and not yet granted back
    throttled,    \* R: mIsPeerThrottled
    closing,      \* R dropped the connection
    synced,       \* R's LedgerManager::isSynced
    maxTxSizeS,   \* largest flood message S may produce (S's network config)
    upgradesS,    \* max-tx-size upgrades S has applied
    upgradesR,    \* max-tx-size upgrades R has applied
    made          \* flood and non-flood messages S produced

vars == <<outbound, outQueue, wire, grants, floodCap, floodLimit, totalCap,
          processing, processed, throttled, closing, synced, maxTxSizeS,
          upgradesS, upgradesR, made>>

MaxSize == InitialMaxTxSize + FoldSeq(+, 0, TxSizeUpgrades)
Msg == [cls : Classes \cup {NonFlood}, size : 1..MaxSize, id : Nat]
Grant == [msgs : Nat, bytes : Nat]

\* OverlayManager::isFloodMessage
IsFlood(m) == m.cls \in Classes

\* getMsgResourceCount: one unit on the message axis, the body size on the byte axis
Cost(ax, m) == IF ax = "msgs" THEN 1 ELSE m.size

(***************************************************************************)
(* Main-thread queues. Peer::recvMessage posts each message under the name *)
(* "<cat> recvMessage"; the scheduler keeps one queue per name and may run *)
(* them in any order, FIFO within a queue.                                 *)
(***************************************************************************)
Categories == {"TX", "SCP", "CTRL"}
Category(m) == IF m.cls \in TxClasses THEN "TX"
               ELSE IF IsFlood(m) THEN "SCP" ELSE "CTRL"

TypeOK ==
    /\ outbound \in [Axes -> Nat]
    /\ outQueue \in [Classes -> Seq(Msg)]
    /\ wire \in Seq(Msg)
    /\ grants \in Seq(Grant)
    /\ floodCap \in [Axes -> Nat] /\ floodLimit \in [Axes -> Nat]
    /\ totalCap \in Nat
    /\ processing \in [Categories -> Seq(Msg)]
    /\ processed \in [Axes -> Nat]
    /\ throttled \in BOOLEAN /\ closing \in BOOLEAN /\ synced \in BOOLEAN
    /\ maxTxSizeS \in 1..MaxSize
    /\ upgradesS \in 0..Len(TxSizeUpgrades) /\ upgradesR \in 0..Len(TxSizeUpgrades)
    /\ made \in [flood : 0..MaxFlood, other : 0..MaxNonFlood]

(***************************************************************************)
(* Init is the connection right after recvAuth on R: the capacities are at *)
(* their limits (FlowControlMessageCapacity / FlowControlByteCapacity      *)
(* constructors) and FlowControl::start has sent the first grant of the    *)
(* whole flood window.                                                     *)
(***************************************************************************)
FloodLimits == [ax \in Axes |-> IF ax = "msgs" THEN FloodReadingCapacity ELSE FloodBytes]

Init ==
    /\ outbound = [ax \in Axes |-> 0]
    /\ outQueue = [c \in Classes |-> <<>>]
    /\ wire = <<>>
    /\ grants = <<[msgs |-> FloodReadingCapacity,
                   bytes |-> IF BytesEnabled THEN FloodBytes ELSE 0]>>
    /\ floodCap = FloodLimits
    /\ floodLimit = FloodLimits
    /\ totalCap = ReadingCapacity
    /\ processing = [cat \in Categories |-> <<>>]
    /\ processed = [ax \in Axes |-> 0]
    /\ throttled = FALSE
    /\ closing = FALSE
    /\ synced \in BOOLEAN
    /\ maxTxSizeS = InitialMaxTxSize
    /\ upgradesS = 0
    /\ upgradesR = 0
    /\ made = [flood |-> 0, other |-> 0]

----------------------------------------------------------------------------
(* Receiver side                                                           *)

\* FlowControlMessageCapacity::canRead (the byte axis always may read)
\* mutant: reading gated on flood capacity instead of total capacity
CanReadFloodCapacity == floodCap["msgs"] > 0

CanRead == totalCap > 0

\* releaseLocalCapacity: the flood capacity it hands back for message m
\* mutant: capacity handed back as flood capacity for every message
ReleasedAll(ax, m) == Cost(ax, m)

Released(ax, m) == IF IsFlood(m) THEN Cost(ax, m) ELSE 0

\* lockLocalCapacity succeeds on every axis (FlowControl::beginMessageProcessing)
\* mutant: the last unit of flood capacity cannot be locked
LockLocalOkStrict(m) == \A ax \in Axes : ~IsFlood(m) \/ floodCap[ax] > Cost(ax, m)

LockLocalOk(m) == \A ax \in Axes : ~IsFlood(m) \/ floodCap[ax] >= Cost(ax, m)

\* flood capacity after a failed lock: the axes are locked in order, the
\* message axis first, and the one that fails is left as it was
PartialLock(m) ==
    [ax \in Axes |-> IF ax = "msgs" /\ IsFlood(m) /\ floodCap["msgs"] >= 1
                     THEN floodCap["msgs"] - 1 ELSE floodCap[ax]]

\* flood capacity after a successful lock
Locked(m) == [ax \in Axes |-> IF IsFlood(m) THEN floodCap[ax] - Cost(ax, m) ELSE floodCap[ax]]

AsGrant(p) == [msgs |-> p["msgs"], bytes |-> IF BytesEnabled THEN p["bytes"] ELSE 0]

\* FlowControl::endMessageProcessing: enough released to send SEND_MORE
\* mutant: SEND_MORE only once the released capacity exceeds the batch
ShouldSendMoreExceeds(p) ==
    \/ p["msgs"] > SendMoreBatch
    \/ BytesEnabled /\ p["bytes"] > SendMoreBatchBytes

ShouldSendMore(p) ==
    \/ p["msgs"] >= SendMoreBatch
    \/ BytesEnabled /\ p["bytes"] >= SendMoreBatchBytes

(***************************************************************************)
(* ~MsgCapacityTracker -> Peer::endMessageProcessing for message m, given  *)
(* the capacities fc, tc it finds: nothing once the peer is closing;       *)
(* otherwise releaseLocalCapacity on every axis, coalesce the released     *)
(* flood capacity into a SEND_MORE once a batch is reached, and resume     *)
(* reading if it was throttled.                                            *)
(***************************************************************************)
\* mutant: the released capacity is not reset after it is granted
EndMessageProcessingNoReset(m, fc, tc) ==
    IF closing
    THEN /\ floodCap' = fc /\ totalCap' = tc
         /\ UNCHANGED <<processed, grants, throttled>>
    ELSE LET p == [ax \in Axes |-> processed[ax] + Released(ax, m)]
         IN /\ floodCap' = [ax \in Axes |-> fc[ax] + Released(ax, m)]
            /\ totalCap' = tc + 1
            /\ grants' = IF ShouldSendMore(p) THEN Append(grants, AsGrant(p)) ELSE grants
            /\ processed' = p
            /\ throttled' = FALSE

EndMessageProcessing(m, fc, tc) ==
    IF closing
    THEN /\ floodCap' = fc /\ totalCap' = tc
         /\ UNCHANGED <<processed, grants, throttled>>
    ELSE LET p == [ax \in Axes |-> processed[ax] + Released(ax, m)]
         IN /\ floodCap' = [ax \in Axes |-> fc[ax] + Released(ax, m)]
            /\ totalCap' = tc + 1
            /\ IF ShouldSendMore(p)
               THEN /\ grants' = Append(grants, AsGrant(p))
                    /\ processed' = [ax \in Axes |-> 0]
               ELSE UNCHANGED <<grants>> /\ processed' = p
            /\ throttled' = FALSE

(***************************************************************************)
(* The read loop: with no total capacity left reading stops and the peer  *)
(* is marked throttled.                                                    *)
(***************************************************************************)
Throttle ==
    /\ ~closing /\ ~throttled /\ wire # <<>> /\ ~CanRead
    /\ throttled' = TRUE
    /\ UNCHANGED <<outbound, outQueue, wire, grants, floodCap, floodLimit,
                   totalCap, processing, processed, closing, synced,
                   maxTxSizeS, upgradesS, upgradesR, made>>

(***************************************************************************)
(* Read one message and run Peer::recvMessage: the MsgCapacityTracker     *)
(* locks local capacity (total first, then flood; a failed flood lock      *)
(* drops the peer), a TX-category message while out of sync is discarded  *)
(* at once (the tracker's destructor releases on the read path), anything  *)
(* else is posted to the main thread with its tracker.                     *)
(***************************************************************************)
Read ==
    /\ ~closing /\ ~throttled /\ wire # <<>> /\ CanRead
    /\ LET m == Head(wire) IN
       /\ wire' = Tail(wire)
       /\ IF ~LockLocalOk(m)
          THEN /\ closing' = TRUE
               /\ floodCap' = PartialLock(m)
               /\ totalCap' = totalCap - 1
               /\ UNCHANGED <<grants, processing, processed, throttled>>
          ELSE /\ UNCHANGED closing
               /\ IF ~synced /\ Category(m) = "TX"
                  THEN /\ EndMessageProcessing(m, Locked(m), totalCap - 1)
                       /\ UNCHANGED processing
                  ELSE /\ floodCap' = Locked(m) /\ totalCap' = totalCap - 1
                       /\ processing' = [processing EXCEPT ![Category(m)] = Append(@, m)]
                       /\ UNCHANGED <<grants, processed, throttled>>
    /\ UNCHANGED <<outbound, outQueue, floodLimit, synced, maxTxSizeS,
                   upgradesS, upgradesR, made>>

(***************************************************************************)
(* The main thread runs the head of one scheduler queue (recvRawMessage,   *)
(* which changes no flow-control state on R), or load-sheds it; either way *)
(* the lambda and its tracker are destroyed.                               *)
(***************************************************************************)
Process ==
    \E cat \in Categories :
       /\ processing[cat] # <<>>
       /\ processing' = [processing EXCEPT ![cat] = Tail(@)]
       /\ EndMessageProcessing(Head(processing[cat]), floodCap, totalCap)
       /\ UNCHANGED <<outbound, outQueue, wire, floodLimit, closing, synced,
                      maxTxSizeS, upgradesS, upgradesR, made>>

\* the ledger falls out of sync or catches up
SyncChange ==
    /\ synced' = ~synced
    /\ UNCHANGED <<outbound, outQueue, wire, grants, floodCap, floodLimit,
                   totalCap, processing, processed, throttled, closing,
                   maxTxSizeS, upgradesS, upgradesR, made>>

----------------------------------------------------------------------------
(* Sender side                                                             *)

\* FlowControlCapacity::hasOutboundCapacity on every axis
\* mutant: only the message axis is checked before sending
HasOutboundCapacityMsgsOnly(m, cap) == cap["msgs"] >= 1

HasOutboundCapacity(m, cap) == \A ax \in Axes : cap[ax] >= Cost(ax, m)

\* FlowControlCapacity::lockOutboundCapacity on every axis (flood messages only)
LockOutboundCapacity(m, cap) == [ax \in Axes |-> cap[ax] - Cost(ax, m)]

\* send from queue q while its front fits: <<rest of q, sent, capacity left>>
\* mutant: a front message that does not fit is passed over
RECURSIVE SendFrontSkipping(_, _, _)
SendFrontSkipping(q, sent, cap) ==
    IF q = <<>> THEN <<q, sent, cap>>
    ELSE IF HasOutboundCapacity(Head(q), cap)
         THEN SendFrontSkipping(Tail(q), Append(sent, Head(q)),
                                LockOutboundCapacity(Head(q), cap))
         ELSE LET r == SendFrontSkipping(Tail(q), sent, cap)
              IN <<<<Head(q)>> \o r[1], r[2], r[3]>>

RECURSIVE SendFront(_, _, _)
SendFront(q, sent, cap) ==
    IF q # <<>> /\ HasOutboundCapacity(Head(q), cap)
    THEN SendFront(Tail(q), Append(sent, Head(q)), LockOutboundCapacity(Head(q), cap))
    ELSE <<q, sent, cap>>

\* FlowControl::maybeSendNextBatch: serve the queues in ClassOrder
RECURSIVE SendBatch(_, _, _, _)
SendBatch(order, qs, sent, cap) ==
    IF order = <<>> THEN <<qs, sent, cap>>
    ELSE LET r == SendFront(qs[Head(order)], sent, cap)
         IN SendBatch(Tail(order), [qs EXCEPT ![Head(order)] = r[1]], r[2], r[3])

\* mutant: the batch is written ahead of what is already queued for the socket
MaybeSendNextBatchAhead(qs, cap) ==
    LET r == SendBatch(ClassOrder, qs, <<>>, cap)
    IN /\ outQueue' = r[1]
       /\ wire' = r[2] \o wire
       /\ outbound' = r[3]

MaybeSendNextBatch(qs, cap) ==
    LET r == SendBatch(ClassOrder, qs, <<>>, cap)
    IN /\ outQueue' = r[1]
       /\ wire' = wire \o r[2]
       /\ outbound' = r[3]

(***************************************************************************)
(* Peer::sendMessage of a flood message of class c: FlowControl::          *)
(* maybeSendMessage queues it and runs maybeSendNextBatch.                 *)
(***************************************************************************)
SendFloodMessage(c, size) ==
    /\ ~closing /\ made.flood < MaxFlood
    /\ LET m == [cls |-> c, size |-> size, id |-> made.flood + made.other + 1]
       IN MaybeSendNextBatch([outQueue EXCEPT ![c] = Append(@, m)], outbound)
    /\ made' = [made EXCEPT !.flood = @ + 1]
    /\ UNCHANGED <<grants, floodCap, floodLimit, totalCap, processing,
                   processed, throttled, closing, synced, maxTxSizeS,
                   upgradesS, upgradesR>>

\* Peer::sendMessage of a non-flood message: it bypasses flow control
SendNonFloodMessage ==
    /\ ~closing /\ made.other < MaxNonFlood
    /\ wire' = Append(wire, [cls |-> NonFlood, size |-> 1,
                             id |-> made.flood + made.other + 1])
    /\ made' = [made EXCEPT !.other = @ + 1]
    /\ UNCHANGED <<outbound, outQueue, grants, floodCap, floodLimit, totalCap,
                   processing, processed, throttled, closing, synced,
                   maxTxSizeS, upgradesS, upgradesR>>

(***************************************************************************)
(* Peer::recvSendMore -> maybeReleaseCapacityAndTriggerSend: the grant is *)
(* added to the outbound capacity of each axis (releaseOutboundCapacity)   *)
(* and the queues are served again. Grants from R are always valid.        *)
(***************************************************************************)
RecvSendMore ==
    /\ ~closing /\ grants # <<>>
    /\ LET g == Head(grants)
       IN MaybeSendNextBatch(outQueue, [ax \in Axes |-> outbound[ax] + g[ax]])
    /\ grants' = Tail(grants)
    /\ UNCHANGED <<floodCap, floodLimit, totalCap, processing, processed,
                   throttled, closing, synced, maxTxSizeS, upgradesS,
                   upgradesR, made>>

\* S applies the next max-tx-size upgrade: it may produce larger messages
UpgradeSender ==
    /\ upgradesS < Len(TxSizeUpgrades)
    /\ maxTxSizeS' = maxTxSizeS + TxSizeUpgrades[upgradesS + 1]
    /\ upgradesS' = upgradesS + 1
    /\ UNCHANGED <<outbound, outQueue, wire, grants, floodCap, floodLimit,
                   totalCap, processing, processed, throttled, closing,
                   synced, upgradesR, made>>

(***************************************************************************)
(* Peer::handleMaxTxSizeIncrease on R: a positive increase raises the byte *)
(* axis flood capacity and its limit (FlowControlByteCapacity::            *)
(* handleTxSizeIncrease) and grants the increase to the peer.              *)
(***************************************************************************)
HandleMaxTxSizeIncrease(increase) ==
    IF BytesEnabled
    THEN /\ floodCap' = [floodCap EXCEPT !["bytes"] = @ + increase]
         /\ floodLimit' = [floodLimit EXCEPT !["bytes"] = @ + increase]
         /\ grants' = Append(grants, [msgs |-> 0, bytes |-> increase])
    ELSE UNCHANGED <<floodCap, floodLimit, grants>>

UpgradeReceiver ==
    /\ ~closing /\ upgradesR < Len(TxSizeUpgrades)
    /\ HandleMaxTxSizeIncrease(TxSizeUpgrades[upgradesR + 1])
    /\ upgradesR' = upgradesR + 1
    /\ UNCHANGED <<outbound, outQueue, wire, totalCap, processing, processed,
                   throttled, closing, synced, maxTxSizeS, upgradesS, made>>

----------------------------------------------------------------------------
Next ==
    \/ \E c \in Classes, size \in 1..maxTxSizeS : SendFloodMessage(c, size)
    \/ SendNonFloodMessage
    \/ RecvSendMore
    \/ Read
    \/ Throttle
    \/ Process
    \/ SyncChange
    \/ UpgradeSender
    \/ UpgradeReceiver

(***************************************************************************)
(* Fairness: R's network thread reads whenever it may, the main thread     *)
(* eventually runs every posted task, S reads and applies every grant, and *)
(* both nodes eventually apply an upgrade the network has voted. Producing *)
(* messages and losing or regaining sync are the environment's choice.     *)
(***************************************************************************)
Fairness ==
    /\ WF_vars(Read) /\ WF_vars(Throttle) /\ WF_vars(Process)
    /\ WF_vars(RecvSendMore)
    /\ WF_vars(UpgradeSender) /\ WF_vars(UpgradeReceiver)

Spec == Init /\ [][Next]_vars /\ Fairness

----------------------------------------------------------------------------
(* Properties                                                              *)

\* flood cost on axis ax of the messages in a sequence
FloodCost(ax, s) == FoldSeq(LAMBDA m, acc : acc + Released(ax, m), 0, s)
Posted == processing["TX"] \o processing["SCP"] \o processing["CTRL"]
Granted(ax) == FoldSeq(LAMBDA g, acc : acc + g[ax], 0, grants)

(***************************************************************************)
(* checkCapacityInvariants, which lockLocalCapacity and                    *)
(* releaseLocalCapacity assert: no axis holds more flood capacity than its *)
(* limit, and the total reading capacity never exceeds                     *)
(* PEER_READING_CAPACITY.                                                  *)
(***************************************************************************)
CapacityWithinLimits ==
    /\ \A ax \in Axes : floodCap[ax] <= floodLimit[ax]
    /\ totalCap <= ReadingCapacity

(***************************************************************************)
(* Credit is conserved while the connection is up: on every axis the       *)
(* sender's outbound capacity, the flood messages on the wire, the grants  *)
(* in flight and the capacity R released but has not granted back add up   *)
(* to R's free flood capacity; that plus the flood messages R is still     *)
(* processing is the limit. A lost, doubled or early grant in              *)
(* endMessageProcessing, or a lock and release that disagree, breaks it.   *)
(***************************************************************************)
CreditConservation ==
    ~closing =>
        \A ax \in Axes :
            /\ outbound[ax] + FloodCost(ax, wire) + Granted(ax) + processed[ax]
                 = floodCap[ax]
            /\ floodCap[ax] + FloodCost(ax, Posted) = floodLimit[ax]

(***************************************************************************)
(* A sender that follows the grants is never dropped with "unexpected     *)
(* flood message, peer at capacity" by Peer::beginMessageProcessing, also  *)
(* when a message takes the last unit of flood capacity.                   *)
(***************************************************************************)
NoOverrunDrop == ~closing

(***************************************************************************)
(* Flood messages of one class go through the sender's queue, the wire and *)
(* R's scheduler queue in the order S produced them: maybeSendNextBatch     *)
(* only ever sends the front of a queue.                                   *)
(***************************************************************************)
Ids(s, c) == [i \in 1..Len(SelectSeq(s, LAMBDA m : m.cls = c)) |->
                 SelectSeq(s, LAMBDA m : m.cls = c)[i].id]
PerClassFifo ==
    \A c \in Classes :
        LET ids == Ids(processing[Category([cls |-> c])] \o wire \o outQueue[c], c)
        IN \A i \in 1..Len(ids) - 1 : ids[i] < ids[i + 1]

(***************************************************************************)
(* Every flood message S queues is eventually sent: the coalesced grants   *)
(* of endMessageProcessing and the upgrade grants of                       *)
(* handleMaxTxSizeIncrease never leave S waiting on credit for good.       *)
(***************************************************************************)
FloodQueuesDrain ==
    \A c \in Classes : outQueue[c] # <<>> ~> outQueue[c] = <<>>

(***************************************************************************)
(* The spec's backpressure rule (section 4.2, and its boundary case in     *)
(* section 8): once R's flood capacity is zero it reads nothing from the   *)
(* socket until capacity comes back. Peer's read loop asks canRead, which  *)
(* FlowControlMessageCapacity answers from the total reading capacity.     *)
(***************************************************************************)
ReadsPausedAtZeroFloodCapacity ==
    [][floodCap["msgs"] = 0 /\ ~closing => Len(wire') >= Len(wire)]_vars

----------------------------------------------------------------------------
(***************************************************************************)
(* Refinement: FlowControl implements the abstract credit window of        *)
(* FloodCredit. The abstract queues are S's queues, a message is          *)
(* outstanding from the write that puts it on the wire until R's tracker   *)
(* for it is destroyed (on the read path or after the posted task), the    *)
(* limit is R's flood limit, and the connection is up until R drops it.    *)
(***************************************************************************)
FloodMsgs == [cls : Classes, size : 1..MaxSize, id : 1..MaxFlood + MaxNonFlood]

InFlight == {m \in Range(wire \o Posted) : IsFlood(m)}

Credit == INSTANCE FloodCredit
            WITH queue <- outQueue, outstanding <- InFlight,
                 limit <- floodLimit, open <- ~closing,
                 Msgs <- FloodMsgs, InitLimit <- FloodLimits,
                 MaxIncrease <- MaxSize

(***************************************************************************)
(* Every behaviour of the sender, the grants and the receiver is one of    *)
(* FloodCredit: maybeSendNextBatch sends only queue fronts and never more  *)
(* than R's flood limit is outstanding on any axis, whatever the order of  *)
(* grants, reads, posted tasks, sync changes and upgrades; and every       *)
(* queued message is eventually sent.                                      *)
(***************************************************************************)
FloodCreditRefined == Credit!Spec

=============================================================================
