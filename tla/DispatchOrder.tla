--------------------------- MODULE DispatchOrder ---------------------------
(***************************************************************************)
(* The order in which R's main thread runs the messages of one connection. *)
(* FlowControl with one history variable: the scheduler categories of the *)
(* messages Peer::recvMessage posted and whose task has not run yet, in    *)
(* the order R read them from the socket. The flow-control actions are     *)
(* those of FlowControl; each one also records what it does to the posted  *)
(* messages.                                                               *)
(***************************************************************************)
EXTENDS FlowControl

VARIABLE arrivals   \* categories of the posted messages, in read order

dvars == <<vars, arrivals>>

DInit == Init /\ arrivals = <<>>

\* the category whose scheduler queue lost its head in this step
RunCategory == CHOOSE cat \in Categories : Len(processing'[cat]) < Len(processing[cat])

(***************************************************************************)
(* Read posts the message to its category's queue unless it is dropped     *)
(* (peer at capacity) or discarded (TX while out of sync); Process runs    *)
(* the head of one queue, which was the first posted message of its        *)
(* category.                                                               *)
(***************************************************************************)
ReadTracked ==
    /\ Read
    /\ arrivals' = IF processing' = processing THEN arrivals
                   ELSE Append(arrivals, Category(Head(wire)))

ProcessTracked ==
    /\ Process
    /\ arrivals' = RemoveFirst(arrivals, RunCategory)

DNext ==
    \/ \E c \in Classes, size \in 1..maxTxSizeS :
          SendFloodMessage(c, size) /\ UNCHANGED arrivals
    \/ SendNonFloodMessage /\ UNCHANGED arrivals
    \/ RecvSendMore /\ UNCHANGED arrivals
    \/ ReadTracked
    \/ Throttle /\ UNCHANGED arrivals
    \/ ProcessTracked
    \/ SyncChange /\ UNCHANGED arrivals
    \/ UpgradeSender /\ UNCHANGED arrivals
    \/ UpgradeReceiver /\ UNCHANGED arrivals

DSpec == DInit /\ [][DNext]_dvars

=============================================================================
