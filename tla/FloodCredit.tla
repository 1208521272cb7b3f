---------------------------- MODULE FloodCredit ----------------------------
(***************************************************************************)
(* What flow control promises for the flood messages of one direction of  *)
(* a connection, with the grants, the receiver's capacity counters and the *)
(* scheduler left out (spec section 4.2):                                  *)
(*                                                                         *)
(*   - the sender keeps one FIFO queue per class and only ever sends from  *)
(*     the front of a queue;                                               *)
(*   - on every axis the flood messages sent and not yet released by the   *)
(*     receiver never cost more than the receiver's flood limit;           *)
(*   - the limit only grows (a max-tx-size upgrade);                       *)
(*   - once the connection drops nothing more is sent;                     *)
(*   - every queued message is eventually sent while the connection is up. *)
(*                                                                         *)
(* The detailed FlowControl module implements it (FlowControl!FloodCredit- *)
(* Refined). The send step is stated by what it leaves behind, so this     *)
(* module is checked through that refinement only.                         *)
(***************************************************************************)
EXTENDS Naturals, Sequences, SequencesExt, FiniteSetsExt

CONSTANTS
    Classes,      \* the sender's flood queues
    Axes,         \* capacity axes in use
    Msgs,         \* flood messages the sender may produce
    Cost(_, _),   \* Cost(ax, m): units of axis ax message m takes
    InitLimit,    \* the receiver's flood limit of each axis at the start
    MaxIncrease   \* largest single growth of a limit

VARIABLES
    queue,        \* messages waiting to be sent, per class
    outstanding,  \* messages sent and not yet released by the receiver
    limit,        \* the receiver's flood limit of each axis
    open          \* the connection is up

vars == <<queue, outstanding, limit, open>>

Load(ax, S) == MapThenSumSet(LAMBDA m : Cost(ax, m), S)

Init ==
    /\ queue = [c \in Classes |-> <<>>]
    /\ outstanding = {}
    /\ limit = InitLimit
    /\ open = TRUE

\* the fronts of the queues q are sent, as far as the limit allows
Transmit(q) ==
    LET sent(c) == SubSeq(q[c], 1, Len(q[c]) - Len(queue'[c]))
    IN /\ DOMAIN queue' = Classes
       /\ \A c \in Classes : IsSuffix(queue'[c], q[c])
       /\ outstanding' = outstanding \cup UNION {Range(sent(c)) : c \in Classes}
       /\ \A ax \in Axes : Load(ax, outstanding') <= limit[ax]
       /\ UNCHANGED <<limit, open>>

\* a message is queued, and the sender may send at once
Produce ==
    /\ open
    /\ \E c \in Classes, m \in Msgs :
          m.cls = c /\ Transmit([queue EXCEPT ![c] = Append(@, m)])

\* credit came back: the sender sends what now fits
Send == open /\ Transmit(queue)

\* the receiver is done with a message
Release ==
    \E m \in outstanding :
        /\ outstanding' = outstanding \ {m}
        /\ UNCHANGED <<queue, limit, open>>

\* the flood limit of an axis grows
Grow ==
    /\ open
    /\ \E ax \in Axes, n \in 1..MaxIncrease :
          limit' = [limit EXCEPT ![ax] = @ + n]
    /\ UNCHANGED <<queue, outstanding, open>>

\* the connection drops; what the receiver was reading is discarded
Close ==
    /\ open /\ ~open'
    /\ outstanding' \subseteq outstanding
    /\ UNCHANGED <<queue, limit>>

Next == Produce \/ Send \/ Release \/ Grow \/ Close

\* every queued message is sent unless the connection drops
Drain == \A c \in Classes : queue[c] # <<>> ~> (queue[c] = <<>> \/ ~open)

Spec == Init /\ [][Next]_vars /\ Drain

====
