----------------------------- MODULE PeerSession -----------------------------
(***************************************************************************)
(* The liveness machinery of one peer session (Peer.cpp): the recurring    *)
(* timer (startRecurrentTimer, recurrentTimerExpired) with its idle,       *)
(* flow-idle and straggler drops, pinging (pingPeer,                       *)
(* maybeProcessPingResponse), receivedBytes, and shutdown.                 *)
(*                                                                         *)
(* Time is abstracted to ages: how long ago mLastRead, mLastWrite,         *)
(* mEnqueueTimeOfLastWrite and the outbound-capacity timestamp were set,   *)
(* counted in ticks and saturating at Cap. Every timeout is at most Cap,   *)
(* so each of the code's `now - t >= timeout` tests reads the same on the  *)
(* saturated age. The TCP write path (TCPPeer, not under src/) and flow    *)
(* control's capacity timestamp (FlowControl.cpp) are modelled from the    *)
(* spec (sections 4.2 and 4.5).                                            *)
(***************************************************************************)
EXTENDS Naturals

CONSTANTS
    Period,               \* RECURRENT_TIMER_PERIOD, in ticks
    AuthTimeout,          \* PEER_AUTHENTICATION_TIMEOUT
    PeerTimeout,          \* PEER_TIMEOUT
    StragglerTimeout,     \* PEER_STRAGGLER_TIMEOUT
    SendModeIdleTimeout,  \* PEER_SEND_MODE_IDLE_TIMEOUT
    MaxQueue              \* write-queue length explored

Cap == PeerTimeout + Period + 1

ASSUME /\ {Period, AuthTimeout, PeerTimeout, StragglerTimeout,
           SendModeIdleTimeout} \subseteq Nat \ {0}
       /\ AuthTimeout <= PeerTimeout
       /\ StragglerTimeout <= Cap /\ SendModeIdleTimeout <= Cap
       /\ MaxQueue \in Nat \ {0}

\* getOutboundCapacityTimestamp() is empty (an age no timestamp reaches)
NoTS == Cap + 1

VARIABLES
    state,        \* "connected" (handshaking), "authenticated" (GOT_AUTH) or "closing"
    remote,       \* "alive" or "dead": a dead remote never reads or writes again
    readAge,      \* now - mLastRead
    writeAge,     \* now - mLastWrite
    enqueueAge,   \* now - mEnqueueTimeOfLastWrite
    capAge,       \* now - outbound capacity timestamp, or NoTS
    queue,        \* writes queued on the socket
    timer,        \* mRecurringTimer: [st |-> "idle" / "armed" / "cancelled", left |-> ticks]
    pingSent,     \* mPingSentTime # PING_NOT_SENT
    pingAhead,    \* writes up to and including the ping still queued (0: delivered)
    reply,        \* the remote's DONT_HAVE for the ping id is on its way
    dropReason    \* why the session was dropped

vars == <<state, remote, readAge, writeAge, enqueueAge, capAge, queue, timer,
          pingSent, pingAhead, reply, dropReason>>

Reasons == {"none", "idle", "flow idle", "straggling", "overlay"}

TypeOK ==
    /\ state \in {"connected", "authenticated", "closing"}
    /\ remote \in {"alive", "dead"}
    /\ {readAge, writeAge, enqueueAge} \subseteq 0..Cap
    /\ capAge \in 0..NoTS
    /\ queue \in 0..MaxQueue
    /\ timer \in [st : {"idle", "armed", "cancelled"}, left : 0..Period]
    /\ pingSent \in BOOLEAN /\ reply \in BOOLEAN
    /\ pingAhead \in 0..queue
    /\ dropReason \in Reasons

\* the connection is set up (Peer constructor: every time point is now) and
\* the transport starts the recurring timer
Init ==
    /\ state = "connected" /\ remote = "alive"
    /\ readAge = 0 /\ writeAge = 0 /\ enqueueAge = 0
    /\ capAge = NoTS
    /\ queue = 0
    /\ timer = [st |-> "armed", left |-> Period]
    /\ pingSent = FALSE /\ pingAhead = 0 /\ reply = FALSE
    /\ dropReason = "none"

Age(a) == IF a = Cap THEN Cap ELSE a + 1

\* Peer::shouldAbort (the overlay's own shutdown is not modelled)
ShouldAbort == state = "closing"

\* Peer::isAuthenticated
IsAuthenticated == state = "authenticated"

\* Peer::getIOTimeout
IOTimeout == IF IsAuthenticated THEN PeerTimeout ELSE AuthTimeout

(***************************************************************************)
(* Peer::drop -> shutdown: CLOSING, and every timer cancelled. A cancelled *)
(* wait still runs its callback, with an error.                            *)
(***************************************************************************)
Cancel(t) == IF t.st = "armed" THEN [t EXCEPT !.st = "cancelled"] ELSE t

Shutdown(reason, t) ==
    /\ state' = "closing" /\ dropReason' = reason /\ timer' = Cancel(t)

\* mutant: a ping is sent whatever is outstanding
PingPeerUnguarded ==
    IF IsAuthenticated
    THEN /\ pingSent' = TRUE
         /\ reply' = (remote = "alive")
         /\ queue' = queue + 1 /\ pingAhead' = queue + 1
         /\ enqueueAge' = IF queue = 0 THEN 0 ELSE enqueueAge
    ELSE UNCHANGED <<pingSent, pingAhead, reply, queue, enqueueAge>>

(***************************************************************************)
(* Peer::pingPeer: when authenticated and no ping is outstanding, record   *)
(* the send time and send GET_SCP_QUORUMSET for its hash; a live remote    *)
(* answers with DONT_HAVE.                                                  *)
(***************************************************************************)
PingPeer ==
    IF IsAuthenticated /\ ~pingSent
    THEN /\ pingSent' = TRUE
         /\ reply' = (remote = "alive")
         /\ queue' = queue + 1 /\ pingAhead' = queue + 1
         /\ enqueueAge' = IF queue = 0 THEN 0 ELSE enqueueAge
    ELSE UNCHANGED <<pingSent, pingAhead, reply, queue, enqueueAge>>

\* mutant: the timer is re-armed only when a ping went out
StartRecurrentTimerPingGated ==
    IF ShouldAbort THEN UNCHANGED <<pingSent, pingAhead, reply, queue, enqueueAge, timer>>
    ELSE /\ PingPeer
         /\ timer' = IF IsAuthenticated /\ pingSent
                     THEN [timer EXCEPT !.st = "idle"]
                     ELSE [st |-> "armed", left |-> Period]

\* Peer::startRecurrentTimer: unless aborting, ping and re-arm for a period
StartRecurrentTimer ==
    IF ShouldAbort THEN UNCHANGED <<pingSent, pingAhead, reply, queue, enqueueAge, timer>>
    ELSE /\ PingPeer
         /\ timer' = [st |-> "armed", left |-> Period]

(***************************************************************************)
(* The mRecurringTimer callback, Peer::recurrentTimerExpired. Without an   *)
(* error it drops for idleness (nothing read and nothing written for the   *)
(* IO timeout), for flow idleness (no outbound capacity for                *)
(* PEER_SEND_MODE_IDLE_TIMEOUT) or for straggling, in that order, or       *)
(* restarts the timer. A cancelled wait runs the callback with an error:   *)
(* nothing happens.                                                        *)
(***************************************************************************)
IdleTimeout == readAge >= IOTimeout /\ writeAge >= IOTimeout
FlowIdle == capAge # NoTS /\ capAge >= SendModeIdleTimeout
Straggling == enqueueAge >= StragglerTimeout

RecurrentTimerExpired ==
    \/ /\ timer.st = "armed" /\ timer.left = 0
       /\ LET fired == [timer EXCEPT !.st = "idle"] IN
          IF IdleTimeout THEN Shutdown("idle", fired)
                          /\ UNCHANGED <<pingSent, pingAhead, reply, queue, enqueueAge>>
          ELSE IF FlowIdle THEN Shutdown("flow idle", fired)
                          /\ UNCHANGED <<pingSent, pingAhead, reply, queue, enqueueAge>>
          ELSE IF Straggling THEN Shutdown("straggling", fired)
                          /\ UNCHANGED <<pingSent, pingAhead, reply, queue, enqueueAge>>
          ELSE StartRecurrentTimer /\ UNCHANGED <<state, dropReason>>
       /\ UNCHANGED <<remote, readAge, writeAge, capAge>>
    \/ /\ timer.st = "cancelled"
       /\ timer' = [timer EXCEPT !.st = "idle"]
       /\ UNCHANGED <<state, remote, readAge, writeAge, enqueueAge, capAge,
                      queue, pingSent, pingAhead, reply, dropReason>>

\* one tick of the clock; a due timer fires before time moves on
Tick ==
    /\ ~(timer.st = "armed" /\ timer.left = 0)
    /\ readAge' = Age(readAge) /\ writeAge' = Age(writeAge)
    /\ enqueueAge' = Age(enqueueAge)
    /\ capAge' = IF capAge = NoTS THEN NoTS ELSE Age(capAge)
    /\ timer' = IF timer.st = "armed" THEN [timer EXCEPT !.left = @ - 1] ELSE timer
    /\ UNCHANGED <<state, remote, queue, pingSent, pingAhead, reply, dropReason>>

\* Peer::receivedBytes: any inbound traffic of a live remote
ReceivedBytes ==
    /\ remote = "alive" /\ ~ShouldAbort
    /\ readAge' = 0
    /\ UNCHANGED <<state, remote, writeAge, enqueueAge, capAge, queue, timer,
                   pingSent, pingAhead, reply, dropReason>>

\* Peer::maybeProcessPingResponse for the ping's own id: clear the marker
MaybeProcessPingResponse == FALSE

(***************************************************************************)
(* The DONT_HAVE answering the ping arrives: receivedBytes, then           *)
(* recvDontHave -> maybeProcessPingResponse on the main thread; both do    *)
(* nothing once the session is closing.                                    *)
(***************************************************************************)
DeliverReply ==
    /\ reply /\ remote = "alive" /\ pingAhead = 0
    /\ reply' = FALSE
    /\ IF ShouldAbort THEN UNCHANGED <<readAge, pingSent>>
       ELSE readAge' = 0 /\ pingSent' = MaybeProcessPingResponse
    /\ UNCHANGED <<state, remote, writeAge, enqueueAge, capAge, queue, timer,
                   pingAhead, dropReason>>

\* the remote's GET_SCP_QUORUMSET task is droppable: it may shed the reply
LoseReply ==
    /\ reply
    /\ reply' = FALSE
    /\ UNCHANGED <<state, remote, readAge, writeAge, enqueueAge, capAge, queue,
                   timer, pingSent, pingAhead, dropReason>>

\* recvAuth completes the handshake (PeerHandshake models it)
Authenticate ==
    /\ state = "connected" /\ remote = "alive"
    /\ state' = "authenticated" /\ readAge' = 0
    /\ UNCHANGED <<remote, writeAge, enqueueAge, capAge, queue, timer,
                   pingSent, pingAhead, reply, dropReason>>

\* Peer::sendMessage queues a write (one slot is left for the ping)
EnqueueWrite ==
    /\ ~ShouldAbort /\ queue < MaxQueue - 1
    /\ queue' = queue + 1
    /\ enqueueAge' = IF queue = 0 THEN 0 ELSE enqueueAge
    /\ UNCHANGED <<state, remote, readAge, writeAge, capAge, timer, pingSent, pingAhead,
                   reply, dropReason>>

\* the remote reads a write off the socket; a drained queue marks progress
WriteCompletes ==
    /\ remote = "alive" /\ ~ShouldAbort /\ queue > 0
    /\ queue' = queue - 1 /\ writeAge' = 0
    /\ pingAhead' = IF pingAhead > 0 THEN pingAhead - 1 ELSE 0
    /\ enqueueAge' = IF queue = 1 THEN 0 ELSE enqueueAge
    /\ UNCHANGED <<state, remote, readAge, capAge, timer, pingSent, reply,
                   dropReason>>

\* flow control runs out of outbound capacity and records when
CapacityExhausted ==
    /\ IsAuthenticated /\ capAge = NoTS
    /\ capAge' = 0
    /\ UNCHANGED <<state, remote, readAge, writeAge, enqueueAge, queue, timer,
                   pingSent, pingAhead, reply, dropReason>>

\* a SEND_MORE from the remote restores capacity and clears the timestamp
SendMoreReceived ==
    /\ IsAuthenticated /\ remote = "alive" /\ capAge # NoTS
    /\ capAge' = NoTS /\ readAge' = 0
    /\ UNCHANGED <<state, remote, writeAge, enqueueAge, queue, timer,
                   pingSent, pingAhead, reply, dropReason>>

\* the remote stops reading and writing for good
RemoteDies ==
    /\ remote = "alive"
    /\ remote' = "dead" /\ reply' = FALSE
    /\ UNCHANGED <<state, readAge, writeAge, enqueueAge, capAge, queue, timer,
                   pingSent, pingAhead, dropReason>>

\* the overlay drops the session for any other reason
OverlayDrop ==
    /\ ~ShouldAbort
    /\ Shutdown("overlay", timer)
    /\ UNCHANGED <<remote, readAge, writeAge, enqueueAge, capAge, queue,
                   pingSent, pingAhead, reply>>

Next ==
    \/ RecurrentTimerExpired \/ Tick \/ ReceivedBytes \/ DeliverReply
    \/ LoseReply \/ Authenticate \/ EnqueueWrite \/ WriteCompletes
    \/ CapacityExhausted \/ SendMoreReceived \/ RemoteDies \/ OverlayDrop

\* time passes, the VirtualClock runs due callbacks, and a live remote's
\* reply is eventually delivered unless shed
Fairness ==
    /\ WF_vars(Tick)
    /\ WF_vars(RecurrentTimerExpired)
    /\ WF_vars(DeliverReply)

Spec == Init /\ [][Next]_vars /\ Fairness

----------------------------------------------------------------------------
(* Properties                                                              *)

(***************************************************************************)
(* An open session never stays silent (nothing read and nothing written)   *)
(* for a full timer period past its IO timeout: the recurring timer keeps  *)
(* checking every period and drops it.                                     *)
(***************************************************************************)
SilenceBounded ==
    state # "closing" =>
        ~(readAge >= IOTimeout + Period /\ writeAge >= IOTimeout + Period)

\* a remote that stops reading and writing is eventually dropped
DeadPeerEventuallyDropped == remote = "dead" ~> state = "closing"

\* an outstanding ping is eventually answered (so pinging resumes), unless
\* the session closes
PingEventuallyAnswered == pingSent ~> (~pingSent \/ state = "closing")

====
