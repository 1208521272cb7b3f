--------------------------- MODULE PeerHandshake ---------------------------
(***************************************************************************)
(* One overlay connection between two Peer objects (Peer.cpp / Peer.h in   *)
(* src/unnamed/part_000): the HELLO/AUTH handshake, the per-direction MAC  *)
(* sequence of sendAuthenticatedMessage / recvMessage(AuthenticatedMessage)*)
(* the split between messages handled inline on the socket-read path       *)
(* (HELLO, AUTH) and messages posted to the main thread (everything else), *)
(* and drop.  The socket is a FIFO channel per direction; an on-path       *)
(* attacker may corrupt the MAC of frames in transit.                      *)
(*                                                                         *)
(* The Initiator is the peer whose connect completed (WE_CALLED_REMOTE),   *)
(* the Responder the one that accepted it (REMOTE_CALLED_US).  Flow        *)
(* control credit is left to module FlowControl; here a SEND_MORE is just  *)
(* an authenticated control message.                                       *)
(***************************************************************************)
EXTENDS Naturals, Sequences, SequencesExt

CONSTANTS
    Initiator, Responder,  \* the two ends of the connection
    HelloVerdicts,         \* what the checks of recvHello may conclude
    AcceptOutcomes,        \* what OverlayManager::acceptAuthenticatedPeer may answer
    ConnectOutcomes,       \* whether the caller's connect may succeed / fail
    OverlayMayDrop,        \* whether the overlay manager may drop the peer at any time
    MaxAppMsgs,            \* authenticated messages each peer sends once authenticated
    EarlySenders,          \* peers whose implementation may send before AUTH
    MaxTamper              \* faults: frames corrupted in transit or sent before AUTH

Verdicts == {"Ok", "BadCert", "Banned", "NoAddress", "WrongVersion", "Self",
             "WrongNetwork", "BadAddress", "Duplicate"}

ASSUME /\ Initiator # Responder
       /\ HelloVerdicts \subseteq Verdicts /\ "Ok" \in HelloVerdicts
       /\ AcceptOutcomes \subseteq BOOLEAN /\ AcceptOutcomes # {}
       /\ ConnectOutcomes \subseteq BOOLEAN /\ ConnectOutcomes # {}
       /\ OverlayMayDrop \in BOOLEAN
       /\ MaxAppMsgs \in Nat /\ MaxTamper \in Nat

Peers == {Initiator, Responder}
Other(p) == IF p = Initiator THEN Responder ELSE Initiator

\* Peer::PeerRole: fixed at construction by who opened the socket
Role(p) == IF p = Initiator THEN "WE_CALLED_REMOTE" ELSE "REMOTE_CALLED_US"

\* Peer::PeerState, with the numbering of Peer.h (the code compares states)
CONNECTING == 0
CONNECTED  == 1
GOT_HELLO  == 2
GOT_AUTH   == 3
CLOSING    == 4

\* HELLO and ERROR_MSG go out with sequence 0 and no MAC
Unauthenticated == {"HELLO", "ERROR_MSG"}
MsgTypes == Unauthenticated \cup
            {"AUTH", "PEERS", "SEND_MORE", "GET_SCP_STATE", "SCP_MESSAGE"}

NoKey  == <<>>
NoMac  == <<"zero">>
Forged == <<"forged">>

(***************************************************************************)
(* PeerAuth::getSendingMacKey / getReceivingMacKey (not under src/): HKDF  *)
(* over a role tag and both nonces.  A peer's nonce (mSendNonce, random in *)
(* the constructor) is represented by the peer itself.  The sending key of *)
(* one side is the receiving key of the other, and the two directions use  *)
(* different tags.                                                         *)
(***************************************************************************)
SendingMacKeySwapped(p, remoteNonce) ==
    IF Role(p) = "WE_CALLED_REMOTE" THEN <<0, p, remoteNonce>>
                                    ELSE <<1, remoteNonce, p>>
SendingMacKey(p, remoteNonce) ==
    IF Role(p) = "WE_CALLED_REMOTE" THEN <<0, p, remoteNonce>>
                                    ELSE <<1, p, remoteNonce>>
ReceivingMacKey(p, remoteNonce) ==
    IF Role(p) = "WE_CALLED_REMOTE" THEN <<1, remoteNonce, p>>
                                    ELSE <<0, remoteNonce, p>>

MacKeys == {0, 1} \X Peers \X Peers

VARIABLES
    state,       \* mState
    sendMacSeq,  \* mSendMacSeq
    recvMacSeq,  \* mRecvMacSeq
    sendMacKey,  \* mSendMacKey
    recvMacKey,  \* mRecvMacKey
    net,         \* net[p]: frames written by p and not yet read by Other(p)
    sockOpen,    \* the socket of p has not been closed by drop
    mainQ,       \* recvMessage tasks posted to p's main thread, in order
    appSent,     \* authenticated messages p sent after the handshake
    dropReason,  \* why p dropped the connection ("none" while it has not)
    tampers,     \* faults injected so far
    early        \* history: leading tasks of mainQ[p] read before p was authenticated

vars == <<state, sendMacSeq, recvMacSeq, sendMacKey, recvMacKey, net,
          sockOpen, mainQ, appSent, dropReason, tampers, early>>

Frame == [type : MsgTypes, seq : Nat, mac : {NoMac, Forged} \cup MacKeys,
          nonce : Peers]

TypeOK ==
    /\ state \in [Peers -> CONNECTING..CLOSING]
    /\ sendMacSeq \in [Peers -> Nat] /\ recvMacSeq \in [Peers -> Nat]
    /\ sendMacKey \in [Peers -> {NoKey} \cup MacKeys]
    /\ recvMacKey \in [Peers -> {NoKey} \cup MacKeys]
    /\ net \in [Peers -> Seq(Frame)]
    /\ sockOpen \in [Peers -> BOOLEAN]
    \* HELLO and AUTH are never posted: recvMessage handles them inline
    /\ mainQ \in [Peers -> Seq({f \in Frame : f.type \notin {"HELLO", "AUTH"}})]
    /\ appSent \in [Peers -> 0..MaxAppMsgs]
    /\ dropReason \in [Peers -> STRING]
    /\ tampers \in 0..MaxTamper
    /\ early \in [Peers -> Nat]

\* Peer::Peer: the caller starts CONNECTING, the accepted side CONNECTED
Init ==
    /\ state = [p \in Peers |-> IF p = Initiator THEN CONNECTING ELSE CONNECTED]
    /\ sendMacSeq = [p \in Peers |-> 0]
    /\ recvMacSeq = [p \in Peers |-> 0]
    /\ sendMacKey = [p \in Peers |-> NoKey]
    /\ recvMacKey = [p \in Peers |-> NoKey]
    /\ net = [p \in Peers |-> <<>>]
    /\ sockOpen = [p \in Peers |-> TRUE]
    /\ mainQ = [p \in Peers |-> <<>>]
    /\ appSent = [p \in Peers |-> 0]
    /\ dropReason = [p \in Peers |-> "none"]
    /\ tampers = 0
    /\ early = [p \in Peers |-> 0]

(***************************************************************************)
(* Writing.  sendAuthenticatedMessage stamps every message but HELLO and   *)
(* ERROR_MSG with the next send sequence and a MAC under the send key.     *)
(***************************************************************************)
RECURSIVE Frames(_, _, _, _)
Frames(p, ts, n, k) ==
    IF ts = <<>> THEN <<>>
    ELSE IF Head(ts) \in Unauthenticated
         THEN <<[type |-> Head(ts), seq |-> 0, mac |-> NoMac, nonce |-> p]>>
                  \o Frames(p, Tail(ts), n, k)
         ELSE <<[type |-> Head(ts), seq |-> n, mac |-> k, nonce |-> p]>>
                  \o Frames(p, Tail(ts), n + 1, k)

NumAuthenticatedAll(ts) == Len(ts)
NumAuthenticated(ts) == Len(SelectSeq(ts, LAMBDA t : t \notin Unauthenticated))

\* p sends the messages ts, starting at send sequence n with key k; the
\* channel Other(p) -> p becomes rest (the frame just read removed, or not)
Write(p, rest, n, k, ts) ==
    /\ net' = [net EXCEPT ![Other(p)] = rest, ![p] = @ \o Frames(p, ts, n, k)]
    /\ sendMacSeq' = [sendMacSeq EXCEPT ![p] = n + NumAuthenticated(ts)]
    /\ UNCHANGED <<sockOpen, dropReason>>

(***************************************************************************)
(* TCPPeer::drop (not under src/): the state becomes CLOSING, the socket   *)
(* is closed.  FLUSH_WRITE_QUEUE lets everything queued reach the remote;  *)
(* IGNORE_WRITE_QUEUE closes at once, so the remote gets some prefix.      *)
(* Drop sends nothing itself: sendErrorAndDrop queues the ERROR_MSG first. *)
(***************************************************************************)
WriteAndDrop(p, rest, n, k, ts, reason, mode) ==
    LET out == net[p] \o Frames(p, ts, n, k) IN
    /\ state' = [state EXCEPT ![p] = CLOSING]
    /\ sockOpen' = [sockOpen EXCEPT ![p] = FALSE]
    /\ dropReason' = [dropReason EXCEPT ![p] = reason]
    /\ sendMacSeq' = [sendMacSeq EXCEPT ![p] = n + NumAuthenticated(ts)]
    /\ \E kept \in (IF mode = "FLUSH_WRITE_QUEUE" THEN {out} ELSE Prefixes(out)) :
           net' = [net EXCEPT ![Other(p)] = rest, ![p] = kept]

\* Peer::shouldAbort (the overlay manager's own shutdown is not modelled)
ShouldAbort(p) == state[p] = CLOSING
IsAuthenticated(p) == state[p] = GOT_AUTH

(***************************************************************************)
(* Peer::recvHello, for a HELLO frame m read by p; rest is the channel     *)
(* after the read.  v is the outcome of the checks that depend on the      *)
(* HELLO's contents and the local configuration and ban list.              *)
(***************************************************************************)
RecvHello(p, m, rest, v) ==
    LET \* the responder echoes HELLO before any ERROR so that the caller can read it
        echo == IF Role(p) = "REMOTE_CALLED_US" THEN <<"HELLO">> ELSE <<>>
        mode == IF Role(p) = "REMOTE_CALLED_US" THEN "FLUSH_WRITE_QUEUE"
                                                ELSE "IGNORE_WRITE_QUEUE"
        newSend == SendingMacKey(p, m.nonce)
    IN
    \/ /\ state[p] >= GOT_HELLO
       /\ WriteAndDrop(p, rest, sendMacSeq[p], sendMacKey[p], <<>>,
                       "received unexpected HELLO", "IGNORE_WRITE_QUEUE")
       /\ UNCHANGED <<recvMacSeq, sendMacKey, recvMacKey>>
    \/ /\ state[p] < GOT_HELLO
       /\ v \in {"BadCert", "Banned"}
       /\ WriteAndDrop(p, rest, sendMacSeq[p], sendMacKey[p], <<>>,
                       v, "IGNORE_WRITE_QUEUE")
       /\ UNCHANGED <<recvMacSeq, sendMacKey, recvMacKey>>
    \/ /\ state[p] < GOT_HELLO
       /\ v \notin {"BadCert", "Banned"}
       \* remote versions, id and nonce recorded; sequences reset; keys derived
       /\ recvMacSeq' = [recvMacSeq EXCEPT ![p] = 0]
       /\ sendMacKey' = [sendMacKey EXCEPT ![p] = newSend]
       /\ recvMacKey' = [recvMacKey EXCEPT ![p] = ReceivingMacKey(p, m.nonce)]
       /\ CASE v = "NoAddress" ->
                  WriteAndDrop(p, rest, 0, newSend, <<>>, v, "IGNORE_WRITE_QUEUE")
            [] v \in {"WrongVersion", "Self", "WrongNetwork", "Duplicate"} ->
                  WriteAndDrop(p, rest, 0, newSend, echo \o <<"ERROR_MSG">>, v, mode)
            [] v = "BadAddress" ->
                  WriteAndDrop(p, rest, 0, newSend, echo \o <<"ERROR_MSG">>, v,
                               "IGNORE_WRITE_QUEUE")
            [] v = "Ok" ->
                  /\ state' = [state EXCEPT ![p] = GOT_HELLO]
                  /\ Write(p, rest, 0, newSend,
                           echo \o (IF Role(p) = "WE_CALLED_REMOTE"
                                    THEN <<"AUTH">> ELSE <<>>))

(***************************************************************************)
(* Peer::recvAuth.  On success the responder answers AUTH and, if the peer *)
(* manager has addresses, PEERS; then acceptAuthenticatedPeer may refuse   *)
(* the peer (ERR_LOAD); otherwise flow control starts with a SEND_MORE and *)
(* GET_SCP_STATE asks for consensus state.                                 *)
(***************************************************************************)
\* What recvAuth sends before the acceptance check: the responder's AUTH,
\* then PEERS when the peer manager has addresses to share (sendPeers)
AuthReplyNoAuth(p, havePeers) ==
    IF Role(p) = "REMOTE_CALLED_US" /\ havePeers THEN <<"PEERS">> ELSE <<>>
AuthReply(p, havePeers) ==
    IF Role(p) = "REMOTE_CALLED_US"
    THEN <<"AUTH">> \o (IF havePeers THEN <<"PEERS">> ELSE <<>>)
    ELSE <<>>

RecvAuth(p, rest) ==
    LET n == sendMacSeq[p]  k == sendMacKey[p] IN
    /\ UNCHANGED <<sendMacKey, recvMacKey>>
    /\ \/ /\ state[p] # GOT_HELLO
          /\ WriteAndDrop(p, rest, n, k, <<"ERROR_MSG">>,
                          "out-of-order AUTH message", "IGNORE_WRITE_QUEUE")
       \/ /\ state[p] = GOT_HELLO
          /\ \E havePeers \in BOOLEAN, accepted \in AcceptOutcomes :
             LET reply == AuthReply(p, havePeers) IN
                IF accepted
                THEN /\ state' = [state EXCEPT ![p] = GOT_AUTH]
                     /\ Write(p, rest, n, k, reply \o <<"SEND_MORE", "GET_SCP_STATE">>)
                ELSE WriteAndDrop(p, rest, n, k, reply \o <<"ERROR_MSG">>,
                                  "peer rejected", "FLUSH_WRITE_QUEUE")

(***************************************************************************)
(* Reading a frame: TCPPeer's read completion, recvMessage(Authenticated-  *)
(* Message) and recvMessage(HcnetMessage).  From GOT_HELLO on, every frame *)
(* but ERROR_MSG must carry the expected sequence and a valid MAC; the     *)
(* receive sequence advances even when it does not.  HELLO and AUTH are    *)
(* handled inline; every other message is posted to the main thread.       *)
(***************************************************************************)
\* recvMessage(HcnetMessage): the handshake messages are processed synchronously
HandledInlineHelloOnly(t) == t = "HELLO"
HandledInline(t) == t \in {"HELLO", "AUTH"}

MacChecked(p, m) == state[p] >= GOT_HELLO /\ m.type # "ERROR_MSG"

\* the sequence check, then hmacSha256Verify under the receive key
ValidFrameSeqOnly(p, m) == m.seq = recvMacSeq[p]
ValidFrame(p, m) == m.seq = recvMacSeq[p] /\ m.mac = recvMacKey[p]

Receive(p) ==
    LET q == Other(p)  m == Head(net[q])  rest == Tail(net[q]) IN
    /\ sockOpen[p]
    /\ state[p] \notin {CONNECTING, CLOSING}
    /\ net[q] # <<>>
    /\ UNCHANGED <<appSent, tampers>>
    /\ IF MacChecked(p, m) /\ ~ValidFrame(p, m)
       THEN /\ recvMacSeq' = [recvMacSeq EXCEPT ![p] = @ + 1]
            /\ WriteAndDrop(p, rest, sendMacSeq[p], sendMacKey[p], <<"ERROR_MSG">>,
                            IF m.seq # recvMacSeq[p] THEN "unexpected auth sequence"
                                                     ELSE "unexpected MAC",
                            "IGNORE_WRITE_QUEUE")
            /\ UNCHANGED <<sendMacKey, recvMacKey, mainQ, early>>
       ELSE LET seen == [recvMacSeq EXCEPT ![p] = IF MacChecked(p, m) THEN @ + 1 ELSE @]
            IN IF HandledInline(m.type)
               THEN /\ UNCHANGED <<mainQ, early>>
                    /\ IF m.type = "HELLO"
                       THEN \E v \in HelloVerdicts : RecvHello(p, m, rest, v)
                       ELSE /\ recvMacSeq' = seen
                            /\ RecvAuth(p, rest)
               ELSE /\ recvMacSeq' = seen
                    /\ mainQ' = [mainQ EXCEPT ![p] = Append(@, m)]
                    /\ early' = IF IsAuthenticated(p) THEN early
                                 ELSE [early EXCEPT ![p] = @ + 1]
                    /\ net' = [net EXCEPT ![q] = rest]
                    /\ UNCHANGED <<state, sendMacSeq, sendMacKey, recvMacKey,
                                   sockOpen, dropReason>>

(***************************************************************************)
(* A posted task runs on p's main thread: Peer::recvRawMessage.  A closing *)
(* peer ignores it; before GOT_AUTH only ERROR_MSG is allowed; ERROR_MSG   *)
(* ends the connection (recvError).  The other handlers reached here do    *)
(* not change the connection's state (their flow control and consensus     *)
(* effects belong to other modules).                                       *)
(***************************************************************************)
Process(p) ==
    LET m == Head(mainQ[p]) IN
    /\ mainQ[p] # <<>>
    /\ mainQ' = [mainQ EXCEPT ![p] = Tail(@)]
    /\ early' = [early EXCEPT ![p] = IF @ > 0 THEN @ - 1 ELSE 0]
    /\ UNCHANGED <<recvMacSeq, sendMacKey, recvMacKey, appSent, tampers>>
    /\ CASE ShouldAbort(p) ->
              UNCHANGED <<state, sendMacSeq, net, sockOpen, dropReason>>
         [] ~IsAuthenticated(p) /\ m.type \notin {"HELLO", "AUTH", "ERROR_MSG"} ->
              WriteAndDrop(p, net[Other(p)], sendMacSeq[p], sendMacKey[p], <<>>,
                           "received before completed handshake", "IGNORE_WRITE_QUEUE")
         [] m.type = "ERROR_MSG" ->
              WriteAndDrop(p, net[Other(p)], sendMacSeq[p], sendMacKey[p], <<>>,
                           "remote error", "IGNORE_WRITE_QUEUE")
         [] OTHER ->
              UNCHANGED <<state, sendMacSeq, net, sockOpen, dropReason>>

(***************************************************************************)
(* Peer::connectHandler: the caller's connect completes; on success it     *)
(* sends HELLO, on error it drops.  Once dropped, a pending connect can    *)
(* only complete with operation_aborted, which drop ignores.               *)
(***************************************************************************)
ConnectHandlerNoHello(p) ==
    /\ state[p] = CONNECTING
    /\ UNCHANGED <<recvMacSeq, sendMacKey, recvMacKey, mainQ, appSent, tampers, early>>
    /\ \/ /\ TRUE \in ConnectOutcomes
          /\ state' = [state EXCEPT ![p] = CONNECTED]
          /\ Write(p, net[Other(p)], sendMacSeq[p], sendMacKey[p], <<>>)
       \/ /\ FALSE \in ConnectOutcomes
          /\ WriteAndDrop(p, net[Other(p)], sendMacSeq[p], sendMacKey[p], <<>>,
                          "unable to connect", "IGNORE_WRITE_QUEUE")
ConnectHandler(p) ==
    /\ state[p] = CONNECTING
    /\ UNCHANGED <<recvMacSeq, sendMacKey, recvMacKey, mainQ, appSent, tampers, early>>
    /\ \/ /\ TRUE \in ConnectOutcomes
          /\ state' = [state EXCEPT ![p] = CONNECTED]
          /\ Write(p, net[Other(p)], sendMacSeq[p], sendMacKey[p], <<"HELLO">>)
       \/ /\ FALSE \in ConnectOutcomes
          /\ WriteAndDrop(p, net[Other(p)], sendMacSeq[p], sendMacKey[p], <<>>,
                          "unable to connect", "IGNORE_WRITE_QUEUE")

\* Any authenticated traffic the rest of the node sends to an authenticated
\* peer (SCP messages, transactions, adverts): Peer::sendMessage
SendMessage(p) ==
    /\ IsAuthenticated(p)
    /\ appSent[p] < MaxAppMsgs
    /\ appSent' = [appSent EXCEPT ![p] = @ + 1]
    /\ Write(p, net[Other(p)], sendMacSeq[p], sendMacKey[p], <<"SCP_MESSAGE">>)
    /\ UNCHANGED <<state, recvMacSeq, sendMacKey, recvMacKey, mainQ, tampers, early>>

\* A peer whose implementation breaks the protocol sends an authenticated
\* message after HELLO and before AUTH: with its keys already derived, the
\* frame carries a valid MAC and the next sequence number
SendBeforeAuth(p) ==
    /\ p \in EarlySenders
    /\ state[p] = GOT_HELLO
    /\ tampers < MaxTamper
    /\ tampers' = tampers + 1
    /\ Write(p, net[Other(p)], sendMacSeq[p], sendMacKey[p], <<"SCP_MESSAGE">>)
    /\ UNCHANGED <<state, recvMacSeq, sendMacKey, recvMacKey, mainQ, appSent, early>>

\* The remote closed its socket and everything it wrote has been read: the
\* read fails and TCPPeer drops (REMOTE_DROPPED_US)
RemoteClosed(p) ==
    /\ state[p] \notin {CONNECTING, CLOSING}
    /\ ~sockOpen[Other(p)]
    /\ net[Other(p)] = <<>>
    /\ WriteAndDrop(p, net[Other(p)], sendMacSeq[p], sendMacKey[p], <<>>,
                    "remote closed", "IGNORE_WRITE_QUEUE")
    /\ UNCHANGED <<recvMacSeq, sendMacKey, recvMacKey, mainQ, appSent, tampers, early>>

\* The overlay manager drops the peer (shutdown, eviction, ban)
OverlayDrop(p) ==
    /\ OverlayMayDrop
    /\ state[p] # CLOSING
    /\ WriteAndDrop(p, net[Other(p)], sendMacSeq[p], sendMacKey[p], <<>>,
                    "dropped by overlay", "IGNORE_WRITE_QUEUE")
    /\ UNCHANGED <<recvMacSeq, sendMacKey, recvMacKey, mainQ, appSent, tampers, early>>

\* An on-path attacker corrupts the MAC of an authenticated frame in transit
Tamper(p) ==
    /\ tampers < MaxTamper
    /\ \E i \in 1..Len(net[p]) :
          /\ net[p][i].type \notin Unauthenticated
          /\ net[p][i].mac # Forged
          /\ net' = [net EXCEPT ![p][i].mac = Forged]
    /\ tampers' = tampers + 1
    /\ UNCHANGED <<state, sendMacSeq, recvMacSeq, sendMacKey, recvMacKey,
                   sockOpen, mainQ, appSent, dropReason, early>>

\* An on-path attacker writes an ERROR_MSG into the stream from p, anywhere
\* among the frames in flight: it needs no MAC (recvMessage exempts it from
\* the sequence and MAC checks in every state)
InjectError(p) ==
    /\ tampers < MaxTamper
    /\ \E i \in 0..Len(net[p]) :
          net' = [net EXCEPT ![p] = SubSeq(@, 1, i)
                     \o <<[type |-> "ERROR_MSG", seq |-> 0, mac |-> NoMac, nonce |-> p]>>
                     \o SubSeq(@, i + 1, Len(@))]
    /\ tampers' = tampers + 1
    /\ UNCHANGED <<state, sendMacSeq, recvMacSeq, sendMacKey, recvMacKey,
                   sockOpen, mainQ, appSent, dropReason, early>>

Next ==
    \E p \in Peers :
        \/ ConnectHandler(p)
        \/ Receive(p)
        \/ Process(p)
        \/ SendMessage(p)
        \/ SendBeforeAuth(p)
        \/ RemoteClosed(p)
        \/ OverlayDrop(p)
        \/ Tamper(p)
        \/ InjectError(p)

(***************************************************************************)
(* The event loop keeps reading a readable socket, runs every posted task  *)
(* and reports the outcome of a pending connect; the remote's close is     *)
(* seen by the next read.  Sending, tampering and overlay drops are the    *)
(* environment's choice and get no fairness.                               *)
(***************************************************************************)
Fairness ==
    \A p \in Peers :
        /\ WF_vars(ConnectHandler(p))
        /\ WF_vars(Receive(p))
        /\ WF_vars(Process(p))
        /\ WF_vars(RemoteClosed(p))

Spec == Init /\ [][Next]_vars /\ Fairness

-----------------------------------------------------------------------------
(* Properties *)

AuthFrames(s) == SelectSeq(s, LAMBDA f : f.type \notin Unauthenticated)
Live(p) == state[p] \in {GOT_HELLO, GOT_AUTH}

(* MAC sequences stay contiguous (spec 3(c), 8): while both ends are past  *)
(* HELLO, the authenticated frames p has in flight carry exactly the       *)
(* sequence numbers the receiver will expect next, one after the other,   *)
(* and p's send counter is the receiver's counter plus that many.  This is *)
(* about the counter resets in recvHello, the HELLO/ERROR_MSG exemptions   *)
(* of sendAuthenticatedMessage and recvMessage, and the order of the       *)
(* handshake sends.                                                        *)
MacSequenceInSync ==
    \A p \in Peers :
        LET q == Other(p)  fs == AuthFrames(net[p]) IN
        Live(p) /\ Live(q) =>
            /\ \A i \in 1..Len(fs) : fs[i].seq = recvMacSeq[q] + i - 1
            /\ sendMacSeq[p] = recvMacSeq[q] + Len(fs)

(* Two correct peers never accuse each other of a protocol violation: a    *)
(* drop for a bad sequence, a bad MAC, an unexpected HELLO or AUTH, or a   *)
(* message before the handshake completed happens only after a fault: a   *)
(* frame corrupted in transit or sent before AUTH.  This covers the send order of recvHello/recvAuth,   *)
(* the key derivation roles and the inline/posted split of recvMessage.   *)
ProtocolViolations ==
    {"unexpected auth sequence", "unexpected MAC", "received unexpected HELLO",
     "out-of-order AUTH message", "received before completed handshake"}

NoSpuriousProtocolDrop ==
    (\E p \in Peers : dropReason[p] \in ProtocolViolations) => tampers > 0

(* A corrupted frame never reaches the main-thread handlers: the MAC check *)
(* of recvMessage(AuthenticatedMessage) rejects it first.                  *)
NoForgedMessageProcessed ==
    \A p \in Peers : \A i \in 1..Len(mainQ[p]) : mainQ[p][i].mac # Forged

(* A connection never stays half-open: eventually either both ends are     *)
(* authenticated or both are closing, for good.  Covers the replies of    *)
(* recvHello/recvAuth and that every drop is noticed by the remote.        *)
NoHalfOpenConnection ==
    <>[]( (\A p \in Peers : state[p] = GOT_AUTH)
          \/ (\A p \in Peers : state[p] = CLOSING) )


(* Spec section 6 (protocol errors): a message other than HELLO, AUTH and  *)
(* ERROR_MSG received before the handshake completed is a protocol error   *)
(* and the connection is dropped.  Peer::recvRawMessage asks               *)
(* isAuthenticated() only when the posted task runs, so a message read in  *)
(* GOT_HELLO whose task runs after the AUTH that followed it was handled   *)
(* inline passes the gate and is processed.                                *)
PreHandshakeMessageDropped ==
    [][\A p \in Peers :
          /\ early[p] > 0 /\ mainQ[p] # <<>> /\ mainQ'[p] = Tail(mainQ[p])
          /\ Head(mainQ[p]).type # "ERROR_MSG" /\ ~ShouldAbort(p)
          => state'[p] = CLOSING]_vars

=============================================================================
