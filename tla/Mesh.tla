-------------------------------- MODULE Mesh --------------------------------
(***************************************************************************)
(* The mesh of peer connections (client/js/webrtc.js) running over the     *)
(* signaling server: Signaling with what each client sends made explicit.  *)
(*                                                                         *)
(* A client joins, offers to everyone it finds in the room, answers the    *)
(* offers of those who come later and trickles candidates.  Each peer has  *)
(* a serial queue of asynchronous operations; an operation that awaits is  *)
(* several steps, and its continuation stays at the head of its queue.     *)
(* What interleaves with them is every other queue, the gathering of       *)
(* candidates, the delivery of messages and everything Signaling lets      *)
(* happen to connections.                                                  *)
(***************************************************************************)
EXTENDS Signaling

CONSTANT MaxCandidates    \* bound: candidates gathered for one peer connection

\* A room may be full, and a target gone: the server refuses requests.
ASSUME MeshAssumption ==
    /\ Payload = {"offer", "answer", "candidate"}
    /\ "refused" \in Traffic
    /\ MaxCandidates \in Nat

VARIABLES outbox,   \* outbox[c]: requests sent by c that the server has not read
          session,  \* session[c]: the stage of onJoinRoom() and WebRtcSession
          departed, \* departed[c]: WebRtcSession.departed
          pc,       \* pc[c][d]: c's RTCPeerConnection with d, with its buffer
          ops,      \* ops[c][d]: the queue of c for d
          tiles     \* tiles[c]: the participants with a tile in the grid of c

rtc == <<outbox, session, departed, pc, ops>>
mesh == <<rtc, tiles>>
meshVars == <<vars, mesh>>

JoinRequest(r)      == [type |-> "room.join", roomId |-> r]
SignalRequest(d, p) == [type |-> "webrtc", targetId |-> d, payload |-> p]

RequestMessage == [type : {"room.join"}, roomId : RoomId]
    \cup [type : {"webrtc"}, targetId : Conn, payload : Payload]

(***************************************************************************)
(* The operations of a queue, and the continuations after their awaits.    *)
(***************************************************************************)
Operation == {"start", "sendOffer",
              "offer", "createAnswer", "sendAnswer",
              "answer", "candidate"}

\* state: signalingState; remote: there is a remoteDescription;
\* held: length of `candidates`; added: candidates given to addIceCandidate;
\* gathered: candidates of its own that it sent.
NoPeer == [state |-> "none", remote |-> FALSE, held |-> 0, added |-> 0, gathered |-> 0]

PeerState == {"none", "stable", "have-local-offer", "have-remote-offer", "closed"}

MeshTypeOK ==
    /\ TypeOK
    /\ outbox \in [Conn -> Seq(RequestMessage)]
    /\ session \in [Conn -> {"none", "joining", "active", "closed"}]
    /\ departed \in [Conn -> SUBSET Conn]
    /\ pc \in [Conn -> [Conn -> [state : PeerState, remote : BOOLEAN,
                                 held : Nat, added : Nat, gathered : 0..MaxCandidates]]]
    /\ ops \in [Conn -> [Conn -> Seq(Operation)]]
    /\ tiles \in [Conn -> SUBSET Conn]

MeshInit ==
    /\ Init
    /\ outbox = [c \in Conn |-> <<>>]
    /\ session = [c \in Conn |-> "none"]
    /\ departed = [c \in Conn |-> {}]
    /\ pc = [c \in Conn |-> [d \in Conn |-> NoPeer]]
    /\ ops = [c \in Conn |-> [d \in Conn |-> <<>>]]
    /\ tiles = [c \in Conn |-> {}]

-----------------------------------------------------------------------------
(* Sending, and the server's reading of what was sent. *)

\* send(): the bytes of a link that is gone reach nobody
Send(c, m) ==
    outbox' = IF link[c] = "up" THEN [outbox EXCEPT ![c] = Append(@, m)] ELSE outbox

SendJoin(c, r) ==
    /\ link[c] = "up"
    /\ session[c] = "none"
    /\ session' = [session EXCEPT ![c] = "joining"]
    /\ Send(c, JoinRequest(r))
    /\ UNCHANGED <<vars, departed, pc, ops, tiles>>

\* What the 'message' handler of the server does with request m of c
Handle(c, m) ==
    \/ /\ m.type = "room.join"
       /\ Join(c, m.roomId) \/ JoinFull(c, m.roomId)
    \/ /\ m.type = "webrtc"
       /\ \/ Relay(c, m.targetId, m.payload)
          \/ /\ m.targetId \notin Members(participant[c])
             /\ RelayNoTarget(c)
    \/ "limited" \in Traffic /\ RateLimited(c)

ServerReads(c) ==
    /\ outbox[c] # <<>>
    /\ Handle(c, Head(outbox[c]))
    /\ outbox' = [outbox EXCEPT ![c] = Tail(@)]
    /\ UNCHANGED <<session, departed, pc, ops, tiles>>

\* A chat.send is read as soon as it is sent: nothing else that c sends depends
\* on it.  Bound: one message of the chat is on its way at a time.
SayAndRead(c) ==
    /\ "chat.send" \in Traffic
    /\ session[c] = "active" /\ link[c] = "up"
    /\ \A d, e \in Conn : \A i \in DOMAIN inbox[d] : inbox[d][i] # ChatMessage(e)
    /\ Chat(c)
    /\ UNCHANGED mesh

-----------------------------------------------------------------------------
(* What a client does with a message. *)

\* start(): an offer to everyone who was in the room before
StartSession(c, S) ==
    /\ session' = [session EXCEPT ![c] = "active"]
    /\ ops' = [ops EXCEPT ![c] = [d \in Conn |-> IF d \in S \ {c} THEN <<"start">> ELSE <<>>]]
    /\ UNCHANGED <<outbox, departed, pc>>

\* the handler registered by the constructor: one more operation for the sender
Enqueue(c, d, op) ==
    /\ ops' = IF d \in departed[c] THEN ops ELSE [ops EXCEPT ![c][d] = Append(@, op)]
    /\ UNCHANGED <<outbox, session, departed, pc>>

\* Faulty: the peer is forgotten, its queue and its departure are not dealt with.
RemovePeerForgets(c, d) ==
    /\ pc' = [pc EXCEPT ![c][d] = NoPeer]
    /\ UNCHANGED <<outbox, session, departed, ops>>

\* removePeer(): pc.close(), and neither queue nor peer any more
RemovePeer(c, d) ==
    /\ departed' = [departed EXCEPT ![c] = @ \cup {d}]
    /\ pc' = [pc EXCEPT ![c][d].state = IF @ = "none" THEN "none" ELSE "closed"]
    /\ ops' = [ops EXCEPT ![c][d] = <<>>]
    /\ UNCHANGED <<outbox, session>>

\* close(): every peer connection is closed and nothing queued runs
CloseSession(c) ==
    /\ session' = [session EXCEPT ![c] = "closed"]
    /\ pc' = [pc EXCEPT ![c] = [d \in Conn |->
                 IF @[d].state = "none" THEN @[d] ELSE [@[d] EXCEPT !.state = "closed"]]]
    /\ ops' = [ops EXCEPT ![c] = [d \in Conn |-> <<>>]]
    /\ tiles' = [tiles EXCEPT ![c] = {}]
    /\ UNCHANGED departed

\* createVideoTile(), called for those of S that have none
WithTiles(c, S) == [tiles EXCEPT ![c] = @ \cup S]

\* removeVideoTile()
WithoutTile(c, d) == [tiles EXCEPT ![c] = @ \ {d}]

\* The listeners of RoomState: those who are added, oneself excepted, and removed
ShowMessage(c, m) ==
    tiles' = CASE m.type \in {"room.joined", "participant.joined"} ->
                    WithTiles(c, Learns(m, {}) \ {c})
               [] m.type = "participant.left" /\ m.participant \in roster[c] ->
                    WithoutTile(c, m.participant)
               [] OTHER -> tiles

\* onRemoteTrack: the tracks of d are shown in its tile
ShowTracks(c, d) == tiles' = WithTiles(c, {d})

HandleMessage(c) ==
    /\ Deliver(c)
    /\ Head(inbox[c]) # Error \/ session[c] # "joining"
    /\ ShowMessage(c, Head(inbox[c]))
    /\ LET m == Head(inbox[c]) IN
       CASE m.type = "room.joined" -> StartSession(c, m.participants)
         [] m.type = "webrtc" /\ session[c] = "active" ->
              Enqueue(c, m.participant, m.payload)
         [] m.type = "participant.left" /\ session[c] = "active" ->
              RemovePeer(c, m.participant)
         [] OTHER -> UNCHANGED rtc

\* Faulty: the room is left without signaling.disconnect().
QuitConnected(c) ==
    /\ link[c] = "up"
    /\ roster' = [roster EXCEPT ![c] = {}]
    /\ CloseSession(c)
    /\ UNCHANGED <<server, link, inbox, outbox>>

\* leaveRoom(): by the user, or after a request that timed out.  What was sent
\* before is read before the close frame.
Quit(c) == ClientClose(c) /\ CloseSession(c) /\ UNCHANGED outbox

\* the 'error' that answers room.join: onJoinRoom() calls leaveRoom()
JoinRefused(c) ==
    /\ session[c] = "joining"
    /\ inbox[c] # <<>> /\ Head(inbox[c]) = Error
    /\ Quit(c)

-----------------------------------------------------------------------------
(* The operations on a peer connection. *)

\* The operation at the head of c's queue for d is `op`, and may run.
Running(c, d, op) ==
    /\ session[c] = "active"
    /\ ops[c][d] # <<>>
    /\ Head(ops[c][d]) = op

Done(c, d) == ops' = [ops EXCEPT ![c][d] = Tail(@)]

ContinueWith(c, d, op) == ops' = [ops EXCEPT ![c][d] = <<op>> \o Tail(@)]

\* Faulty: a new peer connection is given the value of another of its states.
CreatedNew(p) == IF p.state = "none" THEN [p EXCEPT !.state = "new"] ELSE p

\* peer(id): creates the peer connection if there is none
Created(p) == IF p.state = "none" THEN [p EXCEPT !.state = "stable"] ELSE p

\* setRemoteDescription(), and the candidates that waited for it
Described(p, state) ==
    [p EXCEPT !.state = state, !.remote = TRUE, !.added = @ + p.held, !.held = 0]

\* addIceCandidate()
WithAdded(p) == [p EXCEPT !.added = @ + 1]

\* candidates.push()
WithHeld(p) == [p EXCEPT !.held = @ + 1]

Start(c, d) ==
    /\ Running(c, d, "start")
    /\ pc' = [pc EXCEPT ![c][d].state = "have-local-offer"]
    /\ ContinueWith(c, d, "sendOffer")
    /\ UNCHANGED <<vars, outbox, session, departed, tiles>>

\* Faulty: the offer is sent twice.
SendOfferAgain(c, d) ==
    /\ Running(c, d, "sendOffer")
    /\ outbox' = IF link[c] # "up" THEN outbox
                 ELSE [outbox EXCEPT ![c] = @ \o <<SignalRequest(d, "offer"),
                                                   SignalRequest(d, "offer")>>]
    /\ Done(c, d)
    /\ UNCHANGED <<vars, session, departed, pc, tiles>>

SendOffer(c, d) ==
    /\ Running(c, d, "sendOffer")
    /\ Send(c, SignalRequest(d, "offer"))
    /\ Done(c, d)
    /\ UNCHANGED <<vars, session, departed, pc, tiles>>

HandleOffer(c, d) ==
    /\ Running(c, d, "offer")
    /\ IF Created(pc[c][d]).state = "stable"
       THEN /\ pc' = [pc EXCEPT ![c][d] = Described(@, "have-remote-offer")]
            /\ ShowTracks(c, d)
            /\ ContinueWith(c, d, "createAnswer")
       ELSE /\ pc' = [pc EXCEPT ![c][d] = Created(@)]
            /\ UNCHANGED tiles
            /\ Done(c, d)
    /\ UNCHANGED <<vars, outbox, session, departed>>

CreateAnswer(c, d) ==
    /\ Running(c, d, "createAnswer")
    /\ pc' = [pc EXCEPT ![c][d].state = "stable"]
    /\ ContinueWith(c, d, "sendAnswer")
    /\ UNCHANGED <<vars, outbox, session, departed, tiles>>

SendAnswer(c, d) ==
    /\ Running(c, d, "sendAnswer")
    /\ Send(c, SignalRequest(d, "answer"))
    /\ Done(c, d)
    /\ UNCHANGED <<vars, session, departed, pc, tiles>>

HandleAnswer(c, d) ==
    /\ Running(c, d, "answer")
    /\ IF pc[c][d].state = "have-local-offer"
       THEN /\ pc' = [pc EXCEPT ![c][d] = Described(@, "stable")]
            /\ ShowTracks(c, d)
       ELSE /\ pc' = [pc EXCEPT ![c][d] = Created(@)]
            /\ UNCHANGED tiles
    /\ Done(c, d)
    /\ UNCHANGED <<vars, outbox, session, departed>>

\* Faulty: a candidate that comes before the description is dropped.
CandidateDropped(c, d) ==
    /\ Running(c, d, "candidate")
    /\ pc' = [pc EXCEPT ![c][d] =
                 IF @.remote THEN WithAdded(@) ELSE Created(@)]
    /\ Done(c, d)
    /\ UNCHANGED <<vars, outbox, session, departed, tiles>>

HandleCandidate(c, d) ==
    /\ Running(c, d, "candidate")
    /\ pc' = [pc EXCEPT ![c][d] =
                 IF @.remote THEN WithAdded(@) ELSE WithHeld(Created(@))]
    /\ Done(c, d)
    /\ UNCHANGED <<vars, outbox, session, departed, tiles>>

RunOperation(c, d) ==
    \/ Start(c, d) \/ SendOffer(c, d)
    \/ HandleOffer(c, d) \/ CreateAnswer(c, d) \/ SendAnswer(c, d)
    \/ HandleAnswer(c, d) \/ HandleCandidate(c, d)

\* There is a local description, so the browser gathers candidates for it.
HasLocal(p) == p.state = "have-local-offer" \/ (p.state = "stable" /\ p.remote)

\* onicecandidate
Gather(c, d) ==
    /\ session[c] = "active"
    /\ HasLocal(pc[c][d])
    /\ pc[c][d].gathered < MaxCandidates
    /\ pc' = [pc EXCEPT ![c][d].gathered = @ + 1]
    /\ Send(c, SignalRequest(d, "candidate"))
    /\ UNCHANGED <<vars, session, departed, ops, tiles>>

-----------------------------------------------------------------------------
(* Connections. *)

Disconnected(c) ==
    /\ ClientSeesClose(c)
    /\ CloseSession(c)
    /\ outbox' = [outbox EXCEPT ![c] = <<>>]

Lost(c) ==
    /\ LinkLost(c)
    /\ outbox' = [outbox EXCEPT ![c] = <<>>]
    /\ UNCHANGED <<session, departed, pc, ops, tiles>>

Closed(c) ==
    /\ outbox[c] = <<>>
    /\ ReceiveClose(c)
    /\ UNCHANGED mesh

ServerCloses(c) ==
    /\ OnClose(c)
    /\ outbox' = [outbox EXCEPT ![c] = <<>>]
    /\ UNCHANGED <<session, departed, pc, ops, tiles>>

Elsewhere ==
    /\ \/ HeartbeatTick \/ Shutdown
       \/ \E c \in Conn : Connect(c) \/ SocketError(c) \/ PongReceived(c)
    /\ UNCHANGED mesh

RestartServer ==
    /\ Restart
    /\ outbox' = [c \in Conn |-> IF sock[c] = "none" THEN outbox[c] ELSE <<>>]
    /\ UNCHANGED <<session, departed, pc, ops, tiles>>

MeshNext ==
    \/ \E c \in Conn :
         \/ \E r \in RoomId : SendJoin(c, r)
         \/ ServerReads(c) \/ SayAndRead(c) \/ HandleMessage(c) \/ JoinRefused(c)
         \/ Quit(c) \/ Disconnected(c) \/ Lost(c) \/ Closed(c) \/ ServerCloses(c)
         \/ \E d \in Conn : RunOperation(c, d) \/ Gather(c, d)
    \/ Elsewhere
    \/ RestartServer

MeshSpec == MeshInit /\ [][MeshNext]_meshVars

(***************************************************************************)
(* Fairness: the timer of the heartbeat keeps firing, Node emits 'close'   *)
(* after a socket started closing, the server reads what was sent, a       *)
(* browser handles what it received, its closing included, and the         *)
(* promises of a peer connection settle.  Nothing is assumed of users, of  *)
(* candidates, of lost links or of the operating system's timeouts.        *)
(***************************************************************************)
MeshFairness ==
    /\ WF_meshVars(HeartbeatTick /\ UNCHANGED mesh)
    /\ \A c \in Conn :
         /\ WF_meshVars(ServerReads(c))
         /\ WF_meshVars(ServerCloses(c))
         /\ WF_meshVars(HandleMessage(c) \/ JoinRefused(c))
         /\ WF_meshVars(link[c] = "up" /\ Disconnected(c))
         /\ \A d \in Conn : WF_meshVars(RunOperation(c, d))

MeshFairSpec == MeshSpec /\ MeshFairness

-----------------------------------------------------------------------------
(* Properties. *)

(***************************************************************************)
(* Nobody applies a description in the wrong signaling state: an offer     *)
(* comes to a peer connection that is stable or not created yet, an answer *)
(* to one that made an offer.  So there is no glare: of two members the    *)
(* later one, and only that one, offers to the other, once.                *)
(***************************************************************************)
DescriptionsFit ==
    \A c, d \in Conn :
        /\ Running(c, d, "offer")  => pc[c][d].state \in {"none", "stable"}
        /\ Running(c, d, "answer") => pc[c][d].state = "have-local-offer"

(***************************************************************************)
(* An open peer connection is one with a participant the room still shows: *)
(* when somebody leaves, no operation queued or under way for them opens   *)
(* their peer connection again.                                            *)
(***************************************************************************)
PeersAreInRoster ==
    \A c, d \in Conn :
        session[c] = "active" /\ pc[c][d].state \notin {"none", "closed"} => d \in roster[c]

(***************************************************************************)
(* The grid has a tile for everyone in the room but oneself and for nobody *)
(* else: tracks that come late, from operations under way when somebody    *)
(* leaves, put up no tile that nothing would take down.                    *)
(***************************************************************************)
TilesMatchRoster == \A c \in Conn : tiles[c] = roster[c] \ {c}

(***************************************************************************)
(* Two members of a room that stay and can be reached end up connected:    *)
(* both descriptions are set on both ends, and each end has been given     *)
(* every candidate the other one gathered, whatever the order in which     *)
(* offers, answers and candidates were sent and handled.                   *)
(***************************************************************************)
Meeting(c, d) ==
    /\ \A x \in {c, d} : session[x] = "active" /\ Reaches(x)
    /\ c # d /\ participant[c] = participant[d]

Linked(c, d) ==
    /\ pc[c][d].state = "stable" /\ pc[c][d].remote
    /\ pc[c][d].added = pc[d][c].gathered

MembersConnect ==
    <>[]\A c, d \in Conn : Meeting(c, d) => Linked(c, d)

(***************************************************************************)
(* A connection whose client is gone, or cannot be reached, does not stay  *)
(* in its room: the heartbeat finds it even if no close frame comes and no *)
(* error is ever reported.  (A connection lives once, so what happens to   *)
(* each of them settles: "from some time on".)                             *)
(***************************************************************************)
LostConnectionIsRemoved ==
    <>[]\A c \in Conn, r \in RoomId : link[c] # "up" => c \notin Members(r)

(***************************************************************************)
(* Nobody keeps a ghost: when a participant's client is gone, every client *)
(* that knows it drops it, unless that client's own link is lost.          *)
(***************************************************************************)
GhostsVanish ==
    <>[]\A c, d \in Conn : d \in roster[c] => link[d] = "up" \/ link[c] = "lost"

(***************************************************************************)
(* Composed with real clients, the server and the network do nothing that  *)
(* Signaling does not allow.                                               *)
(***************************************************************************)
ImplementsSignaling == Spec
=============================================================================
