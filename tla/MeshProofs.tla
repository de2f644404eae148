----------------------------- MODULE MeshProofs -----------------------------
(***************************************************************************)
(* Theorems about the mesh of peer connections, for any number of clients, *)
(* rooms and candidates.                                                   *)
(*                                                                         *)
(* The mesh implements Signaling once its requests are known to be well    *)
(* formed, so what is shown of Signaling holds here: a client hears of     *)
(* nobody it does not know.  That is what keeps queues, peer connections   *)
(* and tiles to the participants of the roster.  The second half follows   *)
(* an offer and its answer from the join that asks for it, and shows that  *)
(* each finds the connection in the state it is for.                       *)
(***************************************************************************)
EXTENDS Mesh, SignalingProofs

Peer == [state : PeerState, remote : BOOLEAN,
         held : Nat, added : Nat, gathered : 0..MaxCandidates]

\* The types of what a client keeps, without those of Signaling
ClientsTyped ==
    /\ outbox \in [Conn -> Seq(RequestMessage)]
    /\ session \in [Conn -> {"none", "joining", "active", "closed"}]
    /\ departed \in [Conn -> SUBSET Conn]
    /\ pc \in [Conn -> [Conn -> Peer]]
    /\ ops \in [Conn -> [Conn -> Seq(Operation)]]
    /\ tiles \in [Conn -> SUBSET Conn]

Open(p) == p.state \notin {"none", "closed"}

\* Nobody is relayed a signal of its own.
HeardAt(c) ==
    \A i \in DOMAIN inbox[c] : inbox[c][i].type = "webrtc" => inbox[c][i].participant # c

\* Who c has work or a peer connection for is a participant it knows.
BusyAt(c) ==
    \A d \in Conn :
        /\ ops[c][d] # <<>> => session[c] = "active" /\ d \in roster[c] /\ d # c
        /\ Open(pc[c][d])   => session[c] = "active" /\ d \in roster[c]

TiledAt(c) == tiles[c] = roster[c] \ {c}

MeshInv ==
    /\ ClientsTyped
    /\ \A c \in Conn : HeardAt(c) /\ BusyAt(c) /\ TiledAt(c)

-----------------------------------------------------------------------------
(* The types of what clients keep. *)

\* What the handlers make of a connection is a connection.
LEMMA PeerTypes ==
    ASSUME NEW p \in Peer, NEW s \in PeerState
    PROVE  /\ NoPeer \in Peer
           /\ Created(p) \in Peer
           /\ Described(p, s) \in Peer
           /\ [p EXCEPT !.state = s] \in Peer
           /\ WithAdded(p) \in Peer /\ WithHeld(p) \in Peer
           /\ p.gathered < MaxCandidates => [p EXCEPT !.gathered = @ + 1] \in Peer
<1> USE MeshAssumption DEF Peer, PeerState
<1>1. NoPeer \in Peer BY DEF NoPeer
<1>2. Created(p) \in Peer BY DEF Created
<1>3. Described(p, s) \in Peer
  <2>1. p.added + p.held \in Nat
    OBVIOUS
  <2>2. QED BY <2>1 DEF Described
<1>4. [p EXCEPT !.state = s] \in Peer OBVIOUS
<1>5. WithAdded(p) \in Peer BY DEF WithAdded
<1>6. WithHeld(p) \in Peer BY DEF WithHeld
<1>7. p.gathered < MaxCandidates => [p EXCEPT !.gathered = @ + 1] \in Peer OBVIOUS
<1>8. QED BY <1>1, <1>2, <1>3, <1>4, <1>5, <1>6, <1>7

\* What is sent is queued as a request.
LEMMA SendTyped ==
    ASSUME ClientsTyped, NEW c \in Conn, NEW m \in RequestMessage, Send(c, m)
    PROVE  outbox' \in [Conn -> Seq(RequestMessage)]
BY DEF ClientsTyped, Send

\* The two requests a client sends.
LEMMA RequestTypes ==
    ASSUME NEW d \in Conn, NEW r \in RoomId, NEW p \in Payload
    PROVE  JoinRequest(r) \in RequestMessage /\ SignalRequest(d, p) \in RequestMessage
BY DEF JoinRequest, SignalRequest, RequestMessage

-----------------------------------------------------------------------------
(***************************************************************************)
(* A step of c's queue for d, or a candidate gathered: it changes the one  *)
(* peer connection, it opens it only in a queue that has something to do   *)
(* or if it was open, and it shows only d.                                 *)
(***************************************************************************)
PeerStep(c, d) ==
    /\ UNCHANGED <<vars, session, departed>>
    /\ session[c] = "active"
    /\ \E p \in Peer :
         /\ pc' = [pc EXCEPT ![c][d] = p]
         /\ Open(p) => ops[c][d] # <<>> \/ Open(pc[c][d])
    /\ \E s \in Seq(Operation) :
         /\ ops' = [ops EXCEPT ![c][d] = s]
         /\ s # <<>> => ops[c][d] # <<>>
    /\ \/ tiles' = tiles
       \/ ops[c][d] # <<>> /\ tiles' = [tiles EXCEPT ![c] = @ \cup {d}]
    /\ outbox' \in [Conn -> Seq(RequestMessage)]

\* Queues of operations stay queues.
LEMMA QueueTypes ==
    ASSUME NEW s \in Seq(Operation), s # <<>>, NEW o \in Operation
    PROVE  Tail(s) \in Seq(Operation) /\ <<o>> \o Tail(s) \in Seq(Operation)
OBVIOUS

\* The head of a queue changes one connection, and sends at most one request.
LEMMA RunSteps ==
    ASSUME ClientsTyped, NEW c \in Conn, NEW d \in Conn, RunOperation(c, d)
    PROVE  PeerStep(c, d)
<1> DEFINE p == pc[c][d]
           s == ops[c][d]
<1>1. p \in Peer /\ s \in Seq(Operation)
  BY DEF ClientsTyped
<1>2. s # <<>> /\ session[c] = "active" /\ UNCHANGED <<vars, session, departed>>
  BY DEF RunOperation, Running, Start, SendOffer, HandleOffer, CreateAnswer, SendAnswer,
         HandleAnswer, HandleCandidate
<1>3. \/ ops' = [ops EXCEPT ![c][d] = Tail(s)]
      \/ \E o \in Operation : ops' = [ops EXCEPT ![c][d] = <<o>> \o Tail(s)]
  BY DEF RunOperation, Start, SendOffer, HandleOffer, CreateAnswer, SendAnswer,
         HandleAnswer, HandleCandidate, Done, ContinueWith, Operation
<1>4. \E t \in Seq(Operation) : ops' = [ops EXCEPT ![c][d] = t]
  <2> HIDE DEF s
  <2>1. Tail(s) \in Seq(Operation) /\ \A o \in Operation : <<o>> \o Tail(s) \in Seq(Operation)
    BY <1>1, <1>2, QueueTypes DEF Operation
  <2>2. CASE ops' = [ops EXCEPT ![c][d] = Tail(s)]
    BY <2>1, <2>2
  <2>3. ASSUME NEW o \in Operation, ops' = [ops EXCEPT ![c][d] = <<o>> \o Tail(s)]
        PROVE  \E t \in Seq(Operation) : ops' = [ops EXCEPT ![c][d] = t]
    <3>1. PICK t \in Seq(Operation) : t = <<o>> \o Tail(s)
      BY <2>1
    <3>2. QED BY <2>3, <3>1
  <2>4. QED BY <1>3, <2>2, <2>3
<1>5. tiles' = tiles \/ tiles' = [tiles EXCEPT ![c] = @ \cup {d}]
  BY DEF RunOperation, Start, SendOffer, HandleOffer, CreateAnswer, SendAnswer,
         HandleAnswer, HandleCandidate, ShowTracks, WithTiles
<1>6. outbox' \in [Conn -> Seq(RequestMessage)]
  <2>1. CASE outbox' = outbox
    BY <2>1 DEF ClientsTyped
  <2>2. ASSUME NEW m \in RequestMessage, Send(c, m)
        PROVE  outbox' \in [Conn -> Seq(RequestMessage)]
    BY <2>2, SendTyped
  <2>3. \A q \in {"offer", "answer"} : SignalRequest(d, q) \in RequestMessage
    BY MeshAssumption DEF SignalRequest, RequestMessage
  <2>4. QED
    BY <2>1, <2>2, <2>3 DEF RunOperation, Start, SendOffer, HandleOffer, CreateAnswer,
       SendAnswer, HandleAnswer, HandleCandidate
<1>7. \E q \in Peer : pc' = [pc EXCEPT ![c][d] = q]
  <2>1. CASE Start(c, d)
    <3>1. pc' = [pc EXCEPT ![c][d] = [p EXCEPT !.state = "have-local-offer"]]
      BY <2>1 DEF Start, ClientsTyped
    <3>2. QED BY <1>1, <3>1, PeerTypes DEF PeerState
  <2>2. CASE SendOffer(c, d) \/ SendAnswer(c, d)
    <3>1. pc' = [pc EXCEPT ![c][d] = p]
      BY <2>2 DEF SendOffer, SendAnswer, ClientsTyped
    <3>2. QED BY <1>1, <3>1
  <2>3. CASE HandleOffer(c, d)
    <3>1. \/ pc' = [pc EXCEPT ![c][d] = Described(p, "have-remote-offer")]
          \/ pc' = [pc EXCEPT ![c][d] = Created(p)]
      BY <2>3 DEF HandleOffer
    <3>2. QED BY <1>1, <3>1, PeerTypes DEF PeerState
  <2>4. CASE CreateAnswer(c, d)
    <3>1. pc' = [pc EXCEPT ![c][d] = [p EXCEPT !.state = "stable"]]
      BY <2>4 DEF CreateAnswer, ClientsTyped
    <3>2. QED BY <1>1, <3>1, PeerTypes DEF PeerState
  <2>5. CASE HandleAnswer(c, d)
    <3>1. \/ pc' = [pc EXCEPT ![c][d] = Described(p, "stable")]
          \/ pc' = [pc EXCEPT ![c][d] = Created(p)]
      BY <2>5 DEF HandleAnswer
    <3>2. QED BY <1>1, <3>1, PeerTypes DEF PeerState
  <2>6. CASE HandleCandidate(c, d)
    <3>1. \/ pc' = [pc EXCEPT ![c][d] = WithAdded(p)]
          \/ pc' = [pc EXCEPT ![c][d] = WithHeld(Created(p))]
      BY <2>6 DEF HandleCandidate
    <3>2. Created(p) \in Peer
      BY <1>1, PeerTypes DEF PeerState
    <3>3. WithAdded(p) \in Peer /\ WithHeld(Created(p)) \in Peer
      BY <1>1, <3>2, PeerTypes DEF PeerState
    <3>4. QED BY <3>1, <3>3
  <2>7. QED BY <2>1, <2>2, <2>3, <2>4, <2>5, <2>6 DEF RunOperation
<1>8. QED BY <1>2, <1>4, <1>5, <1>6, <1>7 DEF PeerStep

\* So does a candidate that is gathered.
LEMMA GatherSteps ==
    ASSUME ClientsTyped, NEW c \in Conn, NEW d \in Conn, Gather(c, d)
    PROVE  PeerStep(c, d)
<1> DEFINE p == [pc[c][d] EXCEPT !.gathered = @ + 1]
<1>1. pc[c][d] \in Peer /\ pc[c][d].gathered < MaxCandidates /\ "stable" \in PeerState
  BY DEF Gather, ClientsTyped, PeerState
<1>2. p \in Peer /\ Open(pc[c][d])
  <2>1. p \in Peer
    BY <1>1, PeerTypes
  <2>2. QED BY <2>1 DEF Gather, HasLocal, Open
<1>3. pc' = [pc EXCEPT ![c][d] = p]
  BY DEF Gather, ClientsTyped
<1>4. ops' = [ops EXCEPT ![c][d] = ops[c][d]] /\ ops[c][d] \in Seq(Operation)
  BY DEF Gather, ClientsTyped
<1>5. outbox' \in [Conn -> Seq(RequestMessage)]
  <2>1. SignalRequest(d, "candidate") \in RequestMessage
    BY MeshAssumption DEF SignalRequest, RequestMessage
  <2>2. QED BY <2>1, SendTyped DEF Gather
<1>6. UNCHANGED <<vars, session, departed, tiles>> /\ session[c] = "active"
  BY DEF Gather
<1>7. QED BY <1>2, <1>3, <1>4, <1>5, <1>6 DEF PeerStep

\* Such a step keeps the invariant.
LEMMA PeerStepKeeps ==
    ASSUME MeshInv, NEW c \in Conn, NEW d \in Conn, PeerStep(c, d)
    PROVE  MeshInv'
<1>1. PICK p \in Peer : /\ pc' = [pc EXCEPT ![c][d] = p]
                        /\ Open(p) => ops[c][d] # <<>> \/ Open(pc[c][d])
  BY DEF PeerStep
<1>2. PICK s \in Seq(Operation) : /\ ops' = [ops EXCEPT ![c][d] = s]
                                  /\ s # <<>> => ops[c][d] # <<>>
  BY DEF PeerStep
<1>3. ClientsTyped /\ UNCHANGED <<inbox, roster, session, departed>>
  BY DEF MeshInv, PeerStep, vars, client
<1>4. ops[c][d] # <<>> => d \in roster[c] \ {c}
  BY DEF MeshInv, BusyAt
<1>5. tiles' = tiles
  <2>1. ops[c][d] # <<>> => tiles[c] \cup {d} = tiles[c]
    BY <1>4 DEF MeshInv, TiledAt
  <2>2. tiles \in [Conn -> SUBSET Conn]
    BY <1>3 DEF ClientsTyped
  <2>3. QED BY <2>1, <2>2 DEF PeerStep
<1>6. ClientsTyped'
  BY <1>1, <1>2, <1>3, <1>5 DEF ClientsTyped, PeerStep
<1>7. ASSUME NEW e \in Conn PROVE HeardAt(e)' /\ TiledAt(e)'
  BY <1>3, <1>5 DEF MeshInv, HeardAt, TiledAt
<1>8. ASSUME NEW e \in Conn PROVE BusyAt(e)'
  <2>1. BusyAt(e) /\ BusyAt(c)
    BY DEF MeshInv
  <2> SUFFICES ASSUME NEW x \in Conn
               PROVE  /\ ops'[e][x] # <<>> => session[e] = "active" /\ x \in roster[e] /\ x # e
                      /\ Open(pc'[e][x]) => session[e] = "active" /\ x \in roster[e]
    BY <1>3 DEF BusyAt, Open
  <2>2. CASE e = c /\ x = d
    <3>1. ops'[e][x] = s /\ pc'[e][x] = p
      BY <1>1, <1>2, <1>3, <2>2 DEF ClientsTyped
    <3>2. QED BY <1>1, <1>2, <2>1, <2>2, <3>1 DEF BusyAt
  <2>3. CASE ~(e = c /\ x = d)
    <3>1. ops'[e][x] = ops[e][x] /\ pc'[e][x] = pc[e][x]
      BY <1>1, <1>2, <1>3, <2>3 DEF ClientsTyped
    <3>2. QED BY <2>1, <3>1 DEF BusyAt
  <2>4. QED BY <2>2, <2>3
<1>9. QED BY <1>6, <1>7, <1>8 DEF MeshInv

-----------------------------------------------------------------------------
(* The mesh does nothing that Signaling does not allow. *)

\* What the server reads is a request.
LEMMA HeadRequest ==
    ASSUME ClientsTyped, NEW c \in Conn, outbox[c] # <<>>
    PROVE  /\ Head(outbox[c]) \in RequestMessage
           /\ Tail(outbox[c]) \in Seq(RequestMessage)
<1>1. outbox[c] \in Seq(RequestMessage)
  BY DEF ClientsTyped
<1>2. QED BY <1>1

\* The server answers a request of the mesh as one of its own clients'.
LEMMA HandleImplements ==
    ASSUME NEW c \in Conn, NEW m \in RequestMessage, Handle(c, m)
    PROVE  Request(c)
<1>1. m.type = "room.join" => m.roomId \in RoomId
  BY DEF RequestMessage
<1>2. m.type = "webrtc" => m.targetId \in Conn /\ m.payload \in Payload
  BY DEF RequestMessage
<1>3. (\E r \in RoomId : JoinFull(c, r)) \/ RelayNoTarget(c) \/ RateLimited(c) => Request(c)
  BY MeshAssumption DEF Request, Refused
<1>4. QED BY <1>1, <1>2, <1>3 DEF Handle, Request

\* A step of the mesh is one of the server, or leaves it alone.
LEMMA StepImplements ==
    ASSUME ClientsTyped, [MeshNext]_meshVars
    PROVE  [Next]_vars
<1>1. ASSUME NEW c \in Conn, NEW d \in Conn, RunOperation(c, d) \/ Gather(c, d)
      PROVE  UNCHANGED vars
  BY <1>1, RunSteps, GatherSteps DEF PeerStep
<1>2. ASSUME NEW c \in Conn, ServerReads(c) PROVE Request(c)
  BY <1>2, HeadRequest, HandleImplements DEF ServerReads
<1>3. ASSUME NEW c \in Conn, NEW r \in RoomId, SendJoin(c, r) PROVE UNCHANGED vars
  BY <1>3 DEF SendJoin
<1>4. ASSUME NEW c \in Conn, SayAndRead(c) PROVE Request(c)
  BY <1>4 DEF SayAndRead, Request
<1>5. ASSUME NEW c \in Conn, HandleMessage(c) \/ JoinRefused(c) \/ Quit(c) \/ Disconnected(c)
      PROVE  Client(c)
  BY <1>5 DEF HandleMessage, JoinRefused, Quit, Disconnected, Client
<1>6. ASSUME NEW c \in Conn, Lost(c) \/ Closed(c) PROVE Network(c)
  BY <1>6 DEF Lost, Closed, Network
<1>7. ASSUME NEW c \in Conn, ServerCloses(c) PROVE OnClose(c)
  BY <1>7 DEF ServerCloses
<1>8. CASE Elsewhere \/ RestartServer
  BY <1>8 DEF Elsewhere, RestartServer, Next, Network, Client
<1>9. CASE UNCHANGED meshVars
  BY <1>9 DEF meshVars
<1>10. QED
  BY <1>1, <1>2, <1>3, <1>4, <1>5, <1>6, <1>7, <1>8, <1>9 DEF MeshNext, Next

-----------------------------------------------------------------------------
(* Nobody is relayed a signal of its own. *)

\* A client that hears no signal of its own hears none after another's.
LEMMA HeardAppend ==
    ASSUME NEW s \in Seq(Message), NEW m \in Message, NEW c,
           \A i \in DOMAIN s : s[i].type = "webrtc" => s[i].participant # c,
           m.type = "webrtc" => m.participant # c
    PROVE  \A i \in DOMAIN Append(s, m) :
              Append(s, m)[i].type = "webrtc" => Append(s, m)[i].participant # c
<1>1. /\ Len(s) \in Nat /\ DOMAIN s = 1..Len(s)
      /\ DOMAIN Append(s, m) = 1..(Len(s) + 1)
      /\ \A i \in 1..Len(s) : Append(s, m)[i] = s[i]
      /\ Append(s, m)[Len(s) + 1] = m
  BY AppendIndex
<1>2. \A i \in 1..(Len(s) + 1) : i \in 1..Len(s) \/ i = Len(s) + 1
  BY <1>1
<1>3. QED BY <1>1, <1>2

\* No step of the server sends a client its own signal.
LEMMA HeardNext ==
    ASSUME RoomsInv, StepKind, NEW e \in Conn, HeardAt(e)
    PROVE  HeardAt(e)'
<1>1. inbox \in [Conn -> Seq(Message)] /\ inbox[e] \in Seq(Message)
  BY DEF RoomsInv, TypeOK
<1>2. CASE inbox'[e] = inbox[e]
  BY <1>2 DEF HeardAt
<1>3. ASSUME NEW m \in Message, m.type = "webrtc" => m.participant # e,
             inbox'[e] = Append(inbox[e], m)
      PROVE  HeardAt(e)'
  BY <1>1, <1>3, HeardAppend DEF HeardAt
<1>4. ASSUME NEW c \in Conn, NEW r \in RoomId, Join(c, r) PROVE HeardAt(e)'
  <2>1. Members(r) \cup {c} \in SUBSET Conn
    BY DEF RoomsInv, TypeOK, Members
  <2>2. \/ inbox'[e] = inbox[e]
        \/ inbox'[e] = Append(inbox[e], RoomJoined(Members(r) \cup {c}))
        \/ inbox'[e] = Append(inbox[e], Introduction(c))
    BY <1>4 DEF Join, EnterRoom
  <2>3. /\ RoomJoined(Members(r) \cup {c}) \in Message /\ Introduction(c) \in Message
        /\ RoomJoined(Members(r) \cup {c}).type # "webrtc" /\ Introduction(c).type # "webrtc"
    BY <2>1, MessageTypes DEF RoomJoined, Introduction
  <2>4. QED BY <1>2, <1>3, <2>2, <2>3
<1>5. ASSUME NEW c \in Conn, OnCloseJoined(c) PROVE HeardAt(e)'
  <2>1. inbox'[e] = inbox[e] \/ inbox'[e] = Append(inbox[e], Departure(c))
    BY <1>5 DEF OnCloseJoined, Broadcast
  <2>2. Departure(c) \in Message /\ Departure(c).type # "webrtc"
    BY MessageTypes DEF Departure
  <2>3. QED BY <1>2, <1>3, <2>1, <2>2
<1>6. CASE Tell
  <2>1. CASE \E m : Tellable(e, m) /\ inbox'[e] = Append(inbox[e], m)
    BY <1>3, <2>1 DEF Tellable
  <2>2. QED BY <1>2, <1>6, <2>1 DEF Tell
<1>7. ASSUME NEW c \in Conn, Deliver(c) PROVE HeardAt(e)'
  <2>1. CASE c # e
    BY <1>1, <1>2, <1>7, <2>1 DEF Deliver
  <2>2. CASE c = e
    <3> DEFINE s == inbox[e]
    <3>1. s # <<>> /\ inbox'[e] = Tail(s)
      BY <1>1, <1>7, <2>2 DEF Deliver
    <3>2. /\ Len(s) \in Nat \ {0} /\ DOMAIN s = 1..Len(s) /\ DOMAIN Tail(s) = 1..(Len(s) - 1)
          /\ \A i \in 1..(Len(s) - 1) : Tail(s)[i] = s[i + 1]
      BY <1>1, <3>1, TailIndex
    <3>3. \A i \in 1..(Len(s) - 1) : i + 1 \in 1..Len(s)
      BY <3>2
    <3>4. QED BY <3>1, <3>2, <3>3 DEF HeardAt
  <2>3. QED BY <2>1, <2>2
<1>8. ASSUME NEW c \in Conn, Forget(c) PROVE HeardAt(e)'
  <2>1. inbox'[e] = inbox[e] \/ inbox'[e] = <<>>
    BY <1>8 DEF Forget
  <2>2. CASE inbox'[e] = <<>>
    BY <2>2 DEF HeardAt
  <2>3. QED BY <1>2, <2>1, <2>2
<1>9. CASE Restart \/ Fade
  BY <1>2, <1>9 DEF Restart, Fade, client
<1>10. QED BY <1>4, <1>5, <1>6, <1>7, <1>8, <1>9 DEF StepKind

-----------------------------------------------------------------------------
(* The other steps of the mesh. *)

\* A step of the server or the network: clients keep what they know and do
AwayStep ==
    /\ UNCHANGED <<roster, session, departed, pc, ops, tiles>>
    /\ outbox' \in [Conn -> Seq(RequestMessage)]

\* The steps that leave the connections of every client alone.
LEMMA AwaySteps ==
    ASSUME ClientsTyped, NEW c \in Conn,
           ServerReads(c) \/ SayAndRead(c) \/ Lost(c) \/ Closed(c) \/ ServerCloses(c)
              \/ Elsewhere \/ RestartServer
    PROVE  AwayStep
<1>1. CASE ServerReads(c)
  <2>1. Request(c)
    BY <1>1, HeadRequest, HandleImplements DEF ServerReads
  <2>2. roster' = roster
    BY <2>1 DEF Request, Ping, CreateRoom, Refused, RateLimited, Malformed, JoinAgain,
       JoinInvalid, JoinFull, NotJoined, RelayNoTarget, InvalidPayload, Reply, Chat, Join,
       EnterRoom, Relay
  <2>3. outbox' \in [Conn -> Seq(RequestMessage)]
    BY <1>1, HeadRequest DEF ServerReads, ClientsTyped
  <2>4. QED BY <1>1, <2>2, <2>3 DEF ServerReads, AwayStep
<1>2. CASE SayAndRead(c)
  BY <1>2 DEF SayAndRead, Chat, mesh, rtc, AwayStep, ClientsTyped
<1>3. CASE Lost(c) \/ Closed(c)
  <2>1. CASE Lost(c)
    <3>1. [outbox EXCEPT ![c] = <<>>] \in [Conn -> Seq(RequestMessage)]
      BY DEF ClientsTyped
    <3>2. QED BY <2>1, <3>1 DEF Lost, LinkLost, AwayStep
  <2>2. CASE Closed(c)
    BY <2>2 DEF Closed, ReceiveClose, client, mesh, rtc, AwayStep, ClientsTyped
  <2>3. QED BY <1>3, <2>1, <2>2
<1>4. CASE ServerCloses(c)
  BY <1>4 DEF ServerCloses, OnClose, OnCloseUnjoined, OnCloseJoined, client, AwayStep, ClientsTyped
<1>5. CASE Elsewhere
  BY <1>5 DEF Elsewhere, HeartbeatTick, Shutdown, Connect, SocketError, PongReceived, client,
     mesh, rtc, AwayStep, ClientsTyped
<1>6. CASE RestartServer
  BY <1>6 DEF RestartServer, Restart, client, AwayStep, ClientsTyped
<1>7. QED BY <1>1, <1>2, <1>3, <1>4, <1>5, <1>6

\* They keep the invariant.
LEMMA AwayKeeps ==
    ASSUME MeshInv, AwayStep
    PROVE  ClientsTyped' /\ \A e \in Conn : BusyAt(e)' /\ TiledAt(e)'
BY DEF MeshInv, AwayStep, ClientsTyped, BusyAt, TiledAt

\* A client asks to join.
LEMMA SendJoinKeeps ==
    ASSUME MeshInv, NEW c \in Conn, NEW r \in RoomId, SendJoin(c, r)
    PROVE  ClientsTyped' /\ \A e \in Conn : BusyAt(e)' /\ TiledAt(e)'
<1>1. ClientsTyped /\ session[c] = "none" /\ session' = [session EXCEPT ![c] = "joining"]
      /\ UNCHANGED <<roster, departed, pc, ops, tiles>>
  BY DEF MeshInv, SendJoin, vars, client
<1>2. outbox' \in [Conn -> Seq(RequestMessage)]
  <2>1. JoinRequest(r) \in RequestMessage
    BY DEF JoinRequest, RequestMessage
  <2>2. QED BY <1>1, <2>1, SendTyped DEF SendJoin
<1>3. ClientsTyped'
  BY <1>1, <1>2 DEF ClientsTyped
<1>4. ASSUME NEW e \in Conn PROVE BusyAt(e)' /\ TiledAt(e)'
  <2>1. session[e] = "active" => session'[e] = "active"
    BY <1>1 DEF ClientsTyped
  <2>2. BusyAt(e) /\ TiledAt(e)
    BY DEF MeshInv
  <2>3. QED BY <1>1, <2>1, <2>2 DEF BusyAt, TiledAt
<1>5. QED BY <1>3, <1>4

\* A session that closes drops its connections with its roster.
LEMMA LeaveKeeps ==
    ASSUME MeshInv, NEW c \in Conn, CloseSession(c), roster' = [roster EXCEPT ![c] = {}],
           roster \in [Conn -> SUBSET Conn], outbox' \in [Conn -> Seq(RequestMessage)]
    PROVE  ClientsTyped' /\ \A e \in Conn : BusyAt(e)' /\ TiledAt(e)'
<1> DEFINE shut(d) == IF pc[c][d].state = "none" THEN pc[c][d]
                                                 ELSE [pc[c][d] EXCEPT !.state = "closed"]
<1>1. ClientsTyped
  BY DEF MeshInv
<1>2. \A d \in Conn : shut(d) \in Peer /\ ~Open(shut(d))
  <2> TAKE d \in Conn
  <2>1. pc[c][d] \in Peer /\ "closed" \in PeerState
    BY <1>1 DEF ClientsTyped, PeerState
  <2>2. [pc[c][d] EXCEPT !.state = "closed"] \in Peer
    BY <2>1, PeerTypes
  <2>3. [pc[c][d] EXCEPT !.state = "closed"].state = "closed"
    BY <2>1 DEF Peer
  <2>4. QED BY <2>1, <2>2, <2>3 DEF Open
<1>3. pc' = [pc EXCEPT ![c] = [d \in Conn |-> shut(d)]]
  BY DEF CloseSession
<1>4. /\ session' = [session EXCEPT ![c] = "closed"]
      /\ ops' = [ops EXCEPT ![c] = [d \in Conn |-> <<>>]]
      /\ tiles' = [tiles EXCEPT ![c] = {}] /\ departed' = departed
  BY DEF CloseSession
<1> HIDE DEF shut
<1>5. ClientsTyped'
  BY <1>1, <1>2, <1>3, <1>4 DEF ClientsTyped
<1>6. ASSUME NEW e \in Conn PROVE BusyAt(e)' /\ TiledAt(e)'
  <2>1. CASE e = c
    <3>1. \A d \in Conn : ops'[e][d] = <<>> /\ pc'[e][d] = shut(d)
      BY <1>1, <1>3, <1>4, <2>1 DEF ClientsTyped
    <3>2. tiles'[e] = {} /\ roster'[e] = {}
      BY <1>1, <1>4, <2>1 DEF ClientsTyped
    <3>3. QED BY <1>2, <3>1, <3>2 DEF BusyAt, TiledAt, Open
  <2>2. CASE e # c
    <3>1. /\ ops'[e] = ops[e] /\ pc'[e] = pc[e] /\ session'[e] = session[e]
          /\ tiles'[e] = tiles[e] /\ roster'[e] = roster[e]
      BY <1>1, <1>3, <1>4, <2>2 DEF ClientsTyped
    <3>2. BusyAt(e) /\ TiledAt(e)
      BY DEF MeshInv
    <3>3. QED BY <3>1, <3>2 DEF BusyAt, TiledAt, Open
  <2>3. QED BY <2>1, <2>2
<1>7. QED BY <1>5, <1>6

-----------------------------------------------------------------------------
(* A message is handled. *)

\* The message a client reads next is about a peer it knows, and not itself.
LEMMA SpokenNow ==
    ASSUME RosterInv, NEW c \in Conn, HeardAt(c), inbox[c] # <<>>
    PROVE  LET m == Head(inbox[c]) IN
           /\ m \in Message
           /\ m.type \in {"webrtc", "participant.left"} => m.participant \in roster[c]
           /\ m.type = "webrtc" => m.participant # c
<1>1. inbox[c] \in Seq(Message)
  BY DEF RosterInv, RoomsInv, TypeOK
<1>2. 1 \in DOMAIN inbox[c] /\ Head(inbox[c]) = inbox[c][1] /\ inbox[c][1] \in Message
  BY <1>1, TailIndex
<1>3. SpokenAt(c)
  BY DEF RosterInv, ToldAt
<1>4. Spoken(inbox[c][1]) => inbox[c][1].participant \in roster[c]
  BY <1>2, <1>3 DEF SpokenAt, KnownAt
<1>5. QED BY <1>2, <1>4 DEF Spoken, HeardAt

\* The other clients keep what they have.
OthersSame(c) ==
    \A e \in Conn \ {c} :
        /\ ops'[e] = ops[e] /\ pc'[e] = pc[e] /\ session'[e] = session[e]
        /\ tiles'[e] = tiles[e] /\ roster'[e] = roster[e]

\* What a client does is not felt by the others.
LEMMA OthersKeep ==
    ASSUME MeshInv, NEW c \in Conn, OthersSame(c), NEW e \in Conn, e # c
    PROVE  BusyAt(e)' /\ TiledAt(e)'
<1>1. BusyAt(e) /\ TiledAt(e)
  BY DEF MeshInv
<1>2. QED BY <1>1 DEF OthersSame, BusyAt, TiledAt

\* A client handles a message.
LEMMA MessageSteps ==
    ASSUME RosterInv, MeshInv, NEW c \in Conn, HandleMessage(c)
    PROVE  ClientsTyped' /\ \A e \in Conn : BusyAt(e)' /\ TiledAt(e)'
<1>1. PICK m : m = Head(inbox[c])
  OBVIOUS
<1>2. /\ ClientsTyped /\ BusyAt(c) /\ TiledAt(c) /\ roster \in [Conn -> SUBSET Conn]
      /\ roster' = [roster EXCEPT ![c] = Learns(m, roster[c])]
  BY <1>1 DEF MeshInv, RosterInv, RoomsInv, TypeOK, HandleMessage, Deliver
<1>3. /\ m \in Message
      /\ m.type \in {"webrtc", "participant.left"} => m.participant \in roster[c]
      /\ m.type = "webrtc" => m.participant # c
  BY <1>1, SpokenNow DEF MeshInv, HandleMessage, Deliver
<1>4. /\ m.type = "room.joined" => m.participants \subseteq Conn
      /\ m.type \in {"participant.joined", "participant.left", "webrtc"} => m.participant \in Conn
      /\ m.type = "webrtc" => m.payload \in Payload
  BY <1>3 DEF Message, Pong, RoomCreated, Error
<1>5. /\ m.type \in {"room.joined", "participant.joined"} =>
             tiles' = WithTiles(c, Learns(m, {}) \ {c})
      /\ m.type = "participant.left" => tiles' = WithoutTile(c, m.participant)
      /\ m.type \notin {"room.joined", "participant.joined", "participant.left"} => tiles' = tiles
  BY <1>1, <1>3 DEF HandleMessage, ShowMessage
<1>6. /\ m.type = "room.joined" => StartSession(c, m.participants)
      /\ m.type = "webrtc" /\ session[c] = "active" => Enqueue(c, m.participant, m.payload)
      /\ m.type = "participant.left" /\ session[c] = "active" => RemovePeer(c, m.participant)
      /\ \/ m.type \notin {"room.joined", "webrtc", "participant.left"}
         \/ m.type # "room.joined" /\ session[c] # "active"
         => UNCHANGED rtc
  BY <1>1 DEF HandleMessage
<1>7. CASE m.type = "room.joined"
  <2> DEFINE S == m.participants
  <2>1. /\ S \subseteq Conn
        /\ roster'[c] = roster[c] \cup S /\ tiles'[c] = tiles[c] \cup (S \ {c})
        /\ tiles' \in [Conn -> SUBSET Conn]
        /\ \A e \in Conn \ {c} : tiles'[e] = tiles[e] /\ roster'[e] = roster[e]
    <3>1. S \subseteq Conn
      BY <1>4, <1>7
    <3>2. /\ roster' = [roster EXCEPT ![c] = roster[c] \cup S]
          /\ tiles' = [tiles EXCEPT ![c] = @ \cup (S \ {c})]
      <4>1. \A X : Learns(m, X) = X \cup S
        BY <1>7 DEF Learns
      <4>2. {} \cup S = S
        OBVIOUS
      <4>3. QED BY <1>2, <1>5, <1>7, <4>1, <4>2 DEF WithTiles
    <3>3. tiles \in [Conn -> SUBSET Conn]
      BY <1>2 DEF ClientsTyped
    <3>4. QED BY <1>2, <3>1, <3>2, <3>3
  <2>2. /\ session' = [session EXCEPT ![c] = "active"]
        /\ ops' = [ops EXCEPT ![c] = [d \in Conn |-> IF d \in S \ {c} THEN <<"start">> ELSE <<>>]]
        /\ UNCHANGED <<outbox, departed, pc>>
    BY <1>6, <1>7 DEF StartSession
  <2>3. [d \in Conn |-> IF d \in S \ {c} THEN <<"start">> ELSE <<>>] \in [Conn -> Seq(Operation)]
    <3>1. <<"start">> \in Seq(Operation) /\ <<>> \in Seq(Operation)
      BY DEF Operation
    <3>2. QED BY <3>1
  <2>4. ClientsTyped' /\ OthersSame(c)
    BY <1>2, <2>1, <2>2, <2>3 DEF ClientsTyped, OthersSame
  <2>5. BusyAt(c)' /\ TiledAt(c)'
    <3>1. session'[c] = "active" /\ \A d \in Conn :
            ops'[c][d] = IF d \in S \ {c} THEN <<"start">> ELSE <<>>
      BY <1>2, <2>2 DEF ClientsTyped
    <3>2. QED BY <1>2, <2>1, <2>2, <3>1 DEF BusyAt, TiledAt, Open
  <2>6. QED BY <2>4, <2>5, OthersKeep
<1>8. CASE m.type = "webrtc" /\ session[c] = "active"
  <2> DEFINE d == m.participant
  <2>1. /\ d \in Conn /\ d \in roster[c] /\ d # c /\ m.payload \in Operation
        /\ tiles' = tiles /\ UNCHANGED <<outbox, session, departed, pc>>
        /\ ops' = ops \/ ops' = [ops EXCEPT ![c][d] = Append(@, m.payload)]
    BY <1>3, <1>4, <1>5, <1>6, <1>8, MeshAssumption DEF Enqueue, Operation
  <2>2. roster' = roster
    BY <1>2, <1>8 DEF Learns
  <2>3. ops' \in [Conn -> [Conn -> Seq(Operation)]]
    <3>1. ops \in [Conn -> [Conn -> Seq(Operation)]] /\ ops[c][d] \in Seq(Operation)
      BY <1>2, <2>1 DEF ClientsTyped
    <3>2. Append(ops[c][d], m.payload) \in Seq(Operation)
      BY <2>1, <3>1
    <3>3. PICK q \in Seq(Operation) : q = Append(ops[c][d], m.payload)
      BY <3>2
    <3>4. ops' = ops \/ ops' = [ops EXCEPT ![c][d] = q]
      BY <2>1, <3>3
    <3>5. PICK x \in Conn : x = d
      BY <2>1
    <3>6. [ops EXCEPT ![c][x] = q] \in [Conn -> [Conn -> Seq(Operation)]]
      BY <3>1
    <3>7. QED BY <3>1, <3>4, <3>5, <3>6
  <2>4. /\ \A e \in Conn \ {c} : ops'[e] = ops[e]
        /\ \A x \in Conn \ {d} : ops'[c][x] = ops[c][x]
    BY <1>2, <2>1 DEF ClientsTyped
  <2>5. ClientsTyped' /\ OthersSame(c)
    BY <1>2, <2>1, <2>2, <2>3, <2>4 DEF ClientsTyped, OthersSame
  <2>6. BusyAt(c)' /\ TiledAt(c)'
    BY <1>2, <1>8, <2>1, <2>2, <2>4 DEF BusyAt, TiledAt, Open
  <2>7. QED BY <2>5, <2>6, OthersKeep
<1>9. CASE m.type = "participant.left"
  <2>1. PICK d \in Conn : d = m.participant
    BY <1>4, <1>9
  <2>2. /\ roster' = [roster EXCEPT ![c] = @ \ {d}]
        /\ tiles' = [tiles EXCEPT ![c] = @ \ {d}]
    BY <1>2, <1>5, <1>9, <2>1 DEF Learns, WithoutTile
  <2>3. TiledAt(c)' /\ tiles' \in [Conn -> SUBSET Conn]
    BY <1>2, <2>2 DEF TiledAt, ClientsTyped
  <2>4. CASE session[c] # "active"
    <3>1. UNCHANGED <<outbox, session, departed, pc, ops>>
      BY <1>6, <1>9, <2>4 DEF rtc
    <3>2. ClientsTyped' /\ OthersSame(c)
      BY <1>2, <2>2, <2>3, <3>1 DEF ClientsTyped, OthersSame
    <3>3. BusyAt(c)'
      BY <1>2, <2>4, <3>1 DEF BusyAt, Open
    <3>4. QED BY <2>3, <3>2, <3>3, OthersKeep
  <2>5. CASE session[c] = "active"
    <3> DEFINE s == IF pc[c][d].state = "none" THEN "none" ELSE "closed"
               p == [pc[c][d] EXCEPT !.state = s]
    <3>1. /\ departed' = [departed EXCEPT ![c] = @ \cup {d}]
          /\ pc' = [pc EXCEPT ![c][d] = p]
          /\ ops' = [ops EXCEPT ![c][d] = <<>>]
          /\ UNCHANGED <<outbox, session>>
      BY <1>2, <1>6, <1>9, <2>1, <2>5 DEF RemovePeer, ClientsTyped
    <3>2. p \in Peer /\ ~Open(p)
      <4>1. pc[c][d] \in Peer /\ s \in PeerState /\ s \in {"none", "closed"}
        BY <1>2 DEF ClientsTyped, PeerState
      <4>2. p \in Peer
        BY <4>1, PeerTypes
      <4>3. p.state = s
        BY <4>1 DEF Peer
      <4>4. QED BY <4>1, <4>2, <4>3 DEF Open
    <3> HIDE DEF p
    <3>3. ClientsTyped'
      BY <1>2, <2>3, <3>1, <3>2 DEF ClientsTyped
    <3>4. OthersSame(c)
      BY <1>2, <2>2, <3>1 DEF ClientsTyped, OthersSame
    <3>5. BusyAt(c)'
      <4>1. /\ ops'[c][d] = <<>> /\ pc'[c][d] = p
            /\ \A x \in Conn \ {d} : ops'[c][x] = ops[c][x] /\ pc'[c][x] = pc[c][x]
        BY <1>2, <3>1 DEF ClientsTyped
      <4>2. \A x \in Conn \ {d} : x \in roster[c] => x \in roster'[c]
        BY <1>2, <2>2
      <4>3. QED BY <1>2, <2>5, <3>1, <3>2, <4>1, <4>2 DEF BusyAt, Open
    <3>6. QED BY <2>3, <3>3, <3>4, <3>5, OthersKeep
  <2>6. QED BY <2>4, <2>5
<1>10. CASE \/ m.type \notin {"room.joined", "webrtc", "participant.left"}
            \/ m.type = "webrtc" /\ session[c] # "active"
  <2>1. UNCHANGED <<outbox, session, departed, pc, ops>>
    BY <1>6, <1>10 DEF rtc
  <2>2. /\ roster[c] \subseteq roster'[c] /\ tiles' \in [Conn -> SUBSET Conn]
        /\ \A e \in Conn \ {c} : tiles'[e] = tiles[e] /\ roster'[e] = roster[e]
        /\ TiledAt(c)'
    <3>1. CASE m.type = "participant.joined"
      <4>1. /\ roster' = [roster EXCEPT ![c] = @ \cup {m.participant}]
            /\ tiles' = [tiles EXCEPT ![c] = @ \cup ({m.participant} \ {c})]
        BY <1>2, <1>5, <3>1 DEF Learns, WithTiles
      <4>2. m.participant \in Conn
        BY <1>4, <3>1
      <4>3. QED BY <1>2, <4>1, <4>2 DEF TiledAt, ClientsTyped
    <3>2. CASE m.type # "participant.joined"
      <4>1. roster' = roster /\ tiles' = tiles
        BY <1>2, <1>5, <1>10, <3>2 DEF Learns
      <4>2. QED BY <1>2, <4>1 DEF TiledAt, ClientsTyped
    <3>3. QED BY <3>1, <3>2
  <2>3. ClientsTyped' /\ OthersSame(c)
    BY <1>2, <2>1, <2>2 DEF ClientsTyped, OthersSame
  <2>4. BusyAt(c)'
    BY <1>2, <2>1, <2>2 DEF BusyAt, Open
  <2>5. QED BY <2>2, <2>3, <2>4, OthersKeep
<1>11. QED BY <1>7, <1>8, <1>9, <1>10

-----------------------------------------------------------------------------

\* The invariant holds of a mesh where nobody joined.
LEMMA MeshInvInit == MeshInit => MeshInv
<1> SUFFICES ASSUME MeshInit PROVE MeshInv
  OBVIOUS
<1>1. NoPeer \in Peer /\ ~Open(NoPeer)
  BY MeshAssumption DEF NoPeer, Peer, PeerState, Open
<1>2. ClientsTyped
  BY <1>1 DEF MeshInit, ClientsTyped
<1>3. ASSUME NEW c \in Conn PROVE HeardAt(c) /\ BusyAt(c) /\ TiledAt(c)
  <2>1. inbox[c] = <<>> /\ tiles[c] = {} /\ roster[c] = {}
    BY DEF MeshInit, Init
  <2>2. \A d \in Conn : ops[c][d] = <<>> /\ pc[c][d] = NoPeer
    BY DEF MeshInit
  <2>3. QED BY <1>1, <2>1, <2>2 DEF HeardAt, BusyAt, TiledAt
<1>4. QED BY <1>2, <1>3 DEF MeshInv

\* A client is refused, leaves, or loses its connection.
LEMMA QuitKeeps ==
    ASSUME MeshInv, RosterInv, NEW c \in Conn, JoinRefused(c) \/ Quit(c) \/ Disconnected(c)
    PROVE  ClientsTyped' /\ \A e \in Conn : BusyAt(e)' /\ TiledAt(e)'
<1>1. CloseSession(c) /\ roster' = [roster EXCEPT ![c] = {}]
  BY DEF JoinRefused, Quit, Disconnected, ClientClose, ClientSeesClose
<1>2. outbox' = outbox \/ outbox' = [outbox EXCEPT ![c] = <<>>]
  BY DEF JoinRefused, Quit, Disconnected
<1>3. outbox' \in [Conn -> Seq(RequestMessage)]
  <2>1. outbox \in [Conn -> Seq(RequestMessage)]
    BY DEF MeshInv, ClientsTyped
  <2>2. [outbox EXCEPT ![c] = <<>>] \in [Conn -> Seq(RequestMessage)]
    BY <2>1
  <2>3. QED BY <1>2, <2>1, <2>2
<1>4. roster \in [Conn -> SUBSET Conn]
  BY DEF RosterInv, RoomsInv, TypeOK
<1>5. QED BY <1>1, <1>3, <1>4, LeaveKeeps

\* Every step keeps the invariant, given that of the server.
LEMMA MeshInvNext ==
    ASSUME RosterInv, MeshInv, [MeshNext]_meshVars
    PROVE  MeshInv'
<1>1. \A e \in Conn : HeardAt(e)'
  <2>1. [Next]_vars
    BY StepImplements DEF MeshInv
  <2>2. RoomsInv /\ StepKind
    BY <2>1, StepKinds DEF RosterInv
  <2>3. QED BY <2>2, HeardNext DEF MeshInv
<1>2. ASSUME ClientsTyped' /\ \A e \in Conn : BusyAt(e)' /\ TiledAt(e)'
      PROVE  MeshInv'
  BY <1>1, <1>2 DEF MeshInv
<1>3. ASSUME NEW c \in Conn, NEW d \in Conn, RunOperation(c, d) \/ Gather(c, d)
      PROVE  MeshInv'
  BY <1>3, RunSteps, GatherSteps, PeerStepKeeps DEF MeshInv
<1>4. ASSUME NEW c \in Conn, NEW r \in RoomId, SendJoin(c, r) PROVE MeshInv'
  BY <1>2, <1>4, SendJoinKeeps
<1>5. ASSUME NEW c \in Conn,
             ServerReads(c) \/ SayAndRead(c) \/ Lost(c) \/ Closed(c) \/ ServerCloses(c)
      PROVE  MeshInv'
  <2>1. AwayStep
    BY <1>5, AwaySteps DEF MeshInv
  <2>2. QED BY <1>2, <2>1, AwayKeeps
<1>6. ASSUME NEW c \in Conn, JoinRefused(c) \/ Quit(c) \/ Disconnected(c)
      PROVE  MeshInv'
  BY <1>2, <1>6, QuitKeeps
<1>7. ASSUME NEW c \in Conn, HandleMessage(c) PROVE MeshInv'
  BY <1>2, <1>7, MessageSteps
<1>8. CASE Elsewhere
  BY <1>2, <1>8, AwayKeeps DEF MeshInv, ClientsTyped, AwayStep, Elsewhere, HeartbeatTick,
     Shutdown, Connect, SocketError, PongReceived, client, mesh, rtc
<1>9. CASE RestartServer
  BY <1>2, <1>9, AwayKeeps DEF MeshInv, ClientsTyped, AwayStep, RestartServer, Restart, client
<1>10. CASE UNCHANGED meshVars
  BY <1>2, <1>10, AwayKeeps DEF MeshInv, ClientsTyped, AwayStep, meshVars, vars, client, mesh, rtc
<1>11. QED
  BY <1>3, <1>4, <1>5, <1>6, <1>7, <1>8, <1>9, <1>10 DEF MeshNext

-----------------------------------------------------------------------------
(***************************************************************************)
(* What the two ends of a pair of clients hold, and how a step changes it. *)
(***************************************************************************)

\* How many members of S the sequence s has
Num(s, S) == Cardinality({i \in DOMAIN s : s[i] \in S})

\* The sequence t has no more of the members of S than s: it is s, s without its
\* first element or with one more that is not in S, or empty.
Thins(t, s, S) ==
    \/ t = s
    \/ t = <<>>
    \/ s # <<>> /\ t = Tail(s)
    \/ \E m : m \notin S /\ t = Append(s, m)

\* A sequence has a number of the members of a set, an empty one none.
LEMMA NumIs ==
    ASSUME NEW T, NEW s \in Seq(T), NEW S
    PROVE  Num(s, S) \in Nat /\ Num(<<>>, S) = 0
<1>1. IsFiniteSet(1..Len(s))
  BY FS_Interval
<1>2. {i \in DOMAIN s : s[i] \in S} \subseteq 1..Len(s)
  OBVIOUS
<1>3. {i \in DOMAIN <<>> : <<>>[i] \in S} = {}
  OBVIOUS
<1>4. QED BY <1>1, <1>2, <1>3, FS_Subset, FS_CardinalityType, FS_EmptySet DEF Num

\* One more element counts if it is in the set.
LEMMA NumAppend ==
    ASSUME NEW T, NEW s \in Seq(T), NEW S, NEW m
    PROVE  Num(Append(s, m), S) = IF m \in S THEN Num(s, S) + 1 ELSE Num(s, S)
<1>1. PICK n, t : /\ n = Len(s) /\ t = Append(s, m)
  OBVIOUS
<1>2. /\ n \in Nat /\ DOMAIN s = 1..n /\ DOMAIN t = 1..(n + 1)
      /\ \A i \in 1..n : t[i] = s[i]
      /\ t[n + 1] = m
  BY <1>1
<1>3. PICK A, B : A = {i \in 1..n : s[i] \in S} /\ B = {i \in 1..(n + 1) : t[i] \in S}
  OBVIOUS
<1>4. IsFiniteSet(A) /\ n + 1 \notin A
  <2>1. IsFiniteSet(1..n)
    BY <1>2, FS_Interval
  <2>2. A \subseteq 1..n
    BY <1>3
  <2>3. n + 1 \notin 1..n
    BY <1>2
  <2>4. QED BY <2>1, <2>2, <2>3, FS_Subset
<1>5. B = IF m \in S THEN A \cup {n + 1} ELSE A
  <2>1. \A i \in 1..(n + 1) : i \in 1..n \/ i = n + 1
    BY <1>2
  <2>2. 1..n \subseteq 1..(n + 1) /\ n + 1 \in 1..(n + 1)
    BY <1>2
  <2>3. QED BY <1>2, <1>3, <2>1, <2>2
<1>6. Cardinality(A \cup {n + 1}) = Cardinality(A) + 1
  BY <1>4, FS_AddElement
<1>7. Num(s, S) = Cardinality(A) /\ Num(t, S) = Cardinality(B)
  BY <1>2, <1>3 DEF Num
<1>8. QED BY <1>1, <1>5, <1>6, <1>7

\* The first element counts if it is in the set.
LEMMA NumTail ==
    ASSUME NEW T, NEW s \in Seq(T), s # <<>>, NEW S
    PROVE  Num(s, S) = IF Head(s) \in S THEN Num(Tail(s), S) + 1 ELSE Num(Tail(s), S)
<1>1. PICK n, t : /\ n = Len(s) /\ t = Tail(s)
  OBVIOUS
<1>2. /\ n \in Nat \ {0} /\ DOMAIN s = 1..n /\ DOMAIN t = 1..(n - 1)
      /\ \A i \in 1..(n - 1) : t[i] = s[i + 1]
      /\ Head(s) = s[1]
  BY <1>1
<1>3. PICK A, B : A = {i \in 1..n : s[i] \in S} /\ B = {i \in 1..(n - 1) : t[i] \in S}
  OBVIOUS
<1>4. PICK C : C = {i \in 2..n : s[i] \in S}
  OBVIOUS
<1>5. IsFiniteSet(C) /\ 1 \notin C
  <2>1. IsFiniteSet(1..n)
    BY <1>2, FS_Interval
  <2>2. C \subseteq 1..n /\ 1 \notin C
    BY <1>2, <1>4
  <2>3. QED BY <2>1, <2>2, FS_Subset
<1>6. A = IF Head(s) \in S THEN C \cup {1} ELSE C
  <2>1. \A i \in 1..n : i \in 2..n \/ i = 1
    BY <1>2
  <2>2. 2..n \subseteq 1..n /\ 1 \in 1..n
    BY <1>2
  <2>3. QED BY <1>2, <1>3, <1>4, <2>1, <2>2
<1>7. Cardinality(C \cup {1}) = Cardinality(C) + 1
  BY <1>5, FS_AddElement
<1>8. Cardinality(B) = Cardinality(C)
  <2>1. PICK f : f = [i \in C |-> i - 1]
    OBVIOUS
  <2>2. \A i \in C : i - 1 \in 1..(n - 1) /\ (i - 1) + 1 = i /\ i \in 2..n /\ i \in Int
    BY <1>2, <1>4
  <2>3. f \in [C -> B]
    <3>1. \A i \in C : t[i - 1] = s[i] /\ s[i] \in S
      BY <1>2, <1>4, <2>2
    <3>2. QED BY <1>3, <2>1, <2>2, <3>1
  <2>4. \A i, j \in C : f[i] = f[j] => i = j
    BY <2>1, <2>2
  <2>5. \A j \in B : \E i \in C : f[i] = j
    <3> TAKE j \in B
    <3>1. j \in 1..(n - 1) /\ t[j] \in S /\ j + 1 \in 2..n /\ (j + 1) - 1 = j
      BY <1>2, <1>3
    <3>2. j + 1 \in C
      BY <1>2, <1>4, <3>1
    <3>3. QED BY <2>1, <3>1, <3>2
  <2>6. f \in Bijection(C, B)
    BY <2>3, <2>4, <2>5 DEF Bijection, Injection, Surjection, IsInjective
  <2>7. QED BY <1>5, <2>6, FS_Bijection DEF ExistsBijection
<1>9. Num(s, S) = Cardinality(A) /\ Num(t, S) = Cardinality(B)
  BY <1>2, <1>3 DEF Num
<1>10. QED BY <1>1, <1>6, <1>7, <1>8, <1>9

\* An element in place of the first
LEMMA NumReplaced ==
    ASSUME NEW T, NEW s \in Seq(T), s # <<>>, NEW S, NEW o \in T
    PROVE  Num(<<o>> \o Tail(s), S) = IF o \in S THEN Num(Tail(s), S) + 1 ELSE Num(Tail(s), S)
<1>1. PICK t : t = <<o>> \o Tail(s)
  OBVIOUS
<1>2. Tail(s) \in Seq(T)
  OBVIOUS
<1>3. t \in Seq(T) /\ t # <<>> /\ Head(t) = o /\ Tail(t) = Tail(s)
  <2>1. PICK u \in Seq(T) : u = Tail(s)
    BY <1>2
  <2>2. t = <<o>> \o u
    BY <1>1, <2>1
  <2>3. t \in Seq(T) /\ Len(t) = Len(u) + 1 /\ t[1] = o /\ \A i \in 1..Len(u) : t[i + 1] = u[i]
    BY <2>2
  <2>4. Tail(t) = u
    <3>1. Tail(t) \in Seq(T) /\ Len(Tail(t)) = Len(u) /\ \A i \in 1..Len(u) : Tail(t)[i] = u[i]
      BY <2>3
    <3>2. QED BY <2>1, <3>1
  <2>5. QED BY <2>1, <2>3, <2>4
<1>4. QED BY <1>1, <1>3, NumTail

\* A sequence that thins has no more.
LEMMA NumThins ==
    ASSUME NEW T, NEW s \in Seq(T), NEW K, NEW S, S \subseteq K, NEW t, Thins(t, s, K)
    PROVE  Num(t, S) <= Num(s, S)
<1>1. Num(s, S) \in Nat /\ Num(<<>>, S) = 0
  BY NumIs
<1>2. CASE t = s \/ t = <<>>
  BY <1>1, <1>2
<1>3. CASE s # <<>> /\ t = Tail(s)
  <2>1. Tail(s) \in Seq(T)
    BY <1>3
  <2>2. Num(Tail(s), S) \in Nat
    BY <2>1, NumIs
  <2>3. QED BY <1>3, <2>2, NumTail
<1>4. ASSUME NEW m, m \notin K, t = Append(s, m) PROVE Num(t, S) <= Num(s, S)
  BY <1>1, <1>4, NumAppend
<1>5. QED BY <1>2, <1>3, <1>4 DEF Thins

(***************************************************************************)
(* The stages of the exchange in which c offers and d answers: d is in the *)
(* list that c is sent on joining, c starts, sends the offer, it is on its *)
(* way to the server and to d, d handles it, creates an answer and sends   *)
(* it, the answer is on its way to the server and to c, and c handles it.  *)
(***************************************************************************)
Stage == 1..11

\* The lists of participants that d is in
Lists(d) == {m \in Message : m.type = "room.joined" /\ d \in m.participants}

\* How often m is in the sequence s
Times(s, m) == Num(s, {m})

\* c's end of its exchanges with d
End(c, d) == [in |-> inbox[c], out |-> outbox[c], todo |-> ops[c][d]]

\* An end of an exchange
AnEnd == [in : Seq(Message), out : Seq(RequestMessage), todo : Seq(Operation)]

\* How often each stage is found in the ends x of c and y of d
Stages(c, d, x, y) ==
    << Num(x.in, Lists(d)),
       Times(x.todo, "start"),
       Times(x.todo, "sendOffer"),
       Times(x.out, SignalRequest(d, "offer")),
       Times(y.in, Signal(c, "offer")),
       Times(y.todo, "offer"),
       Times(y.todo, "createAnswer"),
       Times(y.todo, "sendAnswer"),
       Times(y.out, SignalRequest(c, "answer")),
       Times(x.in, Signal(d, "answer")),
       Times(x.todo, "answer") >>

\* How often each stage is found now
Talk(c, d) == Stages(c, d, End(c, d), End(d, c))

\* Of an exchange with stages u, and of the one the other way with v, one is
\* at one stage and the other nowhere.
Single(u, v) ==
    \A k \in Stage : u[k] # 0 =>
        u[k] = 1 /\ v[k] = 0 /\ \A j \in Stage \ {k} : u[j] = 0 /\ v[j] = 0

\* c heard that d left, or left itself; c offered and awaits d's answer; c can
\* take d's offer.
Over(c, d) == d \in departed[c] \/ session[c] = "closed"
Awaits(c, d) == pc[c][d].state = "have-local-offer"
Fits(c, d) == pc[c][d].state \in {"none", "stable"}

\* What stage k of the exchange of c with d goes with
Stands(c, d, k) ==
    /\ participant[c] # NoRoom /\ participant[d] # NoRoom
    /\ k <= 5 => Fits(d, c) \/ Over(d, c)
    /\ k = 6 => Fits(d, c)
    /\ k \in 3..10 => Awaits(c, d) \/ Over(c, d)
    /\ k = 11 => Awaits(c, d)

\* The exchange of c with d: there is one at most, and it finds what it goes with.
Exchange(c, d) ==
    /\ Single(Talk(c, d), Talk(d, c))
    /\ \A k \in Stage : Talk(c, d)[k] # 0 => Stands(c, d, k)
    /\ pc[c][d].state # "none" => participant[d] # NoRoom

\* A session is closed with its connection.
Closing(c) ==
    /\ link[c] # "none" => sock[c] # "none"
    /\ session[c] = "closed" => link[c] \notin {"none", "up"}

\* The inductive invariant of the exchanges
FitInv == \A c \in Conn : Closing(c) /\ \A d \in Conn \ {c} : Exchange(c, d)

-----------------------------------------------------------------------------
(* Stages go or pass to the next. *)

\* No stage has more than before.
Fades(u1, u) == \A k \in Stage : u1[k] <= u[k]

\* Stage j has less, the next one at most one more, no other has more.
Passes(u1, u, j) ==
    /\ u[j] # 0 /\ u1[j] < u[j]
    /\ \A k \in Stage \ {j} : u1[k] <= IF k = j + 1 THEN u[k] + 1 ELSE u[k]

\* What was at one stage is at the next.
LEMMA SinglePasses ==
    ASSUME NEW u \in [Stage -> Nat], NEW v \in [Stage -> Nat],
           NEW u1 \in [Stage -> Nat], NEW v1 \in [Stage -> Nat],
           NEW j \in Stage, Single(u, v), Passes(u1, u, j), Fades(v1, v)
    PROVE  /\ \A k \in Stage : v1[k] = 0 /\ (k # j + 1 => u1[k] = 0)
           /\ Single(u1, v1) /\ Single(v1, u1)
<1>1. u[j] = 1 /\ v[j] = 0 /\ \A k \in Stage \ {j} : u[k] = 0 /\ v[k] = 0
  BY DEF Single, Passes
<1>2. \A k \in Stage : v1[k] = 0
  <2> TAKE k \in Stage
  <2>1. v[k] = 0 /\ v1[k] \in Nat /\ v1[k] <= v[k]
    BY <1>1 DEF Fades
  <2>2. QED BY <2>1
<1>3. \A k \in Stage : (k # j + 1 => u1[k] = 0) /\ u1[k] <= 1
  <2> TAKE k \in Stage
  <2>1. CASE k = j
    <3>1. u1[j] \in Nat /\ u1[j] < u[j]
      BY DEF Passes
    <3>2. QED BY <1>1, <2>1, <3>1
  <2>2. CASE k # j
    <3>1. u1[k] \in Nat /\ u[k] = 0 /\ u1[k] <= IF k = j + 1 THEN u[k] + 1 ELSE u[k]
      BY <1>1, <2>2 DEF Passes
    <3>2. QED BY <3>1
  <2>3. QED BY <2>1, <2>2
<1>4. QED BY <1>2, <1>3 DEF Single

\* What fades stays single.
LEMMA SingleFades ==
    ASSUME NEW u \in [Stage -> Nat], NEW v \in [Stage -> Nat],
           NEW u1 \in [Stage -> Nat], NEW v1 \in [Stage -> Nat],
           Single(u, v), Fades(u1, u), Fades(v1, v)
    PROVE  /\ Single(u1, v1)
           /\ \A k \in Stage : u1[k] # 0 => u[k] # 0
<1>1. \A k \in Stage : /\ u[k] = 0 => u1[k] = 0
                       /\ v[k] = 0 => v1[k] = 0
                       /\ u[k] = 1 => u1[k] \in {0, 1}
  <2> TAKE k \in Stage
  <2>1. u[k] \in Nat /\ v[k] \in Nat /\ u1[k] \in Nat /\ v1[k] \in Nat /\ u1[k] <= u[k] /\ v1[k] <= v[k]
    BY DEF Fades
  <2>2. QED BY <2>1
<1>2. QED BY <1>1 DEF Single

\* The numbers of the stages
LEMMA StagesTyped ==
    ASSUME NEW c, NEW d, NEW x \in AnEnd, NEW y \in AnEnd
    PROVE  Stages(c, d, x, y) \in [Stage -> Nat]
<1>1. \A S : /\ Num(x.in, S) \in Nat /\ Num(x.out, S) \in Nat /\ Num(x.todo, S) \in Nat
             /\ Num(y.in, S) \in Nat /\ Num(y.out, S) \in Nat /\ Num(y.todo, S) \in Nat
  BY NumIs DEF AnEnd
<1>2. \A m : /\ Times(x.in, m) \in Nat /\ Times(x.out, m) \in Nat /\ Times(x.todo, m) \in Nat
             /\ Times(y.in, m) \in Nat /\ Times(y.out, m) \in Nat /\ Times(y.todo, m) \in Nat
  BY <1>1 DEF Times
<1>3. QED BY <1>1, <1>2 DEF Stages, Stage

\* What is said about d
About(d) == Lists(d) \cup {Signal(d, p) : p \in {"offer", "answer"}}
\* What is said to d, and the operations that deal with descriptions
Said(d) == {SignalRequest(d, p) : p \in {"offer", "answer"}}
Descriptive == {"start", "sendOffer", "offer", "createAnswer", "sendAnswer", "answer"}

\* Nothing is added to the end x that has to do with a description for d.
EndThins(d, x1, x) ==
    /\ Thins(x1.in, x.in, About(d))
    /\ Thins(x1.out, x.out, Said(d))
    /\ Thins(x1.todo, x.todo, Descriptive)

\* Ends that thin let every stage fade.
LEMMA ThinsFades ==
    ASSUME NEW c, NEW d, NEW x \in AnEnd, NEW y \in AnEnd, NEW x1 \in AnEnd, NEW y1 \in AnEnd,
           EndThins(d, x1, x), EndThins(c, y1, y)
    PROVE  Fades(Stages(c, d, x1, y1), Stages(c, d, x, y))
<1>1. PICK u, v : u = Stages(c, d, x, y) /\ v = Stages(c, d, x1, y1)
  OBVIOUS
<1>2. \A S \in SUBSET About(d) : Num(x1.in, S) <= Num(x.in, S)
  BY NumThins DEF EndThins, AnEnd
<1>3. \A S \in SUBSET Said(d) : Num(x1.out, S) <= Num(x.out, S)
  BY NumThins DEF EndThins, AnEnd
<1>4. \A S \in SUBSET Descriptive : Num(x1.todo, S) <= Num(x.todo, S)
  BY NumThins DEF EndThins, AnEnd
<1>5. \A S \in SUBSET About(c) : Num(y1.in, S) <= Num(y.in, S)
  BY NumThins DEF EndThins, AnEnd
<1>6. \A S \in SUBSET Said(c) : Num(y1.out, S) <= Num(y.out, S)
  BY NumThins DEF EndThins, AnEnd
<1>7. \A S \in SUBSET Descriptive : Num(y1.todo, S) <= Num(y.todo, S)
  BY NumThins DEF EndThins, AnEnd
<1>8. /\ Lists(d) \subseteq About(d)
      /\ {Signal(d, "answer")} \subseteq About(d) /\ {Signal(c, "offer")} \subseteq About(c)
      /\ {SignalRequest(d, "offer")} \subseteq Said(d)
      /\ {SignalRequest(c, "answer")} \subseteq Said(c)
  BY DEF About, Said
<1>9. /\ {"start"} \subseteq Descriptive /\ {"sendOffer"} \subseteq Descriptive
      /\ {"offer"} \subseteq Descriptive /\ {"createAnswer"} \subseteq Descriptive
      /\ {"sendAnswer"} \subseteq Descriptive /\ {"answer"} \subseteq Descriptive
  BY DEF Descriptive
<1>10. /\ u[1] = Num(x.in, Lists(d))
       /\ u[2] = Times(x.todo, "start")
       /\ u[3] = Times(x.todo, "sendOffer")
       /\ u[4] = Times(x.out, SignalRequest(d, "offer"))
       /\ u[5] = Times(y.in, Signal(c, "offer"))
       /\ u[6] = Times(y.todo, "offer")
       /\ u[7] = Times(y.todo, "createAnswer")
       /\ u[8] = Times(y.todo, "sendAnswer")
       /\ u[9] = Times(y.out, SignalRequest(c, "answer"))
       /\ u[10] = Times(x.in, Signal(d, "answer"))
       /\ u[11] = Times(x.todo, "answer")
  BY <1>1 DEF Stages
<1>11. /\ v[1] = Num(x1.in, Lists(d))
       /\ v[2] = Times(x1.todo, "start")
       /\ v[3] = Times(x1.todo, "sendOffer")
       /\ v[4] = Times(x1.out, SignalRequest(d, "offer"))
       /\ v[5] = Times(y1.in, Signal(c, "offer"))
       /\ v[6] = Times(y1.todo, "offer")
       /\ v[7] = Times(y1.todo, "createAnswer")
       /\ v[8] = Times(y1.todo, "sendAnswer")
       /\ v[9] = Times(y1.out, SignalRequest(c, "answer"))
       /\ v[10] = Times(x1.in, Signal(d, "answer"))
       /\ v[11] = Times(x1.todo, "answer")
  BY <1>1 DEF Stages
<1>12. v[1] <= u[1] /\ v[10] <= u[10] /\ v[5] <= u[5]
  BY <1>2, <1>5, <1>8, <1>10, <1>11 DEF Times
<1>13. v[4] <= u[4] /\ v[9] <= u[9]
  BY <1>3, <1>6, <1>8, <1>10, <1>11 DEF Times
<1>14. v[2] <= u[2] /\ v[3] <= u[3] /\ v[11] <= u[11]
  BY <1>4, <1>9, <1>10, <1>11 DEF Times
<1>15. v[6] <= u[6] /\ v[7] <= u[7] /\ v[8] <= u[8]
  BY <1>7, <1>9, <1>10, <1>11 DEF Times
<1>16. \A k \in Stage : k \in {1, 10, 5} \/ k \in {4, 9} \/ k \in {2, 3, 11} \/ k \in {6, 7, 8}
  BY DEF Stage
<1>17. \A k \in Stage : v[k] <= u[k]
  BY <1>12, <1>13, <1>14, <1>15, <1>16
<1>18. QED BY <1>1, <1>17 DEF Fades

\* The ends of c and d, and the stages found there, now and next.
LEMMA TalkIs ==
    ASSUME RosterInv, MeshInv, RosterInv', MeshInv', NEW c \in Conn, NEW d \in Conn
    PROVE  \E x, y, x1, y1 \in AnEnd :
              /\ x = End(c, d) /\ y = End(d, c) /\ x1 = End(c, d)' /\ y1 = End(d, c)'
              /\ Talk(c, d) = Stages(c, d, x, y) /\ Talk(d, c) = Stages(d, c, y, x)
              /\ Talk(c, d)' = Stages(c, d, x1, y1) /\ Talk(d, c)' = Stages(d, c, y1, x1)
<1>1. End(c, d) \in AnEnd /\ End(d, c) \in AnEnd
  BY DEF End, AnEnd, RosterInv, RoomsInv, TypeOK, MeshInv, ClientsTyped
<1>2. End(c, d)' \in AnEnd /\ End(d, c)' \in AnEnd
  BY DEF End, AnEnd, RosterInv, RoomsInv, TypeOK, MeshInv, ClientsTyped
<1>3. PICK x \in AnEnd : x = End(c, d)
  BY <1>1
<1>4. PICK y \in AnEnd : y = End(d, c)
  BY <1>1
<1>5. PICK x1 \in AnEnd : x1 = End(c, d)'
  BY <1>2
<1>6. PICK y1 \in AnEnd : y1 = End(d, c)'
  BY <1>2
<1>7. Talk(c, d) = Stages(c, d, x, y) /\ Talk(d, c) = Stages(d, c, y, x)
  BY <1>3, <1>4 DEF Talk
<1>8. Talk(c, d)' = Stages(c, d, x1, y1) /\ Talk(d, c)' = Stages(d, c, y1, x1)
  BY <1>5, <1>6 DEF Talk
<1>9. QED BY <1>3, <1>4, <1>5, <1>6, <1>7, <1>8

\* c's end of its exchanges with d goes nowhere: nothing about a description is
\* added, and the connection stays as it is, is created, or is closed for good.
QuietEnd(c, d) ==
    /\ EndThins(d, End(c, d)', End(c, d))
    /\ participant[c] # NoRoom => participant'[c] # NoRoom
    /\ Over(c, d) => Over(c, d)'
    /\ \/ pc'[c][d].state = pc[c][d].state
       \/ /\ pc[c][d].state = "none" /\ pc'[c][d].state = "stable"
          /\ participant[d] # NoRoom
       \/ /\ Over(c, d)' /\ ops'[c][d] = <<>>
          /\ pc[c][d].state = "none" => pc'[c][d].state = "none"

\* A step that both ends take so keeps an exchange.
LEMMA QuietKeeps ==
    ASSUME RosterInv, MeshInv, RosterInv', MeshInv', NEW c \in Conn, NEW d \in Conn,
           Exchange(c, d), QuietEnd(c, d), QuietEnd(d, c)
    PROVE  Exchange(c, d)'
<1>1. PICK x, y, x1, y1 \in AnEnd :
              /\ x = End(c, d) /\ y = End(d, c) /\ x1 = End(c, d)' /\ y1 = End(d, c)'
              /\ Talk(c, d) = Stages(c, d, x, y) /\ Talk(d, c) = Stages(d, c, y, x)
              /\ Talk(c, d)' = Stages(c, d, x1, y1) /\ Talk(d, c)' = Stages(d, c, y1, x1)
  BY TalkIs
<1>2. EndThins(d, x1, x) /\ EndThins(c, y1, y)
  BY <1>1 DEF QuietEnd
<1>3. PICK u, v, u1, v1 \in [Stage -> Nat] :
              /\ u = Stages(c, d, x, y) /\ v = Stages(d, c, y, x)
              /\ u1 = Stages(c, d, x1, y1) /\ v1 = Stages(d, c, y1, x1)
  BY StagesTyped
<1>4. Fades(u1, u) /\ Fades(v1, v)
  BY <1>2, <1>3, ThinsFades
<1>5. Talk(c, d) = u /\ Talk(d, c) = v /\ Talk(c, d)' = u1 /\ Talk(d, c)' = v1
  BY <1>1, <1>3
<1>6. Single(u, v)
  BY <1>5 DEF Exchange
<1>7. Single(u1, v1) /\ \A k \in Stage : u1[k] # 0 => u[k] # 0
  BY <1>4, <1>6, SingleFades
<1>8. ops'[d][c] = <<>> => u1[6] = 0
  <2>1. y1.todo = ops'[d][c] /\ y1.todo \in Seq(Operation)
    BY <1>1 DEF End, AnEnd
  <2>2. Times(<<>>, "offer") = 0
    BY <2>1, NumIs DEF Times
  <2>3. u1[6] = Times(y1.todo, "offer")
    BY <1>3 DEF Stages
  <2>4. QED BY <2>1, <2>2, <2>3
<1>9. ops'[c][d] = <<>> => u1[11] = 0
  <2>1. x1.todo = ops'[c][d] /\ x1.todo \in Seq(Operation)
    BY <1>1 DEF End, AnEnd
  <2>2. Times(<<>>, "answer") = 0
    BY <2>1, NumIs DEF Times
  <2>3. u1[11] = Times(x1.todo, "answer")
    BY <1>3 DEF Stages
  <2>4. QED BY <2>1, <2>2, <2>3
<1>10. ASSUME NEW k \in Stage, u1[k] # 0 PROVE Stands(c, d, k)'
  <2>1. Stands(c, d, k) /\ k \in 1..11
    BY <1>5, <1>7, <1>10 DEF Exchange, Stage
  <2>2. participant'[c] # NoRoom /\ participant'[d] # NoRoom
    BY <2>1 DEF Stands, QuietEnd
  <2>3. k <= 5 => Fits(d, c)' \/ Over(d, c)'
    BY <2>1 DEF Stands, QuietEnd, Fits
  <2>4. k = 6 => Fits(d, c)'
    BY <1>8, <1>10, <2>1 DEF Stands, QuietEnd, Fits
  <2>5. k \in 3..10 => Awaits(c, d)' \/ Over(c, d)'
    BY <2>1 DEF Stands, QuietEnd, Awaits
  <2>6. k = 11 => Awaits(c, d)'
    BY <1>9, <1>10, <2>1 DEF Stands, QuietEnd, Awaits
  <2>7. QED BY <2>2, <2>3, <2>4, <2>5, <2>6 DEF Stands
<1>11. pc'[c][d].state # "none" => participant'[d] # NoRoom
  BY DEF Exchange, QuietEnd
<1>12. QED BY <1>5, <1>7, <1>10, <1>11 DEF Exchange

\* So does one that brings an exchange to its next stage, if that is what it should.
LEMMA PassKeeps ==
    ASSUME NEW c \in Conn, NEW d \in Conn, Exchange(c, d), Exchange(d, c), NEW j \in Stage,
           NEW u \in [Stage -> Nat], NEW v \in [Stage -> Nat],
           NEW u1 \in [Stage -> Nat], NEW v1 \in [Stage -> Nat],
           Talk(c, d) = u, Talk(d, c) = v, Talk(c, d)' = u1, Talk(d, c)' = v1,
           Passes(u1, u, j), Fades(v1, v),
           participant' = participant, j < 11 => Stands(c, d, j + 1)'
    PROVE  Exchange(c, d)' /\ Exchange(d, c)'
<1>1. Single(u, v)
  BY DEF Exchange
<1>2. /\ \A k \in Stage : v1[k] = 0 /\ (k # j + 1 => u1[k] = 0)
      /\ Single(u1, v1) /\ Single(v1, u1)
  BY <1>1, SinglePasses
<1>3. participant[c] # NoRoom /\ participant[d] # NoRoom
  BY DEF Exchange, Stands, Passes
<1>4. \A k \in Stage : u1[k] # 0 => Stands(c, d, k)'
  <2> SUFFICES ASSUME NEW k \in Stage, u1[k] # 0 PROVE Stands(c, d, k)'
    OBVIOUS
  <2>1. k = j + 1 /\ j < 11
    BY <1>2 DEF Stage
  <2>2. QED BY <2>1
<1>5. QED BY <1>2, <1>3, <1>4 DEF Exchange

\* One thing leaves stage j for the next.
Moves(u1, u, j) ==
    /\ u[j] = u1[j] + 1
    /\ j # 11 => u1[j + 1] = u[j + 1] + 1
    /\ \A k \in Stage : k # j /\ k # j + 1 => u1[k] = u[k]

\* One stage loses what the next one wins,
LEMMA PassesIf ==
    ASSUME NEW u \in [Stage -> Nat], NEW u1 \in [Stage -> Nat], NEW j \in Stage, Moves(u1, u, j)
    PROVE  Passes(u1, u, j)
<1>1. u[j] # 0 /\ u1[j] < u[j]
  <2>1. u[j] \in Nat /\ u1[j] \in Nat
    OBVIOUS
  <2>2. QED BY <2>1 DEF Moves
<1>2. ASSUME NEW k \in Stage \ {j} PROVE u1[k] <= IF k = j + 1 THEN u[k] + 1 ELSE u[k]
  <2>1. u[k] \in Nat /\ u1[k] \in Nat
    OBVIOUS
  <2>2. k = j + 1 => j # 11
    BY DEF Stage
  <2>3. QED BY <2>1, <2>2 DEF Moves
<1>3. QED BY <1>1, <1>2 DEF Passes

\* and nothing is lost where nothing changes.
LEMMA FadesIf ==
    ASSUME NEW u \in [Stage -> Nat], NEW u1 \in [Stage -> Nat],
           \A k \in Stage : u1[k] = u[k]
    PROVE  Fades(u1, u)
<1>1. \A k \in Stage : u[k] \in Nat /\ u1[k] = u[k]
  OBVIOUS
<1>2. QED BY <1>1 DEF Fades

\* The head of a queue is replaced by o, or goes.
LEMMA QueueCounts ==
    ASSUME NEW s \in Seq(Operation), s # <<>>, NEW o \in Operation
    PROVE  /\ \A k \in Descriptive : Times(Tail(s), k) \in Nat
           /\ \A k \in Descriptive : Times(s, k) = IF k = Head(s) THEN Times(Tail(s), k) + 1
                                             ELSE Times(Tail(s), k)
           /\ \A k \in Descriptive : Times(<<o>> \o Tail(s), k) = IF k = o THEN Times(Tail(s), k) + 1
                                                           ELSE Times(Tail(s), k)
<1>1. Tail(s) \in Seq(Operation)
  OBVIOUS
<1>2. PICK t \in Seq(Operation) : t = Tail(s)
  BY <1>1
<1>3. \A k \in Descriptive : Times(t, k) \in Nat
  BY NumIs DEF Times
<1>4. \A k \in Descriptive : Times(s, k) = IF Head(s) \in {k} THEN Times(t, k) + 1 ELSE Times(t, k)
  BY <1>2, NumTail DEF Times
<1>5. \A k \in Descriptive : Times(<<o>> \o Tail(s), k) = IF o \in {k} THEN Times(t, k) + 1 ELSE Times(t, k)
  BY <1>2, NumReplaced DEF Times
<1>6. QED BY <1>2, <1>3, <1>4, <1>5

\* The continuation of an operation is the next stage.
LEMMA ContinuePasses ==
    ASSUME NEW c, NEW d, NEW x \in AnEnd, NEW y \in AnEnd, NEW x1 \in AnEnd,
           x.todo # <<>>, NEW o \in Operation, x1.todo = <<o>> \o Tail(x.todo),
           x1.in = x.in, x1.out = x.out,
           NEW u, u = Stages(c, d, x, y), NEW u1, u1 = Stages(c, d, x1, y),
           NEW v, v = Stages(d, c, y, x), NEW v1, v1 = Stages(d, c, y, x1)
    PROVE  /\ Head(x.todo) = "start" /\ o = "sendOffer" => Passes(u1, u, 2) /\ Fades(v1, v)
           /\ Head(x.todo) = "offer" /\ o = "createAnswer" => Passes(v1, v, 6) /\ Fades(u1, u)
           /\ Head(x.todo) = "createAnswer" /\ o = "sendAnswer" => Passes(v1, v, 7) /\ Fades(u1, u)
<1>1. x.todo \in Seq(Operation)
  BY DEF AnEnd
<1>2. PICK n \in [Descriptive -> Nat] : n = [k \in Descriptive |-> Times(Tail(x.todo), k)]
  BY <1>1, QueueCounts
<1>3. \A k \in Descriptive : /\ Times(x.todo, k) = IF k = Head(x.todo) THEN n[k] + 1 ELSE n[k]
                       /\ Times(x1.todo, k) = IF k = o THEN n[k] + 1 ELSE n[k]
  BY <1>1, <1>2, QueueCounts
<1>4. u \in [Stage -> Nat] /\ v \in [Stage -> Nat] /\ u1 \in [Stage -> Nat] /\ v1 \in [Stage -> Nat]
  BY StagesTyped
<1>5. /\ \A k \in Stage \ {2, 3, 11} : u1[k] = u[k]
      /\ \A k \in Stage \ {6, 7, 8} : v1[k] = v[k]
  BY DEF Stages, Stage
<1>6. /\ u[2] = Times(x.todo, "start") /\ u1[2] = Times(x1.todo, "start")
      /\ u[3] = Times(x.todo, "sendOffer") /\ u1[3] = Times(x1.todo, "sendOffer")
      /\ u[11] = Times(x.todo, "answer") /\ u1[11] = Times(x1.todo, "answer")
      /\ v[6] = Times(x.todo, "offer") /\ v1[6] = Times(x1.todo, "offer")
      /\ v[7] = Times(x.todo, "createAnswer") /\ v1[7] = Times(x1.todo, "createAnswer")
      /\ v[8] = Times(x.todo, "sendAnswer") /\ v1[8] = Times(x1.todo, "sendAnswer")
  BY DEF Stages
<1>7. PICK n1, n2, n3, n4, n5, n6 \in Nat :
        /\ n1 = n["start"] /\ n2 = n["sendOffer"] /\ n3 = n["answer"]
        /\ n4 = n["offer"] /\ n5 = n["createAnswer"] /\ n6 = n["sendAnswer"]
  BY DEF Descriptive
<1>8. ASSUME Head(x.todo) = "start", o = "sendOffer" PROVE Passes(u1, u, 2) /\ Fades(v1, v)
  <2>1. u[2] = n1 + 1 /\ u1[2] = n1 /\ u[3] = n2 /\ u1[3] = n2 + 1 /\ u[11] = n3 /\ u1[11] = n3
    BY <1>3, <1>6, <1>7, <1>8 DEF Descriptive
  <2>2. v1[6] = v[6] /\ v1[7] = v[7] /\ v1[8] = v[8]
    BY <1>3, <1>6, <1>7, <1>8 DEF Descriptive
  <2>3. /\ u[2] = u1[2] + 1 /\ u1[3] = u[3] + 1
        /\ \A k \in Stage : k # 2 /\ k # 3 => u1[k] = u[k]
        /\ \A k \in Stage : v1[k] = v[k]
    BY <1>5, <2>1, <2>2
  <2>4. 2 \in Stage
    BY DEF Stage
  <2>5. Moves(u1, u, 2)
    BY <2>3 DEF Moves
  <2>6. Passes(u1, u, 2)
    BY <1>4, <2>5, <2>4, PassesIf
  <2>7. Fades(v1, v)
    BY <1>4, <2>3, <2>4, FadesIf
  <2>8. QED BY <2>6, <2>7
<1>9. ASSUME Head(x.todo) = "offer", o = "createAnswer" PROVE Passes(v1, v, 6) /\ Fades(u1, u)
  <2>1. v[6] = n4 + 1 /\ v1[6] = n4 /\ v[7] = n5 /\ v1[7] = n5 + 1 /\ v[8] = n6 /\ v1[8] = n6
    BY <1>3, <1>6, <1>7, <1>9 DEF Descriptive
  <2>2. u1[2] = u[2] /\ u1[3] = u[3] /\ u1[11] = u[11]
    BY <1>3, <1>6, <1>7, <1>9 DEF Descriptive
  <2>3. /\ v[6] = v1[6] + 1 /\ v1[7] = v[7] + 1
        /\ \A k \in Stage : k # 6 /\ k # 7 => v1[k] = v[k]
        /\ \A k \in Stage : u1[k] = u[k]
    BY <1>5, <2>1, <2>2
  <2>4. 6 \in Stage
    BY DEF Stage
  <2>5. Moves(v1, v, 6)
    BY <2>3 DEF Moves
  <2>6. Passes(v1, v, 6)
    BY <1>4, <2>5, <2>4, PassesIf
  <2>7. Fades(u1, u)
    BY <1>4, <2>3, <2>4, FadesIf
  <2>8. QED BY <2>6, <2>7
<1>10. ASSUME Head(x.todo) = "createAnswer", o = "sendAnswer" PROVE Passes(v1, v, 7) /\ Fades(u1, u)
  <2>1. v[7] = n5 + 1 /\ v1[7] = n5 /\ v[8] = n6 /\ v1[8] = n6 + 1 /\ v[6] = n4 /\ v1[6] = n4
    BY <1>3, <1>6, <1>7, <1>10 DEF Descriptive
  <2>2. u1[2] = u[2] /\ u1[3] = u[3] /\ u1[11] = u[11]
    BY <1>3, <1>6, <1>7, <1>10 DEF Descriptive
  <2>3. /\ v[7] = v1[7] + 1 /\ v1[8] = v[8] + 1
        /\ \A k \in Stage : k # 7 /\ k # 8 => v1[k] = v[k]
        /\ \A k \in Stage : u1[k] = u[k]
    BY <1>5, <2>1, <2>2
  <2>4. 7 \in Stage
    BY DEF Stage
  <2>5. Moves(v1, v, 7)
    BY <2>3 DEF Moves
  <2>6. Passes(v1, v, 7)
    BY <1>4, <2>5, <2>4, PassesIf
  <2>7. Fades(u1, u)
    BY <1>4, <2>3, <2>4, FadesIf
  <2>8. QED BY <2>6, <2>7
<1>11. QED BY <1>8, <1>9, <1>10

\* What an operation sends is the next stage.
LEMMA SendPasses ==
    ASSUME NEW c, NEW d \in Conn, NEW x \in AnEnd, NEW y \in AnEnd, NEW x1 \in AnEnd,
           x.todo # <<>>, x1.todo = Tail(x.todo), x1.in = x.in,
           NEW p \in {"offer", "answer"}, x1.out = Append(x.out, SignalRequest(d, p)),
           NEW u, u = Stages(c, d, x, y), NEW u1, u1 = Stages(c, d, x1, y),
           NEW v, v = Stages(d, c, y, x), NEW v1, v1 = Stages(d, c, y, x1)
    PROVE  /\ Head(x.todo) = "sendOffer" /\ p = "offer" => Passes(u1, u, 3) /\ Fades(v1, v)
           /\ Head(x.todo) = "sendAnswer" /\ p = "answer" => Passes(v1, v, 8) /\ Fades(u1, u)
<1>1. x.todo \in Seq(Operation) /\ "start" \in Operation
  BY DEF AnEnd, Operation
<1>2. PICK n \in [Descriptive -> Nat] : n = [k \in Descriptive |-> Times(Tail(x.todo), k)]
  BY <1>1, QueueCounts
<1>3. \A k \in Descriptive : /\ Times(x.todo, k) = IF k = Head(x.todo) THEN n[k] + 1 ELSE n[k]
                       /\ Times(x1.todo, k) = n[k]
  BY <1>1, <1>2, QueueCounts
<1>4. u \in [Stage -> Nat] /\ v \in [Stage -> Nat] /\ u1 \in [Stage -> Nat] /\ v1 \in [Stage -> Nat]
  BY StagesTyped
<1>5. /\ \A k \in Stage \ {2, 3, 4, 11} : u1[k] = u[k]
      /\ \A k \in Stage \ {6, 7, 8, 9} : v1[k] = v[k]
  BY DEF Stages, Stage
<1>6. /\ u[2] = Times(x.todo, "start") /\ u1[2] = Times(x1.todo, "start")
      /\ u[3] = Times(x.todo, "sendOffer") /\ u1[3] = Times(x1.todo, "sendOffer")
      /\ u[11] = Times(x.todo, "answer") /\ u1[11] = Times(x1.todo, "answer")
      /\ v[6] = Times(x.todo, "offer") /\ v1[6] = Times(x1.todo, "offer")
      /\ v[7] = Times(x.todo, "createAnswer") /\ v1[7] = Times(x1.todo, "createAnswer")
      /\ v[8] = Times(x.todo, "sendAnswer") /\ v1[8] = Times(x1.todo, "sendAnswer")
      /\ u[4] = Times(x.out, SignalRequest(d, "offer")) /\ u1[4] = Times(x1.out, SignalRequest(d, "offer"))
      /\ v[9] = Times(x.out, SignalRequest(d, "answer")) /\ v1[9] = Times(x1.out, SignalRequest(d, "answer"))
  BY DEF Stages
<1>7. \A q \in {"offer", "answer"} :
        Times(x1.out, SignalRequest(d, q)) = IF q = p THEN Times(x.out, SignalRequest(d, q)) + 1
                                      ELSE Times(x.out, SignalRequest(d, q))
  <2>1. \A q \in {"offer", "answer"} : SignalRequest(d, p) = SignalRequest(d, q) <=> q = p
    BY DEF SignalRequest
  <2>2. x.out \in Seq(RequestMessage)
    BY DEF AnEnd
  <2>3. PICK m : m = SignalRequest(d, p)
    OBVIOUS
  <2>4. PICK s \in Seq(RequestMessage) : s = x.out
    BY <2>2
  <2>5. \A z : Num(Append(s, m), {z}) = IF m \in {z} THEN Num(s, {z}) + 1 ELSE Num(s, {z})
    BY NumAppend
  <2>6. \A z : Times(x1.out, z) = IF m = z THEN Times(x.out, z) + 1 ELSE Times(x.out, z)
    BY <2>3, <2>4, <2>5 DEF Times
  <2>7. QED BY <2>1, <2>3, <2>4, <2>6
<1>8. PICK n1, n2, n3, n4, n5, n6 \in Nat :
        /\ n1 = n["start"] /\ n2 = n["sendOffer"] /\ n3 = n["answer"]
        /\ n4 = n["offer"] /\ n5 = n["createAnswer"] /\ n6 = n["sendAnswer"]
  BY DEF Descriptive
<1>9. ASSUME Head(x.todo) = "sendOffer", p = "offer" PROVE Passes(u1, u, 3) /\ Fades(v1, v)
  <2>1. u[3] = n2 + 1 /\ u1[3] = n2 /\ u[2] = n1 /\ u1[2] = n1 /\ u[11] = n3 /\ u1[11] = n3
    BY <1>3, <1>6, <1>8, <1>9 DEF Descriptive
  <2>2. v1[6] = v[6] /\ v1[7] = v[7] /\ v1[8] = v[8]
    BY <1>3, <1>6, <1>8, <1>9 DEF Descriptive
  <2>3. u1[4] = u[4] + 1 /\ v1[9] = v[9]
    BY <1>6, <1>7, <1>9
  <2>4. /\ u[3] = u1[3] + 1 /\ u1[4] = u[4] + 1
        /\ \A k \in Stage : k # 3 /\ k # 4 => u1[k] = u[k]
        /\ \A k \in Stage : v1[k] = v[k]
    BY <1>5, <2>1, <2>2, <2>3
  <2>5. 3 \in Stage
    BY DEF Stage
  <2>6. Moves(u1, u, 3)
    BY <2>4 DEF Moves
  <2>7. Passes(u1, u, 3)
    BY <1>4, <2>6, <2>5, PassesIf
  <2>8. Fades(v1, v)
    BY <1>4, <2>4, <2>5, FadesIf
  <2>9. QED BY <2>7, <2>8
<1>10. ASSUME Head(x.todo) = "sendAnswer", p = "answer" PROVE Passes(v1, v, 8) /\ Fades(u1, u)
  <2>1. v[8] = n6 + 1 /\ v1[8] = n6 /\ v[7] = n5 /\ v1[7] = n5 /\ v[6] = n4 /\ v1[6] = n4
    BY <1>3, <1>6, <1>8, <1>10 DEF Descriptive
  <2>2. u1[2] = u[2] /\ u1[3] = u[3] /\ u1[11] = u[11]
    BY <1>3, <1>6, <1>8, <1>10 DEF Descriptive
  <2>3. v1[9] = v[9] + 1 /\ u1[4] = u[4]
    BY <1>6, <1>7, <1>10
  <2>4. /\ v[8] = v1[8] + 1 /\ v1[9] = v[9] + 1
        /\ \A k \in Stage : k # 8 /\ k # 9 => v1[k] = v[k]
        /\ \A k \in Stage : u1[k] = u[k]
    BY <1>5, <2>1, <2>2, <2>3
  <2>5. 8 \in Stage
    BY DEF Stage
  <2>6. Moves(v1, v, 8)
    BY <2>4 DEF Moves
  <2>7. Passes(v1, v, 8)
    BY <1>4, <2>6, <2>5, PassesIf
  <2>8. Fades(u1, u)
    BY <1>4, <2>4, <2>5, FadesIf
  <2>9. QED BY <2>7, <2>8
<1>11. QED BY <1>9, <1>10

\* An answer that is handled is the end.
LEMMA AnswerPasses ==
    ASSUME NEW c, NEW d, NEW x \in AnEnd, NEW y \in AnEnd, NEW x1 \in AnEnd,
           x.todo # <<>>, Head(x.todo) = "answer", x1.todo = Tail(x.todo),
           x1.in = x.in, x1.out = x.out,
           NEW u, u = Stages(c, d, x, y), NEW u1, u1 = Stages(c, d, x1, y),
           NEW v, v = Stages(d, c, y, x), NEW v1, v1 = Stages(d, c, y, x1)
    PROVE  Passes(u1, u, 11) /\ Fades(v1, v)
<1>1. x.todo \in Seq(Operation) /\ "start" \in Operation
  BY DEF AnEnd, Operation
<1>2. \A k \in Descriptive : /\ Times(x1.todo, k) \in Nat
                       /\ Times(x.todo, k) = IF k = Head(x.todo) THEN Times(x1.todo, k) + 1
                                             ELSE Times(x1.todo, k)
  BY <1>1, QueueCounts
<1>3. u \in [Stage -> Nat] /\ v \in [Stage -> Nat] /\ u1 \in [Stage -> Nat] /\ v1 \in [Stage -> Nat]
  BY StagesTyped
<1>4. /\ \A k \in Stage \ {2, 3, 11} : u1[k] = u[k]
      /\ \A k \in Stage \ {6, 7, 8} : v1[k] = v[k]
  BY DEF Stages, Stage
<1>5. /\ u[2] = Times(x.todo, "start") /\ u1[2] = Times(x1.todo, "start")
      /\ u[3] = Times(x.todo, "sendOffer") /\ u1[3] = Times(x1.todo, "sendOffer")
      /\ u[11] = Times(x.todo, "answer") /\ u1[11] = Times(x1.todo, "answer")
      /\ v[6] = Times(x.todo, "offer") /\ v1[6] = Times(x1.todo, "offer")
      /\ v[7] = Times(x.todo, "createAnswer") /\ v1[7] = Times(x1.todo, "createAnswer")
      /\ v[8] = Times(x.todo, "sendAnswer") /\ v1[8] = Times(x1.todo, "sendAnswer")
  BY DEF Stages
<1>6. u[11] = u1[11] + 1
  BY <1>2, <1>5 DEF Descriptive
<1>7. u1[2] = u[2] /\ u1[3] = u[3] /\ v1[6] = v[6] /\ v1[7] = v[7] /\ v1[8] = v[8]
  BY <1>2, <1>5 DEF Descriptive
<1>8. /\ \A k \in Stage : k # 11 /\ k # 12 => u1[k] = u[k]
      /\ \A k \in Stage : v1[k] = v[k]
  BY <1>4, <1>7
<1>9. 11 \in Stage
  BY DEF Stage
<1>10. Moves(u1, u, 11)
  BY <1>6, <1>8 DEF Moves
<1>11. Passes(u1, u, 11)
  BY <1>3, <1>10, <1>9, PassesIf
<1>12. Fades(v1, v)
  BY <1>3, <1>6, <1>8, <1>9, FadesIf
<1>13. QED BY <1>11, <1>12

-----------------------------------------------------------------------------
(* Steps that leave every exchange where it is, or take from it. *)

\* What is sent of neither an offer, an answer nor the list of a room.
LEMMA NotAbout ==
    ASSUME NEW d, NEW e, NEW p, NEW r, NEW S
    PROVE  /\ Pong \notin About(d) /\ RoomCreated \notin About(d) /\ Error \notin About(d)
           /\ Introduction(e) \notin About(d) /\ Departure(e) \notin About(d)
           /\ ChatMessage(e) \notin About(d)
           /\ d \notin S => RoomJoined(S) \notin About(d)
           /\ e # d \/ p = "candidate" =>
                 Signal(e, p) \notin About(d) /\ SignalRequest(e, p) \notin Said(d)
           /\ JoinRequest(r) \notin Said(d)
<1>1. \A m \in About(d) : \/ m.type = "room.joined" /\ d \in m.participants
                          \/ m.type = "webrtc" /\ m.participant = d /\ m.payload \in {"offer", "answer"}
  BY DEF About, Lists, Signal
<1>2. \A m \in Said(d) : m.type = "webrtc" /\ m.targetId = d /\ m.payload \in {"offer", "answer"}
  BY DEF Said, SignalRequest
<1>3. /\ Pong \notin About(d) /\ RoomCreated \notin About(d) /\ Error \notin About(d)
      /\ Introduction(e) \notin About(d) /\ Departure(e) \notin About(d)
      /\ ChatMessage(e) \notin About(d)
  BY <1>1 DEF Pong, RoomCreated, Error, Introduction, Departure, ChatMessage
<1>4. d \notin S => RoomJoined(S) \notin About(d)
  BY <1>1 DEF RoomJoined
<1>5. e # d \/ p = "candidate" => Signal(e, p) \notin About(d)
  BY <1>1 DEF Signal
<1>6. e # d \/ p = "candidate" => SignalRequest(e, p) \notin Said(d)
  BY <1>2 DEF SignalRequest
<1>7. JoinRequest(r) \notin Said(d)
  BY <1>2 DEF JoinRequest
<1>8. QED BY <1>3, <1>4, <1>5, <1>6, <1>7

\* An end whose client keeps its connection
LEMMA QuietIf ==
    ASSUME NEW x \in Conn, NEW y \in Conn,
           Thins(inbox'[x], inbox[x], About(y)), Thins(outbox'[x], outbox[x], Said(y)),
           Thins(ops'[x][y], ops[x][y], Descriptive),
           participant[x] # NoRoom => participant'[x] # NoRoom,
           Over(x, y) => Over(x, y)', pc'[x][y].state = pc[x][y].state
    PROVE  QuietEnd(x, y)
<1>1. EndThins(y, End(x, y)', End(x, y))
  BY DEF EndThins, End
<1>2. QED BY <1>1 DEF QuietEnd

\* A step of the server or the network
LEMMA AwayQuiet ==
    ASSUME UNCHANGED <<session, departed, pc, ops>>, NEW x \in Conn, NEW y \in Conn,
           Thins(inbox'[x], inbox[x], About(y)), Thins(outbox'[x], outbox[x], Said(y)),
           participant[x] # NoRoom => participant'[x] # NoRoom
    PROVE  QuietEnd(x, y)
<1>1. Thins(ops'[x][y], ops[x][y], Descriptive)
  BY DEF Thins
<1>2. (Over(x, y) => Over(x, y)') /\ pc'[x][y].state = pc[x][y].state
  BY DEF Over
<1>3. QED BY <1>1, <1>2, QuietIf

\* One that only sends messages without descriptions
LEMMA TellQuiet ==
    ASSUME UNCHANGED <<session, departed, pc, ops, participant>>, NEW x \in Conn, NEW y \in Conn,
           \/ inbox'[x] = inbox[x] \/ inbox'[x] = <<>>
           \/ \E m : m \notin About(y) /\ inbox'[x] = Append(inbox[x], m),
           \/ outbox'[x] = outbox[x] \/ outbox'[x] = <<>>
           \/ outbox[x] # <<>> /\ outbox'[x] = Tail(outbox[x])
    PROVE  QuietEnd(x, y)
<1>1. Thins(inbox'[x], inbox[x], About(y)) /\ Thins(outbox'[x], outbox[x], Said(y))
  BY DEF Thins
<1>2. QED BY <1>1, AwayQuiet

\* The server refuses a request.
LEMMA RefusedQuiet ==
    ASSUME RosterInv, MeshInv, NEW c \in Conn, ServerReads(c), Reply(c, Error),
           NEW x \in Conn, NEW y \in Conn
    PROVE  QuietEnd(x, y)
<1>1. /\ UNCHANGED <<session, departed, pc, ops, participant>> /\ outbox[c] # <<>>
      /\ outbox' = [outbox EXCEPT ![c] = Tail(@)] /\ SendTo(c, Error)
      /\ outbox \in [Conn -> Seq(RequestMessage)] /\ inbox \in [Conn -> Seq(Message)]
  BY DEF ServerReads, Reply, server, MeshInv, ClientsTyped, RosterInv, RoomsInv, TypeOK
<1>2. inbox'[x] = inbox[x] \/ inbox'[x] = Append(inbox[x], Error)
  BY <1>1 DEF SendTo
<1>3. outbox'[x] = outbox[x] \/ (outbox[x] # <<>> /\ outbox'[x] = Tail(outbox[x]))
  BY <1>1
<1>4. Error \notin About(y)
  BY NotAbout
<1>5. QED BY <1>1, <1>2, <1>3, <1>4, TellQuiet

\* A link or a socket closes, or somebody chats.
LEMMA NetworkQuiet ==
    ASSUME RosterInv, MeshInv, NEW x \in Conn, NEW y \in Conn, NEW c \in Conn,
           SayAndRead(c) \/ Lost(c) \/ Closed(c) \/ ServerCloses(c) \/ Elsewhere \/ RestartServer
    PROVE  QuietEnd(x, y)
<1>1. outbox \in [Conn -> Seq(RequestMessage)] /\ inbox \in [Conn -> Seq(Message)]
  BY DEF MeshInv, ClientsTyped, RosterInv, RoomsInv, TypeOK
<1>2. \A e : ChatMessage(e) \notin About(y) /\ Departure(e) \notin About(y)
  BY NotAbout
<1>3. UNCHANGED <<session, departed, pc, ops, participant>>
  BY DEF SayAndRead, Lost, Closed, ServerCloses, Elsewhere, RestartServer, Chat, LinkLost,
     ReceiveClose, OnClose, OnCloseUnjoined, OnCloseJoined, HeartbeatTick, Shutdown, Connect,
     SocketError, PongReceived, Restart, server, mesh, rtc
<1>4. outbox'[x] = outbox[x] \/ outbox'[x] = <<>>
  BY <1>1 DEF SayAndRead, Lost, Closed, ServerCloses, Elsewhere, RestartServer, mesh, rtc
<1>5. \/ inbox'[x] = inbox[x] \/ inbox'[x] = <<>>
      \/ \E m : m \notin About(y) /\ inbox'[x] = Append(inbox[x], m)
  <2>1. CASE SayAndRead(c)
    <3>1. inbox'[x] = inbox[x] \/ inbox'[x] = Append(inbox[x], ChatMessage(c))
      BY <1>1, <2>1 DEF SayAndRead, Chat, Broadcast
    <3>2. QED BY <1>2, <3>1
  <2>2. CASE Lost(c)
    BY <1>1, <2>2 DEF Lost, LinkLost
  <2>3. CASE ServerCloses(c)
    <3>1. inbox'[x] = inbox[x] \/ inbox'[x] = Append(inbox[x], Departure(c))
      BY <1>1, <2>3 DEF ServerCloses, OnClose, OnCloseUnjoined, OnCloseJoined, Broadcast, client
    <3>2. QED BY <1>2, <3>1
  <2>4. CASE Closed(c) \/ Elsewhere \/ RestartServer
    BY <2>4 DEF Closed, Elsewhere, RestartServer, ReceiveClose, HeartbeatTick, Shutdown, Connect,
       SocketError, PongReceived, Restart, client
  <2>5. QED BY <2>1, <2>2, <2>3, <2>4
<1>6. QED BY <1>3, <1>4, <1>5, TellQuiet

\* A client asks to join.
LEMMA SendJoinQuiet ==
    ASSUME RosterInv, MeshInv, NEW c \in Conn, NEW r \in RoomId, SendJoin(c, r),
           NEW x \in Conn, NEW y \in Conn
    PROVE  QuietEnd(x, y)
<1>1. /\ UNCHANGED <<inbox, participant, departed, pc, ops>>
      /\ session[c] = "none" /\ session' = [session EXCEPT ![c] = "joining"]
      /\ outbox \in [Conn -> Seq(RequestMessage)]
      /\ session \in [Conn -> {"none", "joining", "active", "closed"}]
  BY DEF SendJoin, vars, server, client, MeshInv, ClientsTyped
<1>2. outbox'[x] = outbox[x] \/ outbox'[x] = Append(outbox[x], JoinRequest(r))
  BY <1>1 DEF SendJoin, Send
<1>3. JoinRequest(r) \notin Said(y)
  BY NotAbout
<1>4. Thins(inbox'[x], inbox[x], About(y)) /\ Thins(ops'[x][y], ops[x][y], Descriptive)
  BY <1>1 DEF Thins
<1>5. Thins(outbox'[x], outbox[x], Said(y))
  BY <1>2, <1>3 DEF Thins
<1>6. Over(x, y) => Over(x, y)'
  BY <1>1 DEF Over
<1>7. QED BY <1>1, <1>4, <1>5, <1>6, QuietIf

\* A client leaves.
LEMMA QuitQuiet ==
    ASSUME RosterInv, MeshInv, NEW c \in Conn, JoinRefused(c) \/ Quit(c) \/ Disconnected(c),
           NEW x \in Conn, NEW y \in Conn
    PROVE  QuietEnd(x, y)
<1>1. /\ ClientsTyped /\ inbox \in [Conn -> Seq(Message)]
  BY DEF MeshInv, RosterInv, RoomsInv, TypeOK
<1>2. /\ inbox' = [inbox EXCEPT ![c] = <<>>] /\ participant' = participant /\ CloseSession(c)
      /\ outbox' = outbox \/ outbox' = [outbox EXCEPT ![c] = <<>>]
  BY DEF JoinRefused, Quit, Disconnected, ClientClose, ClientSeesClose, server
<1>3. Thins(inbox'[x], inbox[x], About(y))
  BY <1>1, <1>2 DEF Thins
<1>4. Thins(outbox'[x], outbox[x], Said(y))
  BY <1>1, <1>2 DEF Thins, ClientsTyped
<1>5. /\ session' = [session EXCEPT ![c] = "closed"]
      /\ ops' = [ops EXCEPT ![c] = [d \in Conn |-> <<>>]] /\ departed' = departed
      /\ pc' = [pc EXCEPT ![c] = [d \in Conn |->
                 IF pc[c][d].state = "none" THEN pc[c][d]
                                            ELSE [pc[c][d] EXCEPT !.state = "closed"]]]
  BY <1>1, <1>2 DEF CloseSession, ClientsTyped
<1>6. CASE x # c
  <2>1. ops'[x] = ops[x] /\ pc'[x] = pc[x] /\ session'[x] = session[x]
    BY <1>1, <1>5, <1>6 DEF ClientsTyped
  <2>2. Thins(ops'[x][y], ops[x][y], Descriptive)
    BY <2>1 DEF Thins
  <2>3. Over(x, y) => Over(x, y)'
    BY <1>5, <2>1 DEF Over
  <2>4. QED BY <1>2, <1>3, <1>4, <2>1, <2>2, <2>3, QuietIf
<1>7. CASE x = c
  <2>1. session'[x] = "closed" /\ ops'[x][y] = <<>>
    BY <1>1, <1>5, <1>7 DEF ClientsTyped
  <2>2. pc[x][y].state = "none" => pc'[x][y].state = "none"
    BY <1>1, <1>5, <1>7 DEF ClientsTyped
  <2>3. Thins(ops'[x][y], ops[x][y], Descriptive)
    BY <2>1 DEF Thins
  <2>4. EndThins(y, End(x, y)', End(x, y))
    BY <1>3, <1>4, <2>3 DEF EndThins, End
  <2>5. QED BY <1>2, <2>1, <2>2, <2>4 DEF QuietEnd, Over
<1>8. QED BY <1>6, <1>7

-----------------------------------------------------------------------------
(* An operation, or a candidate gathered, of c's queue for d. *)

\* Who c knows, and c itself, joined.
LEMMA KnownJoined ==
    ASSUME RosterInv, NEW c \in Conn, NEW d \in roster[c]
    PROVE  d \in Conn /\ participant[c] # NoRoom /\ participant[d] # NoRoom
<1>1. d \in Conn
  BY DEF RosterInv, RoomsInv, TypeOK
<1>2. Hears(c, d)
  BY DEF Hears
<1>3. IsolatedAt(c)
  BY DEF RosterInv, ToldAt
<1>4. QED BY <1>1, <1>2, <1>3 DEF IsolatedAt

\* What an operation of c for d may change: one connection, one queue, and the outbox
QueueStep(c, d) ==
    /\ UNCHANGED <<inbox, participant, session, departed>>
    /\ session[c] = "active"
    /\ \A x, y \in Conn : ~(x = c /\ y = d) => ops'[x][y] = ops[x][y] /\ pc'[x][y] = pc[x][y]
    /\ \A x \in Conn \ {c} : outbox'[x] = outbox[x]

\* Other ends do not feel it.
LEMMA QueueElsewhere ==
    ASSUME NEW c \in Conn, NEW d \in Conn, QueueStep(c, d),
           outbox'[c] = outbox[c] \/ \E p : outbox'[c] = Append(outbox[c], SignalRequest(d, p)),
           NEW x \in Conn, NEW y \in Conn, ~(x = c /\ y = d)
    PROVE  QuietEnd(x, y)
<1>1. /\ UNCHANGED <<inbox, participant, session, departed>>
      /\ ops'[x][y] = ops[x][y] /\ pc'[x][y] = pc[x][y]
      /\ x # c => outbox'[x] = outbox[x]
  BY DEF QueueStep
<1>2. Thins(inbox'[x], inbox[x], About(y)) /\ Thins(ops'[x][y], ops[x][y], Descriptive)
  BY <1>1 DEF Thins
<1>3. Thins(outbox'[x], outbox[x], Said(y))
  <2>1. CASE outbox'[x] = outbox[x]
    BY <2>1 DEF Thins
  <2>2. ASSUME NEW p, x = c, outbox'[c] = Append(outbox[c], SignalRequest(d, p))
        PROVE  Thins(outbox'[x], outbox[x], Said(y))
    <3>1. d # y
      BY <2>2
    <3>2. SignalRequest(d, p) \notin Said(y)
      BY <3>1, NotAbout
    <3>3. QED BY <2>2, <3>2 DEF Thins
  <2>3. QED BY <1>1, <2>1, <2>2
<1>4. Over(x, y) => Over(x, y)'
  BY <1>1 DEF Over
<1>5. QED BY <1>1, <1>2, <1>3, <1>4, QuietIf

\* Every operation, and the gathering of a candidate, is such a step.
LEMMA QueueSteps ==
    ASSUME MeshInv, NEW c \in Conn, NEW d \in Conn, RunOperation(c, d) \/ Gather(c, d)
    PROVE  /\ QueueStep(c, d)
           /\ outbox'[c] = outbox[c] \/ \E p : outbox'[c] = Append(outbox[c], SignalRequest(d, p))
<1>1. ClientsTyped
  BY DEF MeshInv
<1>2. PeerStep(c, d)
  BY <1>1, RunSteps, GatherSteps
<1>3. \/ outbox' = outbox
      \/ \E p \in {"offer", "answer", "candidate"} : Send(c, SignalRequest(d, p))
  BY DEF RunOperation, Start, SendOffer, HandleOffer, CreateAnswer, SendAnswer, HandleAnswer,
     HandleCandidate, Gather
<1>4. /\ \A x \in Conn \ {c} : outbox'[x] = outbox[x]
      /\ outbox'[c] = outbox[c] \/ \E p : outbox'[c] = Append(outbox[c], SignalRequest(d, p))
  <2>1. CASE outbox' = outbox
    BY <2>1
  <2>2. ASSUME NEW p, Send(c, SignalRequest(d, p))
        PROVE  /\ \A x \in Conn \ {c} : outbox'[x] = outbox[x]
               /\ outbox'[c] = outbox[c] \/ outbox'[c] = Append(outbox[c], SignalRequest(d, p))
    BY <1>1, <2>2 DEF Send, ClientsTyped
  <2>3. QED BY <1>3, <2>1, <2>2
<1>5. PICK p, s : pc' = [pc EXCEPT ![c][d] = p] /\ ops' = [ops EXCEPT ![c][d] = s]
  BY <1>2 DEF PeerStep
<1>6. \A x, y \in Conn : ~(x = c /\ y = d) => ops'[x][y] = ops[x][y] /\ pc'[x][y] = pc[x][y]
  BY <1>1, <1>5 DEF ClientsTyped
<1>7. UNCHANGED <<inbox, participant, session, departed>> /\ session[c] = "active"
  BY <1>2 DEF PeerStep, vars, server, client
<1>8. QED BY <1>4, <1>6, <1>7 DEF QueueStep

\* How a queue, a connection and what is sent change by an operation
LEMMA OperationEffects ==
    ASSUME MeshInv, NEW c \in Conn, NEW d \in Conn
    PROVE  /\ Start(c, d) =>
                /\ ops'[c][d] = <<"sendOffer">> \o Tail(ops[c][d])
                /\ pc'[c][d].state = "have-local-offer" /\ outbox'[c] = outbox[c]
           /\ SendOffer(c, d) \/ SendAnswer(c, d) =>
                ops'[c][d] = Tail(ops[c][d]) /\ pc'[c][d] = pc[c][d]
           /\ HandleOffer(c, d) =>
                /\ outbox'[c] = outbox[c]
                /\ pc[c][d].state \in {"none", "stable"} =>
                     ops'[c][d] = <<"createAnswer">> \o Tail(ops[c][d])
           /\ CreateAnswer(c, d) =>
                /\ ops'[c][d] = <<"sendAnswer">> \o Tail(ops[c][d])
                /\ outbox'[c] = outbox[c]
           /\ HandleAnswer(c, d) =>
                ops'[c][d] = Tail(ops[c][d]) /\ outbox'[c] = outbox[c]
           /\ HandleCandidate(c, d) =>
                /\ ops'[c][d] = Tail(ops[c][d]) /\ outbox'[c] = outbox[c]
                /\ \/ pc'[c][d].state = pc[c][d].state
                   \/ pc[c][d].state = "none" /\ pc'[c][d].state = "stable"
<1>1. /\ ops \in [Conn -> [Conn -> Seq(Operation)]] /\ pc \in [Conn -> [Conn -> Peer]]
      /\ pc[c][d] \in Peer
  BY DEF MeshInv, ClientsTyped
<1>2. \A o : ContinueWith(c, d, o) => ops'[c][d] = <<o>> \o Tail(ops[c][d])
  BY <1>1 DEF ContinueWith
<1>3. Done(c, d) => ops'[c][d] = Tail(ops[c][d])
  BY <1>1 DEF Done
<1>4. Start(c, d) => pc'[c][d].state = "have-local-offer"
  BY <1>1 DEF Start, Peer
<1>5. HandleCandidate(c, d) => \/ pc'[c][d].state = pc[c][d].state
                               \/ pc[c][d].state = "none" /\ pc'[c][d].state = "stable"
  <2> SUFFICES ASSUME HandleCandidate(c, d)
               PROVE  \/ pc'[c][d].state = pc[c][d].state
                      \/ pc[c][d].state = "none" /\ pc'[c][d].state = "stable"
    OBVIOUS
  <2>1. PICK p \in Peer : p = pc[c][d]
    BY <1>1
  <2>2. pc'[c][d] = WithAdded(p) \/ pc'[c][d] = WithHeld(Created(p))
    BY <1>1, <2>1 DEF HandleCandidate
  <2>3. /\ WithAdded(p).state = p.state
        /\ WithHeld(Created(p)).state = p.state
             \/ (p.state = "none" /\ WithHeld(Created(p)).state = "stable")
    BY DEF WithAdded, WithHeld, Created, Peer
  <2>4. QED BY <2>1, <2>2, <2>3
<1>6. HandleOffer(c, d) /\ pc[c][d].state \in {"none", "stable"} =>
        ContinueWith(c, d, "createAnswer")
  <2>1. pc[c][d].state \in {"none", "stable"} => Created(pc[c][d]).state = "stable"
    BY <1>1 DEF Created, Peer
  <2>2. QED BY <2>1 DEF HandleOffer
<1>7. Start(c, d) => ops'[c][d] = <<"sendOffer">> \o Tail(ops[c][d]) /\ outbox'[c] = outbox[c]
  BY <1>2 DEF Start
<1>8. SendOffer(c, d) \/ SendAnswer(c, d) =>
        ops'[c][d] = Tail(ops[c][d]) /\ pc'[c][d] = pc[c][d]
  BY <1>3 DEF SendOffer, SendAnswer
<1>9. /\ HandleOffer(c, d) => outbox'[c] = outbox[c]
      /\ HandleOffer(c, d) /\ pc[c][d].state \in {"none", "stable"} =>
           ops'[c][d] = <<"createAnswer">> \o Tail(ops[c][d])
  BY <1>2, <1>6 DEF HandleOffer
<1>10. CreateAnswer(c, d) =>
         ops'[c][d] = <<"sendAnswer">> \o Tail(ops[c][d]) /\ outbox'[c] = outbox[c]
  BY <1>2 DEF CreateAnswer
<1>11. /\ HandleAnswer(c, d) => ops'[c][d] = Tail(ops[c][d]) /\ outbox'[c] = outbox[c]
       /\ HandleCandidate(c, d) => ops'[c][d] = Tail(ops[c][d]) /\ outbox'[c] = outbox[c]
  BY <1>3 DEF HandleAnswer, HandleCandidate
<1>12. QED BY <1>4, <1>5, <1>7, <1>8, <1>9, <1>10, <1>11

\* What an operation of c for d leaves to the exchanges of the two
LEMMA QueueTalk ==
    ASSUME RosterInv, MeshInv, RosterInv', MeshInv',
           NEW c \in Conn, NEW d \in Conn, c # d, QueueStep(c, d)
    PROVE  /\ \E x, y, x1 \in AnEnd, u, v, u1, v1 \in [Stage -> Nat] :
                /\ x.in = inbox[c] /\ x.out = outbox[c] /\ x.todo = ops[c][d]
                /\ x1.in = x.in /\ x1.out = outbox'[c] /\ x1.todo = ops'[c][d]
                /\ u = Stages(c, d, x, y) /\ v = Stages(d, c, y, x)
                /\ u1 = Stages(c, d, x1, y) /\ v1 = Stages(d, c, y, x1)
                /\ Talk(c, d) = u /\ Talk(d, c) = v /\ Talk(c, d)' = u1 /\ Talk(d, c)' = v1
           /\ participant' = participant
           /\ (Fits(d, c) <=> Fits(d, c)') /\ (Awaits(d, c) <=> Awaits(d, c)')
           /\ (Over(d, c) <=> Over(d, c)') /\ (Over(c, d) <=> Over(c, d)')
<1>1. PICK x, y, x1, y1 \in AnEnd :
              /\ x = End(c, d) /\ y = End(d, c) /\ x1 = End(c, d)' /\ y1 = End(d, c)'
              /\ Talk(c, d) = Stages(c, d, x, y) /\ Talk(d, c) = Stages(d, c, y, x)
              /\ Talk(c, d)' = Stages(c, d, x1, y1) /\ Talk(d, c)' = Stages(d, c, y1, x1)
  BY TalkIs
<1>2. /\ UNCHANGED <<inbox, participant, session, departed>>
      /\ ops'[d][c] = ops[d][c] /\ pc'[d][c] = pc[d][c] /\ outbox'[d] = outbox[d]
  BY DEF QueueStep
<1>3. y1 = y
  <2>1. y = [in |-> inbox[d], out |-> outbox[d], todo |-> ops[d][c]]
    BY <1>1 DEF End
  <2>2. y1 = [in |-> inbox'[d], out |-> outbox'[d], todo |-> ops'[d][c]]
    BY <1>1 DEF End
  <2>3. QED BY <1>2, <2>1, <2>2
<1>4. PICK u, v, u1, v1 \in [Stage -> Nat] :
              /\ u = Stages(c, d, x, y) /\ v = Stages(d, c, y, x)
              /\ u1 = Stages(c, d, x1, y) /\ v1 = Stages(d, c, y, x1)
  BY StagesTyped
<1>5. Talk(c, d) = u /\ Talk(d, c) = v /\ Talk(c, d)' = u1 /\ Talk(d, c)' = v1
  BY <1>1, <1>3, <1>4
<1>6. /\ x.in = inbox[c] /\ x.out = outbox[c] /\ x.todo = ops[c][d]
      /\ x1.in = x.in /\ x1.out = outbox'[c] /\ x1.todo = ops'[c][d]
  BY <1>1, <1>2 DEF End
<1>7. /\ (Fits(d, c) <=> Fits(d, c)') /\ (Awaits(d, c) <=> Awaits(d, c)')
      /\ (Over(d, c) <=> Over(d, c)') /\ (Over(c, d) <=> Over(c, d)')
  BY <1>2 DEF Fits, Awaits, Over
<1>8. QED BY <1>2, <1>4, <1>5, <1>6, <1>7

\* Two quiet ends keep both exchanges.
LEMMA BothQuiet ==
    ASSUME RosterInv, MeshInv, RosterInv', MeshInv', NEW c \in Conn, NEW d \in Conn,
           Exchange(c, d), Exchange(d, c), QuietEnd(c, d), QuietEnd(d, c)
    PROVE  Exchange(c, d)' /\ Exchange(d, c)'
BY QuietKeeps

\* An operation that sends nothing about a description is quiet.
LEMMA OperationQuiet ==
    ASSUME RosterInv, MeshInv, RosterInv', MeshInv',
           NEW c \in Conn, NEW d \in Conn, c # d, Exchange(c, d), Exchange(d, c),
           QueueStep(c, d),
           outbox'[c] = outbox[c] \/ outbox'[c] = Append(outbox[c], SignalRequest(d, "candidate")),
           ops'[c][d] = ops[c][d] \/ (ops[c][d] # <<>> /\ ops'[c][d] = Tail(ops[c][d])),
           \/ pc'[c][d].state = pc[c][d].state
           \/ /\ pc[c][d].state = "none" /\ pc'[c][d].state = "stable"
              /\ participant[d] # NoRoom
    PROVE  Exchange(c, d)' /\ Exchange(d, c)'
<1>1. QuietEnd(d, c)
  BY QueueElsewhere
<1>2. /\ UNCHANGED <<inbox, participant, session, departed>>
  BY DEF QueueStep
<1>3. Thins(inbox'[c], inbox[c], About(d)) /\ Thins(ops'[c][d], ops[c][d], Descriptive)
  BY <1>2 DEF Thins
<1>4. Thins(outbox'[c], outbox[c], Said(d))
  BY NotAbout DEF Thins
<1>5. EndThins(d, End(c, d)', End(c, d))
  BY <1>3, <1>4 DEF EndThins, End
<1>6. Over(c, d) => Over(c, d)'
  BY <1>2 DEF Over
<1>7. QuietEnd(c, d)
  BY <1>2, <1>5, <1>6 DEF QuietEnd
<1>8. QED BY <1>1, <1>7, BothQuiet

\* An operation keeps the exchanges it belongs to.
LEMMA OperationKeeps ==
    ASSUME RosterInv, MeshInv, RosterInv', MeshInv', NEW c \in Conn, NEW d \in Conn,
           Exchange(c, d), Exchange(d, c), c # d, RunOperation(c, d) \/ Gather(c, d)
    PROVE  Exchange(c, d)' /\ Exchange(d, c)'
<1>1. QueueStep(c, d)
  BY QueueSteps
<1>2. PICK x, y, x1 \in AnEnd, u, v, u1, v1 \in [Stage -> Nat] :
                /\ x.in = inbox[c] /\ x.out = outbox[c] /\ x.todo = ops[c][d]
                /\ x1.in = x.in /\ x1.out = outbox'[c] /\ x1.todo = ops'[c][d]
                /\ u = Stages(c, d, x, y) /\ v = Stages(d, c, y, x)
                /\ u1 = Stages(c, d, x1, y) /\ v1 = Stages(d, c, y, x1)
                /\ Talk(c, d) = u /\ Talk(d, c) = v /\ Talk(c, d)' = u1 /\ Talk(d, c)' = v1
  BY <1>1, QueueTalk
<1>3. /\ participant' = participant
      /\ (Fits(d, c) <=> Fits(d, c)') /\ (Awaits(d, c) <=> Awaits(d, c)')
      /\ (Over(d, c) <=> Over(d, c)') /\ (Over(c, d) <=> Over(c, d)')
  BY <1>1, QueueTalk
<1>4. /\ outbox \in [Conn -> Seq(RequestMessage)] /\ session[c] = "active"
      /\ ops[c][d] # <<>> => d \in roster[c]
  BY <1>1 DEF MeshInv, ClientsTyped, BusyAt, QueueStep
<1>5. ops[c][d] # <<>> => participant[d] # NoRoom
  BY <1>4, KnownJoined
<1>6. \A o \in {"sendOffer", "createAnswer", "sendAnswer"} : o \in Operation
  BY DEF Operation
<1>7. \A k \in Stage : /\ u[k] # 0 => Stands(c, d, k)
                       /\ v[k] # 0 => Stands(d, c, k)
  BY <1>2 DEF Exchange
<1>8. CASE Start(c, d)
  <2>1. x1.todo = <<"sendOffer">> \o Tail(x.todo)
    BY <1>2, <1>8, OperationEffects
  <2>2. x.todo # <<>> /\ Head(x.todo) = "start" /\ x1.out = x.out /\ Awaits(c, d)'
    BY <1>2, <1>8, OperationEffects DEF Start, Running, Awaits
  <2>3. Passes(u1, u, 2) /\ Fades(v1, v)
    BY <1>2, <1>6, <2>1, <2>2, ContinuePasses
  <2>4. 2 \in Stage /\ 3 = 2 + 1 /\ Stands(c, d, 2)
    BY <1>7, <2>3 DEF Stage, Passes
  <2>5. Stands(c, d, 3)'
    BY <1>3, <2>2, <2>4 DEF Stands
  <2>6. QED BY <1>2, <1>3, <2>3, <2>4, <2>5, PassKeeps
<1>9. CASE SendOffer(c, d)
  <2>1. /\ x.todo # <<>> /\ Head(x.todo) = "sendOffer" /\ x1.todo = Tail(x.todo)
        /\ pc'[c][d] = pc[c][d] /\ Send(c, SignalRequest(d, "offer"))
    BY <1>2, <1>9, OperationEffects DEF SendOffer, Running
  <2>2. CASE link[c] = "up"
    <3>1. x1.out = Append(x.out, SignalRequest(d, "offer"))
      BY <1>2, <1>4, <2>1, <2>2 DEF Send
    <3>2. Passes(u1, u, 3) /\ Fades(v1, v)
      BY <1>2, <2>1, <3>1, SendPasses
    <3>3. 3 \in Stage /\ 4 = 3 + 1 /\ Stands(c, d, 3)
      BY <1>7, <3>2 DEF Stage, Passes
    <3>4. Awaits(c, d) <=> Awaits(c, d)'
      BY <2>1 DEF Awaits
    <3>5. Stands(c, d, 4)'
      BY <1>3, <3>3, <3>4 DEF Stands
    <3>6. QED BY <1>2, <1>3, <3>2, <3>3, <3>5, PassKeeps
  <2>3. CASE link[c] # "up"
    <3>1. outbox'[c] = outbox[c]
      BY <2>1, <2>3 DEF Send
    <3>2. QED BY <1>1, <1>2, <2>1, <3>1, OperationQuiet
  <2>4. QED BY <2>2, <2>3
<1>10. CASE HandleOffer(c, d)
  <2>1. x.todo # <<>> /\ Head(x.todo) = "offer" /\ x1.out = x.out
    BY <1>2, <1>10, OperationEffects DEF HandleOffer, Running
  <2>2. Times(x.todo, "offer") # 0
    <3>1. x.todo \in Seq(Operation) /\ "start" \in Operation /\ "offer" \in Descriptive
      BY DEF AnEnd, Operation, Descriptive
    <3>2. Times(Tail(x.todo), "offer") \in Nat /\ Times(x.todo, "offer") = Times(Tail(x.todo), "offer") + 1
      BY <2>1, <3>1, QueueCounts
    <3>3. QED BY <3>2
  <2>3. 6 \in Stage /\ 7 = 6 + 1 /\ Stands(d, c, 6)
    BY <1>2, <1>7, <2>2 DEF Stage, Stages
  <2>4. pc[c][d].state \in {"none", "stable"}
    BY <2>3 DEF Stands, Fits
  <2>5. x1.todo = <<"createAnswer">> \o Tail(x.todo)
    BY <1>2, <1>10, <2>4, OperationEffects
  <2>6. Passes(v1, v, 6) /\ Fades(u1, u)
    BY <1>2, <1>6, <2>1, <2>5, ContinuePasses
  <2>7. Stands(d, c, 7)'
    BY <1>3, <2>3 DEF Stands
  <2>8. QED BY <1>2, <1>3, <2>3, <2>6, <2>7, PassKeeps
<1>11. CASE CreateAnswer(c, d)
  <2>1. x1.todo = <<"sendAnswer">> \o Tail(x.todo)
    BY <1>2, <1>11, OperationEffects
  <2>2. x.todo # <<>> /\ Head(x.todo) = "createAnswer" /\ x1.out = x.out
    BY <1>2, <1>11, OperationEffects DEF CreateAnswer, Running
  <2>3. Passes(v1, v, 7) /\ Fades(u1, u)
    BY <1>2, <1>6, <2>1, <2>2, ContinuePasses
  <2>4. 7 \in Stage /\ 8 = 7 + 1 /\ Stands(d, c, 7)
    BY <1>7, <2>3 DEF Stage, Passes
  <2>5. Stands(d, c, 8)'
    BY <1>3, <2>4 DEF Stands
  <2>6. QED BY <1>2, <1>3, <2>3, <2>4, <2>5, PassKeeps
<1>12. CASE SendAnswer(c, d)
  <2>1. /\ x.todo # <<>> /\ Head(x.todo) = "sendAnswer" /\ x1.todo = Tail(x.todo)
        /\ pc'[c][d] = pc[c][d] /\ Send(c, SignalRequest(d, "answer"))
    BY <1>2, <1>12, OperationEffects DEF SendAnswer, Running
  <2>2. CASE link[c] = "up"
    <3>1. x1.out = Append(x.out, SignalRequest(d, "answer"))
      BY <1>2, <1>4, <2>1, <2>2 DEF Send
    <3>2. Passes(v1, v, 8) /\ Fades(u1, u)
      BY <1>2, <2>1, <3>1, SendPasses
    <3>3. 8 \in Stage /\ 9 = 8 + 1 /\ Stands(d, c, 8)
      BY <1>7, <3>2 DEF Stage, Passes
    <3>4. Stands(d, c, 9)'
      BY <1>3, <3>3 DEF Stands
    <3>5. QED BY <1>2, <1>3, <3>2, <3>3, <3>4, PassKeeps
  <2>3. CASE link[c] # "up"
    <3>1. outbox'[c] = outbox[c]
      BY <2>1, <2>3 DEF Send
    <3>2. QED BY <1>1, <1>2, <2>1, <3>1, OperationQuiet
  <2>4. QED BY <2>2, <2>3
<1>13. CASE HandleAnswer(c, d)
  <2>1. x.todo # <<>> /\ Head(x.todo) = "answer" /\ x1.todo = Tail(x.todo) /\ x1.out = x.out
    BY <1>2, <1>13, OperationEffects DEF HandleAnswer, Running
  <2>2. Passes(u1, u, 11) /\ Fades(v1, v)
    BY <1>2, <2>1, AnswerPasses
  <2>3. 11 \in Stage /\ ~(11 < 11)
    BY DEF Stage
  <2>4. QED BY <1>2, <1>3, <2>2, <2>3, PassKeeps
<1>14. CASE HandleCandidate(c, d)
  <2>1. ops[c][d] # <<>>
    BY <1>14 DEF HandleCandidate, Running
  <2>2. QED BY <1>1, <1>5, <1>14, <2>1, OperationEffects, OperationQuiet
<1>15. CASE Gather(c, d)
  <2>1. pc[c][d] \in Peer /\ pc \in [Conn -> [Conn -> Peer]]
    BY DEF MeshInv, ClientsTyped
  <2>2. pc'[c][d].state = pc[c][d].state
    BY <1>15, <2>1 DEF Gather, Peer
  <2>3. /\ ops'[c][d] = ops[c][d]
        /\ \/ outbox'[c] = outbox[c]
           \/ outbox'[c] = Append(outbox[c], SignalRequest(d, "candidate"))
    BY <1>4, <1>15 DEF Gather, Send
  <2>4. QED BY <1>1, <2>2, <2>3, OperationQuiet
<1>16. QED BY <1>8, <1>9, <1>10, <1>11, <1>12, <1>13, <1>14, <1>15 DEF RunOperation

\* How often a message is in a sequence that grows or loses its head
LEMMA TimesGrow ==
    ASSUME NEW T, NEW s \in Seq(T)
    PROVE  /\ \A m : Times(s, m) \in Nat
           /\ \A m, z : Times(Append(s, z), m) = IF m = z THEN Times(s, m) + 1 ELSE Times(s, m)
           /\ s # <<>> => \A m : /\ Times(Tail(s), m) \in Nat
                                 /\ Times(s, m) = IF m = Head(s) THEN Times(Tail(s), m) + 1
                                                              ELSE Times(Tail(s), m)
<1>1. \A m : Num(s, {m}) \in Nat
  BY NumIs
<1>2. \A m, z : Num(Append(s, z), {m}) = IF z \in {m} THEN Num(s, {m}) + 1 ELSE Num(s, {m})
  BY NumAppend
<1>3. ASSUME s # <<>>
      PROVE  \A m : /\ Num(Tail(s), {m}) \in Nat
                    /\ Num(s, {m}) = IF Head(s) \in {m} THEN Num(Tail(s), {m}) + 1
                                                        ELSE Num(Tail(s), {m})
  <2>1. Tail(s) \in Seq(T)
    BY <1>3
  <2>2. \A m : Num(Tail(s), {m}) \in Nat
    BY <2>1, NumIs
  <2>3. \A m : Num(s, {m}) = IF Head(s) \in {m} THEN Num(Tail(s), {m}) + 1
                                                ELSE Num(Tail(s), {m})
    BY <1>3, NumTail
  <2>4. QED BY <2>2, <2>3
<1>4. QED BY <1>1, <1>2, <1>3 DEF Times

\* Signals and requests that differ
LEMMA SignalsDiffer ==
    ASSUME NEW c, NEW d
    PROVE  /\ Signal(c, "offer") # Signal(d, "answer")
           /\ SignalRequest(c, "offer") # SignalRequest(d, "answer")
           /\ Signal(c, "offer") \notin Lists(d) /\ Signal(c, "answer") \notin Lists(d)
BY DEF Signal, SignalRequest, Lists

\* What the server relays is the next stage.
LEMMA RelayPasses ==
    ASSUME NEW c, NEW d, NEW x \in AnEnd, NEW y \in AnEnd, NEW x1 \in AnEnd, NEW y1 \in AnEnd,
           NEW p \in {"offer", "answer"},
           x.out # <<>>, Head(x.out) = SignalRequest(d, p), x1.out = Tail(x.out),
           x1.in = x.in, x1.todo = x.todo,
           y1.in = Append(y.in, Signal(c, p)), y1.out = y.out, y1.todo = y.todo,
           NEW u, u = Stages(c, d, x, y), NEW u1, u1 = Stages(c, d, x1, y1),
           NEW v, v = Stages(d, c, y, x), NEW v1, v1 = Stages(d, c, y1, x1)
    PROVE  /\ p = "offer" => Passes(u1, u, 4) /\ Fades(v1, v)
           /\ p = "answer" => Passes(v1, v, 9) /\ Fades(u1, u)
<1>1. x.out \in Seq(RequestMessage) /\ y.in \in Seq(Message)
  BY DEF AnEnd
<1>2. u \in [Stage -> Nat] /\ v \in [Stage -> Nat] /\ u1 \in [Stage -> Nat] /\ v1 \in [Stage -> Nat]
  BY StagesTyped
<1>3. /\ \A k \in Stage \ {4, 5} : u1[k] = u[k]
      /\ \A k \in Stage \ {1, 9, 10} : v1[k] = v[k]
  BY DEF Stages, Stage
<1>4. /\ u[4] = Times(x.out, SignalRequest(d, "offer"))
      /\ u1[4] = Times(x1.out, SignalRequest(d, "offer"))
      /\ u[5] = Times(y.in, Signal(c, "offer")) /\ u1[5] = Times(y1.in, Signal(c, "offer"))
      /\ v[1] = Num(y.in, Lists(c)) /\ v1[1] = Num(y1.in, Lists(c))
      /\ v[9] = Times(x.out, SignalRequest(d, "answer"))
      /\ v1[9] = Times(x1.out, SignalRequest(d, "answer"))
      /\ v[10] = Times(y.in, Signal(c, "answer")) /\ v1[10] = Times(y1.in, Signal(c, "answer"))
  BY DEF Stages
<1>5. /\ Signal(c, "offer") # Signal(c, "answer")
      /\ SignalRequest(d, "offer") # SignalRequest(d, "answer")
      /\ Signal(c, p) \notin Lists(c)
  BY SignalsDiffer
<1>6. v1[1] = v[1]
  BY <1>1, <1>4, <1>5, NumAppend
<1>7. PICK s \in Seq(RequestMessage), t \in Seq(Message) : s = x.out /\ t = y.in
  BY <1>1
<1>8. /\ \A m : Times(Tail(s), m) \in Nat
      /\ \A m : Times(s, m) = IF m = Head(s) THEN Times(Tail(s), m) + 1 ELSE Times(Tail(s), m)
      /\ \A m, z : Times(Append(t, z), m) = IF m = z THEN Times(t, m) + 1 ELSE Times(t, m)
  BY <1>7, TimesGrow
<1>9. CASE p = "offer"
  <2>1. u[4] = u1[4] + 1 /\ v1[9] = v[9]
    BY <1>4, <1>5, <1>7, <1>8, <1>9
  <2>2. u1[5] = u[5] + 1 /\ v1[10] = v[10]
    BY <1>4, <1>5, <1>7, <1>8, <1>9
  <2>3. \A k \in Stage : v1[k] = v[k]
    BY <1>3, <1>6, <2>1, <2>2
  <2>4. \A k \in Stage : k # 4 /\ k # 5 => u1[k] = u[k]
    BY <1>3, <1>6, <2>1, <2>2
  <2>5. Moves(u1, u, 4) /\ \A k \in Stage : v1[k] = v[k]
    BY <2>3, <2>4, <2>1, <2>2 DEF Moves
  <2>6. 4 \in Stage
    BY DEF Stage
  <2>7. Passes(u1, u, 4)
    BY <1>2, <2>5, <2>6, PassesIf
  <2>8. Fades(v1, v)
    BY <1>2, <2>5, FadesIf
  <2>9. QED BY <1>9, <2>7, <2>8
<1>10. CASE p = "answer"
  <2>1. v[9] = v1[9] + 1 /\ u1[4] = u[4]
    BY <1>4, <1>5, <1>7, <1>8, <1>10
  <2>2. v1[10] = v[10] + 1 /\ u1[5] = u[5]
    BY <1>4, <1>5, <1>7, <1>8, <1>10
  <2>3. \A k \in Stage : u1[k] = u[k]
    BY <1>3, <1>6, <2>1, <2>2
  <2>4. \A k \in Stage : k # 9 /\ k # 10 => v1[k] = v[k]
    BY <1>3, <1>6, <2>1, <2>2
  <2>5. Moves(v1, v, 9) /\ \A k \in Stage : u1[k] = u[k]
    BY <2>3, <2>4, <2>1, <2>2 DEF Moves
  <2>6. 9 \in Stage
    BY DEF Stage
  <2>7. Passes(v1, v, 9)
    BY <1>2, <2>5, <2>6, PassesIf
  <2>8. Fades(u1, u)
    BY <1>2, <2>5, FadesIf
  <2>9. QED BY <1>10, <2>7, <2>8
<1>11. QED BY <1>9, <1>10

\* A signal that is queued for its peer is the next stage.
LEMMA QueuedPasses ==
    ASSUME NEW c, NEW d, NEW x \in AnEnd, NEW y \in AnEnd, NEW x1 \in AnEnd,
           NEW p \in {"offer", "answer"},
           x.in # <<>>, Head(x.in) = Signal(d, p), x1.in = Tail(x.in), x1.out = x.out,
           x1.todo = Append(x.todo, p),
           NEW u, u = Stages(c, d, x, y), NEW u1, u1 = Stages(c, d, x1, y),
           NEW v, v = Stages(d, c, y, x), NEW v1, v1 = Stages(d, c, y, x1)
    PROVE  /\ p = "offer" => Passes(v1, v, 5) /\ Fades(u1, u)
           /\ p = "answer" => Passes(u1, u, 10) /\ Fades(v1, v)
<1>1. x.in \in Seq(Message) /\ x.todo \in Seq(Operation)
  BY DEF AnEnd
<1>2. u \in [Stage -> Nat] /\ v \in [Stage -> Nat] /\ u1 \in [Stage -> Nat] /\ v1 \in [Stage -> Nat]
  BY StagesTyped
<1>3. /\ \A k \in Stage \ {1, 2, 3, 10, 11} : u1[k] = u[k]
      /\ \A k \in Stage \ {5, 6, 7, 8} : v1[k] = v[k]
  BY DEF Stages, Stage
<1>4. /\ u[1] = Num(x.in, Lists(d)) /\ u1[1] = Num(x1.in, Lists(d))
      /\ u[2] = Times(x.todo, "start") /\ u1[2] = Times(x1.todo, "start")
      /\ u[3] = Times(x.todo, "sendOffer") /\ u1[3] = Times(x1.todo, "sendOffer")
      /\ u[10] = Times(x.in, Signal(d, "answer")) /\ u1[10] = Times(x1.in, Signal(d, "answer"))
      /\ u[11] = Times(x.todo, "answer") /\ u1[11] = Times(x1.todo, "answer")
      /\ v[5] = Times(x.in, Signal(d, "offer")) /\ v1[5] = Times(x1.in, Signal(d, "offer"))
      /\ v[6] = Times(x.todo, "offer") /\ v1[6] = Times(x1.todo, "offer")
      /\ v[7] = Times(x.todo, "createAnswer") /\ v1[7] = Times(x1.todo, "createAnswer")
      /\ v[8] = Times(x.todo, "sendAnswer") /\ v1[8] = Times(x1.todo, "sendAnswer")
  BY DEF Stages
<1>5. Signal(d, "offer") # Signal(d, "answer") /\ Signal(d, p) \notin Lists(d)
  BY SignalsDiffer
<1>6. u1[1] = u[1]
  BY <1>1, <1>4, <1>5, NumTail
<1>7. PICK s \in Seq(Message), t \in Seq(Operation) : s = x.in /\ t = x.todo
  BY <1>1
<1>8. /\ \A m : Times(Tail(s), m) \in Nat
      /\ \A m : Times(s, m) = IF m = Head(s) THEN Times(Tail(s), m) + 1 ELSE Times(Tail(s), m)
      /\ \A m, z : Times(Append(t, z), m) = IF m = z THEN Times(t, m) + 1 ELSE Times(t, m)
  BY <1>7, TimesGrow
<1>9. \A k : Times(x1.todo, k) = IF k = p THEN Times(x.todo, k) + 1 ELSE Times(x.todo, k)
  BY <1>7, <1>8
<1>10. \A m : Times(x.in, m) = IF m = Signal(d, p) THEN Times(x1.in, m) + 1 ELSE Times(x1.in, m)
  BY <1>7, <1>8
<1>11. \A m : Times(x1.in, m) \in Nat
  BY <1>7, <1>8
<1>12. u1[2] = u[2] /\ u1[3] = u[3] /\ v1[7] = v[7] /\ v1[8] = v[8]
  BY <1>4, <1>9
<1>13. CASE p = "offer"
  <2>1. v[5] = v1[5] + 1 /\ u1[10] = u[10]
    BY <1>4, <1>5, <1>10, <1>13
  <2>2. v1[6] = v[6] + 1 /\ u1[11] = u[11]
    BY <1>4, <1>9, <1>13
  <2>3. \A k \in Stage : u1[k] = u[k]
    BY <1>3, <1>6, <1>12, <2>1, <2>2
  <2>4. \A k \in Stage : k # 5 /\ k # 6 => v1[k] = v[k]
    BY <1>3, <1>6, <1>12, <2>1, <2>2
  <2>5. Moves(v1, v, 5) /\ \A k \in Stage : u1[k] = u[k]
    BY <2>3, <2>4, <2>1, <2>2 DEF Moves
  <2>6. 5 \in Stage
    BY DEF Stage
  <2>7. Passes(v1, v, 5)
    BY <1>2, <2>5, <2>6, PassesIf
  <2>8. Fades(u1, u)
    BY <1>2, <2>5, FadesIf
  <2>9. QED BY <1>13, <2>7, <2>8
<1>14. CASE p = "answer"
  <2>1. u[10] = u1[10] + 1 /\ v1[5] = v[5]
    BY <1>4, <1>5, <1>10, <1>14
  <2>2. u1[11] = u[11] + 1 /\ v1[6] = v[6]
    BY <1>4, <1>9, <1>14
  <2>3. \A k \in Stage : v1[k] = v[k]
    BY <1>3, <1>6, <1>12, <2>1, <2>2
  <2>4. \A k \in Stage : k # 10 /\ k # 11 => u1[k] = u[k]
    BY <1>3, <1>6, <1>12, <2>1, <2>2
  <2>5. Moves(u1, u, 10) /\ \A k \in Stage : v1[k] = v[k]
    BY <2>3, <2>4, <2>1, <2>2 DEF Moves
  <2>6. 10 \in Stage
    BY DEF Stage
  <2>7. Passes(u1, u, 10)
    BY <1>2, <2>5, <2>6, PassesIf
  <2>8. Fades(v1, v)
    BY <1>2, <2>5, FadesIf
  <2>9. QED BY <1>14, <2>7, <2>8
<1>15. QED BY <1>13, <1>14

\* One operation in a queue
LEMMA TimesStart ==
    ASSUME NEW k
    PROVE  Times(<<"start">>, k) = IF k = "start" THEN 1 ELSE 0
<1>1. <<"start">> = Append(<<>>, "start") /\ <<>> \in Seq(Operation)
  OBVIOUS
<1>2. PICK s \in Seq(Operation) : s = <<>>
  BY <1>1
<1>3. Times(<<>>, k) = 0
  <2>1. \A S : Num(<<>>, S) = 0
    BY <1>2, NumIs
  <2>2. QED BY <2>1 DEF Times
<1>4. Times(Append(s, "start"), k) = IF k = "start" THEN Times(s, k) + 1 ELSE Times(s, k)
  BY TimesGrow
<1>5. QED BY <1>1, <1>3, <1>2, <1>4

\* The list of the room makes a session start.
LEMMA ListPasses ==
    ASSUME NEW c, NEW d, NEW x \in AnEnd, NEW y \in AnEnd, NEW x1 \in AnEnd,
           x.in # <<>>, Head(x.in) \in Lists(d), x1.in = Tail(x.in), x1.out = x.out,
           x1.todo = <<"start">>,
           NEW u, u = Stages(c, d, x, y), NEW u1, u1 = Stages(c, d, x1, y),
           NEW v, v = Stages(d, c, y, x), NEW v1, v1 = Stages(d, c, y, x1)
    PROVE  Passes(u1, u, 1) /\ Fades(v1, v)
<1>1. x.in \in Seq(Message) /\ x1.in \in Seq(Message)
  BY DEF AnEnd
<1>2. u \in [Stage -> Nat] /\ v \in [Stage -> Nat] /\ u1 \in [Stage -> Nat] /\ v1 \in [Stage -> Nat]
  BY StagesTyped
<1>3. /\ \A k \in Stage \ {1, 2, 3, 10, 11} : u1[k] = u[k]
      /\ \A k \in Stage \ {5, 6, 7, 8} : v1[k] = v[k]
  BY DEF Stages, Stage
<1>4. /\ u[1] = Num(x.in, Lists(d)) /\ u1[1] = Num(x1.in, Lists(d))
      /\ u[10] = Times(x.in, Signal(d, "answer")) /\ u1[10] = Times(x1.in, Signal(d, "answer"))
      /\ v[5] = Times(x.in, Signal(d, "offer")) /\ v1[5] = Times(x1.in, Signal(d, "offer"))
      /\ u1[2] = Times(<<"start">>, "start")
      /\ u1[3] = Times(<<"start">>, "sendOffer") /\ u1[11] = Times(<<"start">>, "answer")
      /\ v1[6] = Times(<<"start">>, "offer") /\ v1[7] = Times(<<"start">>, "createAnswer")
      /\ v1[8] = Times(<<"start">>, "sendAnswer")
  BY DEF Stages
<1>5. u1[2] = 1 /\ u1[3] = 0 /\ u1[11] = 0 /\ v1[6] = 0 /\ v1[7] = 0 /\ v1[8] = 0
  BY <1>4, TimesStart
<1>6. Head(x.in) # Signal(d, "answer") /\ Head(x.in) # Signal(d, "offer")
  BY SignalsDiffer
<1>7. u[1] = u1[1] + 1
  BY <1>1, <1>4, NumTail
<1>8. u1[10] = u[10] /\ v1[5] = v[5]
  <2>1. PICK s \in Seq(Message) : s = x.in
    BY <1>1
  <2>2. \A m : Times(s, m) = IF m = Head(s) THEN Times(Tail(s), m) + 1 ELSE Times(Tail(s), m)
    BY <2>1, TimesGrow
  <2>3. QED BY <1>4, <1>6, <2>1, <2>2
<1>9. \A k \in Stage : u[k] \in Nat /\ v[k] \in Nat /\ u1[k] \in Nat /\ v1[k] \in Nat
  BY <1>2
<1>10. u[1] # 0 /\ u1[1] < u[1]
  <2>1. u[1] \in Nat /\ u1[1] \in Nat
    BY <1>9 DEF Stage
  <2>2. QED BY <1>7, <2>1
<1>11. \A k \in Stage \ {1} : u1[k] <= IF k = 1 + 1 THEN u[k] + 1 ELSE u[k]
  <2> TAKE k \in Stage \ {1}
  <2>1. u[k] \in Nat /\ u1[k] \in Nat
    BY <1>9
  <2>2. CASE k \in {2, 3, 11}
    BY <1>5, <2>1, <2>2
  <2>3. CASE k \notin {2, 3, 11}
    BY <1>3, <1>8, <2>1, <2>3
  <2>4. QED BY <2>2, <2>3
<1>12. \A k \in Stage : v1[k] <= v[k]
  <2> TAKE k \in Stage
  <2>1. v[k] \in Nat /\ v1[k] \in Nat
    BY <1>9
  <2>2. CASE k \in {6, 7, 8}
    BY <1>5, <2>1, <2>2
  <2>3. CASE k \notin {6, 7, 8}
    BY <1>3, <1>8, <2>1, <2>3
  <2>4. QED BY <2>2, <2>3
<1>13. QED BY <1>10, <1>11, <1>12 DEF Passes, Fades

-----------------------------------------------------------------------------
(* The server reads a request. *)

\* What an end has received is seen at three stages.
LEMMA StagesIn ==
    ASSUME NEW c, NEW d, NEW x, NEW y, NEW x1, x1.out = x.out, x1.todo = x.todo
    PROVE  /\ \A k \in Stage \ {1, 10} : Stages(c, d, x1, y)[k] = Stages(c, d, x, y)[k]
           /\ \A k \in Stage \ {5} : Stages(d, c, y, x1)[k] = Stages(d, c, y, x)[k]
BY DEF Stages, Stage

\* The list of a room with d in it is added to the end x.
ListAdded(d, x1, x) ==
    /\ \E m \in Lists(d) : x1.in = Append(x.in, m)
    /\ Thins(x1.out, x.out, Said(d)) /\ x1.todo = x.todo

\* Nothing is under way either way.
Silent(u, v) == \A k \in Stage : u[k] = 0 /\ v[k] = 0

\* Nothing is under way but, perhaps, a list of participants.
Listed(u, v) ==
    /\ Single(u, v) /\ Single(v, u)
    /\ \A k \in Stage : v[k] = 0 /\ (u[k] # 0 => k = 1)

\* Where nothing was under way, it is the first stage.
LEMMA ListEnters ==
    ASSUME NEW c, NEW d, NEW x \in AnEnd, NEW y \in AnEnd, NEW x1 \in AnEnd, NEW y1 \in AnEnd,
           ListAdded(d, x1, x), EndThins(c, y1, y),
           Silent(Stages(c, d, x, y), Stages(d, c, y, x))
    PROVE  Listed(Stages(c, d, x1, y1), Stages(d, c, y1, x1))
<1>1. PICK m \in Lists(d) : x1.in = Append(x.in, m)
  BY DEF ListAdded
<1>2. PICK u, v, u1, v1 : /\ u = Stages(c, d, x, y) /\ v = Stages(d, c, y, x)
                          /\ u1 = Stages(c, d, x1, y1) /\ v1 = Stages(d, c, y1, x1)
  OBVIOUS
<1>3. \A k \in Stage : u[k] = 0 /\ v[k] = 0
  BY <1>2 DEF Silent
<1>4. PICK x0 \in AnEnd : x0 = [in |-> x.in, out |-> x1.out, todo |-> x.todo]
  BY DEF AnEnd
<1>5. EndThins(d, x0, x)
  BY <1>4 DEF EndThins, Thins, ListAdded
<1>6. PICK u0, v0 \in [Stage -> Nat] : u0 = Stages(c, d, x0, y1) /\ v0 = Stages(d, c, y1, x0)
  BY StagesTyped
<1>7. Fades(u0, u) /\ Fades(v0, v)
  BY <1>2, <1>5, <1>6, ThinsFades
<1>8. \A k \in Stage : u0[k] = 0 /\ v0[k] = 0
  <2> TAKE k \in Stage
  <2>1. u0[k] \in Nat /\ v0[k] \in Nat /\ u0[k] <= 0 /\ v0[k] <= 0
    BY <1>3, <1>6, <1>7 DEF Fades
  <2>2. QED BY <2>1
<1>9. x0.in = x.in /\ x0.out = x1.out /\ x0.todo = x1.todo
  BY <1>4 DEF ListAdded
<1>10. \A k \in Stage \ {1, 10} : u1[k] = u0[k]
  BY <1>2, <1>6, <1>9, StagesIn
<1>11. \A k \in Stage \ {5} : v1[k] = v0[k]
  BY <1>2, <1>6, <1>9, StagesIn
<1>12. /\ u0[1] = Num(x.in, Lists(d)) /\ u1[1] = Num(x1.in, Lists(d))
      /\ u0[10] = Times(x.in, Signal(d, "answer")) /\ u1[10] = Times(x1.in, Signal(d, "answer"))
      /\ v0[5] = Times(x.in, Signal(d, "offer")) /\ v1[5] = Times(x1.in, Signal(d, "offer"))
  BY <1>2, <1>6, <1>9 DEF Stages
<1>13. PICK s \in Seq(Message) : s = x.in
  BY DEF AnEnd
<1>14. u1[1] = u0[1] + 1
  BY <1>1, <1>12, <1>13, NumAppend
<1>15. m # Signal(d, "answer") /\ m # Signal(d, "offer")
  BY SignalsDiffer
<1>16. \A z : Times(Append(s, m), z) = IF z = m THEN Times(s, z) + 1 ELSE Times(s, z)
  BY <1>13, TimesGrow
<1>17. u1[10] = u0[10] /\ v1[5] = v0[5]
  BY <1>1, <1>12, <1>13, <1>15, <1>16
<1>18. 1 \in Stage /\ 5 \in Stage /\ 10 \in Stage
  BY DEF Stage
<1>19. u1[1] = 1 /\ \A k \in Stage : v1[k] = 0 /\ (k # 1 => u1[k] = 0)
  BY <1>8, <1>10, <1>11, <1>14, <1>17, <1>18
<1>20. QED BY <1>2, <1>19 DEF Single, Listed

\* What a read changes of clients, whatever the request
LEMMA ReadEffects ==
    ASSUME RosterInv, MeshInv, NEW c \in Conn, ServerReads(c)
    PROVE  /\ UNCHANGED <<session, departed, pc, ops>>
           /\ inbox \in [Conn -> Seq(Message)]
           /\ outbox[c] # <<>> /\ outbox'[c] = Tail(outbox[c])
           /\ \A x \in Conn \ {c} : outbox'[x] = outbox[x]
           /\ \A x, y \in Conn : Thins(outbox'[x], outbox[x], Said(y))
           /\ Handle(c, Head(outbox[c]))
<1>1. /\ UNCHANGED <<session, departed, pc, ops>> /\ outbox[c] # <<>>
      /\ outbox' = [outbox EXCEPT ![c] = Tail(@)] /\ Handle(c, Head(outbox[c]))
      /\ outbox \in [Conn -> Seq(RequestMessage)] /\ inbox \in [Conn -> Seq(Message)]
  BY DEF ServerReads, MeshInv, ClientsTyped, RosterInv, RoomsInv, TypeOK
<1>2. outbox'[c] = Tail(outbox[c]) /\ \A x \in Conn \ {c} : outbox'[x] = outbox[x]
  BY <1>1
<1>3. \A x, y \in Conn : Thins(outbox'[x], outbox[x], Said(y))
  BY <1>1, <1>2 DEF Thins
<1>4. QED BY <1>1, <1>2, <1>3

\* A connection joins.
LEMMA JoinExchanges ==
    ASSUME RosterInv, MeshInv, RosterInv', MeshInv', NEW c \in Conn, NEW r \in RoomId,
           ServerReads(c), Join(c, r), NEW x \in Conn, NEW y \in Conn, x # c
    PROVE  /\ QuietEnd(x, y)
           /\ Exchange(c, x) /\ Exchange(x, c) => Exchange(c, x)' /\ Exchange(x, c)'
<1>1. /\ UNCHANGED <<session, departed, pc, ops>>
      /\ inbox \in [Conn -> Seq(Message)] /\ outbox'[c] = Tail(outbox[c])
      /\ \A z, w \in Conn : Thins(outbox'[z], outbox[z], Said(w))
  BY ReadEffects
<1>2. PICK S : S = Members(r) \cup {c}
  OBVIOUS
<1>3. /\ participant' = [participant EXCEPT ![c] = r] /\ participant[c] = NoRoom
      /\ inbox'[c] = inbox[c] \/ inbox'[c] = Append(inbox[c], RoomJoined(S))
      /\ inbox'[x] = inbox[x] \/ inbox'[x] = Append(inbox[x], Introduction(c))
  BY <1>2 DEF Join, EnterRoom
<1>4. participant \in [Conn -> RoomId \cup {NoRoom}] /\ NoRoom \notin RoomId
  BY SignalingAssumption DEF RosterInv, RoomsInv, TypeOK
<1>5. /\ participant'[x] = participant[x] /\ participant'[c] = r /\ r # NoRoom
      /\ participant'[c] # NoRoom
  BY <1>3, <1>4
<1>6. ASSUME NEW z \in Conn PROVE QuietEnd(x, z)
  <2>1. Thins(inbox'[x], inbox[x], About(z))
    BY <1>3, NotAbout DEF Thins
  <2>2. QED BY <1>1, <1>5, <2>1, AwayQuiet
<1>7. SUFFICES ASSUME Exchange(c, x), Exchange(x, c)
               PROVE  Exchange(c, x)' /\ Exchange(x, c)'
  BY <1>6
<1>8. CASE inbox'[c] = inbox[c] \/ x \notin S
  <2>1. Thins(inbox'[c], inbox[c], About(x))
    BY <1>3, <1>8, NotAbout DEF Thins
  <2>2. QuietEnd(c, x)
    BY <1>1, <1>5, <2>1, AwayQuiet
  <2>3. QED BY <1>6, <1>7, <2>2, BothQuiet
<1>9. CASE inbox'[c] = Append(inbox[c], RoomJoined(S)) /\ x \in S
  <2>1. participant[x] # NoRoom
    <3>1. x \in Members(r)
      BY <1>2, <1>9
    <3>2. RoomsExact
      BY DEF RosterInv, RoomsInv
    <3>3. QED BY <1>4, <3>1, <3>2 DEF RoomsExact
  <2>2. PICK a, b, a1, b1 \in AnEnd :
              /\ a = End(c, x) /\ b = End(x, c) /\ a1 = End(c, x)' /\ b1 = End(x, c)'
              /\ Talk(c, x) = Stages(c, x, a, b) /\ Talk(x, c) = Stages(x, c, b, a)
              /\ Talk(c, x)' = Stages(c, x, a1, b1) /\ Talk(x, c)' = Stages(x, c, b1, a1)
    BY TalkIs
  <2>3. /\ a.in = inbox[c] /\ a.out = outbox[c] /\ a.todo = ops[c][x]
        /\ a1.in = inbox'[c] /\ a1.out = outbox'[c] /\ a1.todo = ops[c][x]
    BY <1>1, <2>2 DEF End
  <2>4. EndThins(c, b1, b)
    BY <1>6, <2>2 DEF QuietEnd
  <2>5. Silent(Stages(c, x, a, b), Stages(x, c, b, a))
    <3>1. \A k \in Stage : Talk(c, x)[k] = 0 /\ Talk(x, c)[k] = 0
      BY <1>3, <1>7 DEF Exchange, Stands
    <3>2. QED BY <2>2, <3>1 DEF Silent
  <2>6. PICK m : m = RoomJoined(S)
    OBVIOUS
  <2>7. m \in Lists(x)
    <3>1. S \subseteq Conn
      BY <1>2 DEF RosterInv, RoomsInv, TypeOK, Members
    <3>2. m \in Message
      BY <2>6, <3>1, MessageTypes
    <3>3. QED BY <1>9, <2>6, <3>2 DEF Lists, RoomJoined
  <2>8. ListAdded(x, a1, a)
    <3>1. a1.in = Append(a.in, m) /\ Thins(a1.out, a.out, Said(x)) /\ a1.todo = a.todo
      BY <1>1, <1>9, <2>3, <2>6
    <3>2. QED BY <2>7, <3>1 DEF ListAdded
  <2>9. PICK u1, v1 : u1 = Stages(c, x, a1, b1) /\ v1 = Stages(x, c, b1, a1)
    OBVIOUS
  <2>10. /\ Single(u1, v1) /\ Single(v1, u1)
         /\ \A k \in Stage : v1[k] = 0 /\ (u1[k] # 0 => k = 1)
    <3>1. Listed(Stages(c, x, a1, b1), Stages(x, c, b1, a1))
      BY <2>4, <2>5, <2>8, ListEnters
    <3>2. QED BY <2>9, <3>1 DEF Listed
  <2>11. Talk(c, x)' = u1 /\ Talk(x, c)' = v1
    BY <2>2, <2>9
  <2>12. Fits(x, c)'
    BY <1>1, <1>3, <1>7 DEF Exchange, Fits
  <2>13. Stands(c, x, 1)'
    BY <1>5, <2>1, <2>12 DEF Stands
  <2>14. Exchange(c, x)'
    BY <1>5, <2>1, <2>10, <2>11, <2>13 DEF Exchange
  <2>15. Exchange(x, c)'
    BY <1>5, <2>1, <2>10, <2>11 DEF Exchange
  <2>16. QED BY <2>14, <2>15
<1>10. QED BY <1>3, <1>8, <1>9

\* A signal is relayed, or lost.
LEMMA RelayExchanges ==
    ASSUME RosterInv, MeshInv, RosterInv', MeshInv', NEW c \in Conn, NEW d \in Conn,
           NEW p \in Payload, ServerReads(c), Head(outbox[c]) = SignalRequest(d, p), Relay(c, d, p)
    PROVE  /\ \A x, y \in Conn : ~(x = d /\ y = c) => QuietEnd(x, y)
           /\ c # d
           /\ Exchange(c, d) /\ Exchange(d, c) => Exchange(c, d)' /\ Exchange(d, c)'
<1>1. /\ UNCHANGED <<session, departed, pc, ops>> /\ outbox[c] # <<>>
      /\ inbox \in [Conn -> Seq(Message)] /\ outbox'[c] = Tail(outbox[c])
      /\ \A x \in Conn \ {c} : outbox'[x] = outbox[x]
      /\ \A x, y \in Conn : Thins(outbox'[x], outbox[x], Said(y))
  BY ReadEffects
<1>2. participant' = participant /\ c # d /\ SendTo(d, Signal(c, p))
  BY DEF Relay, server
<1>3. /\ \A x \in Conn \ {d} : inbox'[x] = inbox[x]
      /\ inbox'[d] = inbox[d] \/ inbox'[d] = Append(inbox[d], Signal(c, p))
  BY <1>1, <1>2 DEF SendTo
<1>4. ASSUME NEW x \in Conn, NEW y \in Conn,
             ~(x = d /\ y = c) \/ inbox'[d] = inbox[d] \/ p = "candidate"
      PROVE  QuietEnd(x, y)
  <2>1. Thins(inbox'[x], inbox[x], About(y))
    <3>1. CASE x = d /\ inbox'[d] = Append(inbox[d], Signal(c, p)) /\ (c # y \/ p = "candidate")
      <4>1. Signal(c, p) \notin About(y)
        BY <3>1, NotAbout
      <4>2. QED BY <3>1, <4>1 DEF Thins
    <3>2. CASE inbox'[x] = inbox[x]
      BY <3>2 DEF Thins
    <3>3. QED BY <1>3, <1>4, <3>1, <3>2
  <2>2. QED BY <1>1, <1>2, <2>1, AwayQuiet
<1>5. ASSUME Exchange(c, d), Exchange(d, c)
      PROVE  Exchange(c, d)' /\ Exchange(d, c)'
  <2>1. CASE inbox'[d] = inbox[d] \/ p = "candidate"
    BY <1>4, <1>5, <2>1, BothQuiet
  <2>2. CASE inbox'[d] = Append(inbox[d], Signal(c, p)) /\ p \in {"offer", "answer"}
    <3>1. PICK x, y, x1, y1 \in AnEnd :
              /\ x = End(c, d) /\ y = End(d, c) /\ x1 = End(c, d)' /\ y1 = End(d, c)'
              /\ Talk(c, d) = Stages(c, d, x, y) /\ Talk(d, c) = Stages(d, c, y, x)
              /\ Talk(c, d)' = Stages(c, d, x1, y1) /\ Talk(d, c)' = Stages(d, c, y1, x1)
      BY TalkIs
    <3>2. /\ x.out = outbox[c] /\ x1.out = outbox'[c] /\ x1.in = x.in /\ x1.todo = x.todo
          /\ y.in = inbox[d] /\ y1.in = inbox'[d] /\ y1.out = y.out /\ y1.todo = y.todo
      BY <1>1, <1>2, <1>3, <3>1 DEF End
    <3>3. x.out # <<>> /\ Head(x.out) = SignalRequest(d, p) /\ x1.out = Tail(x.out)
      BY <1>1, <3>2
    <3>4. y1.in = Append(y.in, Signal(c, p))
      BY <2>2, <3>2
    <3>5. PICK u, v, u1, v1 \in [Stage -> Nat] :
              /\ u = Stages(c, d, x, y) /\ v = Stages(d, c, y, x)
              /\ u1 = Stages(c, d, x1, y1) /\ v1 = Stages(d, c, y1, x1)
      BY StagesTyped
    <3>6. Talk(c, d) = u /\ Talk(d, c) = v /\ Talk(c, d)' = u1 /\ Talk(d, c)' = v1
      BY <3>1, <3>5
    <3>7. /\ (Fits(d, c) <=> Fits(d, c)') /\ (Awaits(d, c) <=> Awaits(d, c)')
          /\ (Over(d, c) <=> Over(d, c)') /\ (Over(c, d) <=> Over(c, d)')
          /\ (Awaits(c, d) <=> Awaits(c, d)')
      BY <1>1 DEF Fits, Awaits, Over
    <3>8. CASE p = "offer"
      <4>1. Passes(u1, u, 4) /\ Fades(v1, v)
        BY <2>2, <3>2, <3>3, <3>4, <3>5, <3>8, RelayPasses
      <4>2. 4 \in Stage /\ 5 = 4 + 1 /\ Stands(c, d, 4)
        BY <1>5, <3>6, <4>1 DEF Stage, Passes, Exchange
      <4>3. Stands(c, d, 5)'
        BY <1>2, <3>7, <4>2 DEF Stands
      <4>4. QED BY <1>2, <1>5, <3>6, <4>1, <4>2, <4>3, PassKeeps
    <3>9. CASE p = "answer"
      <4>1. Passes(v1, v, 9) /\ Fades(u1, u)
        BY <2>2, <3>2, <3>3, <3>4, <3>5, <3>9, RelayPasses
      <4>2. 9 \in Stage /\ 10 = 9 + 1 /\ Stands(d, c, 9)
        BY <1>5, <3>6, <4>1 DEF Stage, Passes, Exchange
      <4>3. Stands(d, c, 10)'
        BY <1>2, <3>7, <4>2 DEF Stands
      <4>4. QED BY <1>2, <1>5, <3>6, <4>1, <4>2, <4>3, PassKeeps
    <3>10. QED BY <2>2, <3>8, <3>9
  <2>3. QED BY <1>3, <2>1, <2>2, MeshAssumption
<1>6. QED BY <1>2, <1>4, <1>5

\* Whatever the server reads, every exchange is kept.
LEMMA ReadExchanges ==
    ASSUME RosterInv, MeshInv, RosterInv', MeshInv', NEW c \in Conn, ServerReads(c),
           NEW x \in Conn, NEW y \in Conn, x # y, Exchange(x, y), Exchange(y, x)
    PROVE  Exchange(x, y)' /\ Exchange(y, x)'
<1>1. PICK m \in RequestMessage : m = Head(outbox[c])
  BY HeadRequest DEF ServerReads, MeshInv
<1>2. Handle(c, m)
  BY <1>1 DEF ServerReads
<1>3. CASE Reply(c, Error)
  BY <1>3, RefusedQuiet, BothQuiet
<1>4. ASSUME NEW r \in RoomId, Join(c, r) PROVE Exchange(x, y)' /\ Exchange(y, x)'
  <2>1. CASE x = c
    BY <1>4, <2>1, JoinExchanges
  <2>2. CASE y = c
    BY <1>4, <2>2, JoinExchanges
  <2>3. CASE x # c /\ y # c
    BY <1>4, <2>3, JoinExchanges, BothQuiet
  <2>4. QED BY <2>1, <2>2, <2>3
<1>5. ASSUME NEW d \in Conn, NEW p \in Payload, m = SignalRequest(d, p), Relay(c, d, p)
      PROVE  Exchange(x, y)' /\ Exchange(y, x)'
  <2>1. /\ \A z, w \in Conn : ~(z = d /\ w = c) => QuietEnd(z, w)
        /\ c # d
        /\ Exchange(c, d) /\ Exchange(d, c) => Exchange(c, d)' /\ Exchange(d, c)'
    BY <1>1, <1>5, RelayExchanges
  <2>2. CASE x = c /\ y = d
    BY <2>1, <2>2
  <2>3. CASE x = d /\ y = c
    BY <2>1, <2>3
  <2>4. CASE ~(x = c /\ y = d) /\ ~(x = d /\ y = c)
    BY <2>1, <2>4, BothQuiet
  <2>5. QED BY <2>2, <2>3, <2>4
<1>6. CASE m.type = "room.join"
  <2>1. m.roomId \in RoomId
    BY <1>6 DEF RequestMessage
  <2>2. Reply(c, Error) \/ Join(c, m.roomId)
    BY <1>2, <1>6 DEF Handle, JoinFull, RateLimited
  <2>3. QED BY <1>3, <1>4, <2>1, <2>2
<1>7. CASE m.type = "webrtc"
  <2>1. m.targetId \in Conn /\ m.payload \in Payload /\ m = SignalRequest(m.targetId, m.payload)
    BY <1>7 DEF RequestMessage, SignalRequest
  <2>2. Reply(c, Error) \/ Relay(c, m.targetId, m.payload)
    BY <1>2, <1>7 DEF Handle, RelayNoTarget, RateLimited
  <2>3. QED BY <1>3, <1>5, <2>1, <2>2
<1>8. QED BY <1>6, <1>7 DEF RequestMessage

-----------------------------------------------------------------------------
(* A client handles a message. *)

\* What it changes, whatever the message
LEMMA HandleEffects ==
    ASSUME RosterInv, MeshInv, NEW c \in Conn, HandleMessage(c)
    PROVE  /\ link[c] = "up" /\ inbox[c] # <<>> /\ inbox'[c] = Tail(inbox[c])
           /\ inbox[c] \in Seq(Message) /\ Head(inbox[c]) \in Message
           /\ UNCHANGED <<participant, outbox>>
           /\ \A x \in Conn \ {c} : /\ inbox'[x] = inbox[x] /\ ops'[x] = ops[x] /\ pc'[x] = pc[x]
                                    /\ departed'[x] = departed[x] /\ session'[x] = session[x]
<1>1. /\ inbox \in [Conn -> Seq(Message)] /\ ClientsTyped
  BY DEF RosterInv, RoomsInv, TypeOK, MeshInv
<1>2. /\ link[c] = "up" /\ inbox[c] # <<>> /\ inbox' = [inbox EXCEPT ![c] = Tail(@)]
      /\ participant' = participant
  BY DEF HandleMessage, Deliver, server
<1>3. Head(inbox[c]) \in Message /\ inbox[c] \in Seq(Message)
  BY <1>1, <1>2
<1>4. PICK m \in Message : m = Head(inbox[c])
  BY <1>3
<1>5. \/ StartSession(c, m.participants) \/ Enqueue(c, m.participant, m.payload)
      \/ RemovePeer(c, m.participant) \/ UNCHANGED rtc
  BY <1>4 DEF HandleMessage
<1>6. outbox' = outbox
  BY <1>5 DEF StartSession, Enqueue, RemovePeer, rtc
<1>7. \A x \in Conn \ {c} : /\ ops'[x] = ops[x] /\ pc'[x] = pc[x]
                            /\ departed'[x] = departed[x] /\ session'[x] = session[x]
  BY <1>1, <1>5 DEF ClientsTyped, StartSession, Enqueue, RemovePeer, rtc
<1>8. QED BY <1>1, <1>2, <1>3, <1>6, <1>7

\* The others do not feel it.
LEMMA HandleElsewhere ==
    ASSUME RosterInv, MeshInv, NEW c \in Conn, HandleMessage(c),
           NEW x \in Conn, NEW y \in Conn, x # c
    PROVE  QuietEnd(x, y)
<1>1. /\ inbox'[x] = inbox[x] /\ ops'[x] = ops[x] /\ pc'[x] = pc[x]
      /\ departed'[x] = departed[x] /\ session'[x] = session[x]
      /\ UNCHANGED <<participant, outbox>>
  BY HandleEffects
<1>2. /\ Thins(inbox'[x], inbox[x], About(y)) /\ Thins(outbox'[x], outbox[x], Said(y))
      /\ Thins(ops'[x][y], ops[x][y], Descriptive)
  BY <1>1 DEF Thins
<1>3. Over(x, y) => Over(x, y)'
  BY <1>1 DEF Over
<1>4. QED BY <1>1, <1>2, <1>3, QuietIf

\* Messages that change no queue, or only add a candidate to it, are quiet.
LEMMA HandleQuiet ==
    ASSUME RosterInv, MeshInv, NEW c \in Conn, NEW d \in Conn, HandleMessage(c),
           Thins(ops'[c][d], ops[c][d], Descriptive),
           Over(c, d) => Over(c, d)', pc'[c][d].state = pc[c][d].state
    PROVE  QuietEnd(c, d)
<1>1. /\ inbox[c] # <<>> /\ inbox'[c] = Tail(inbox[c]) /\ UNCHANGED <<participant, outbox>>
  BY HandleEffects
<1>2. Thins(inbox'[c], inbox[c], About(d)) /\ Thins(outbox'[c], outbox[c], Said(d))
  BY <1>1 DEF Thins
<1>3. QED BY <1>1, <1>2, QuietIf

\* The two ends of an exchange of c while it handles a message
LEMMA HandleTalk ==
    ASSUME RosterInv, MeshInv, RosterInv', MeshInv', NEW c \in Conn, NEW d \in Conn, c # d,
           HandleMessage(c)
    PROVE  /\ \E x, y, x1 \in AnEnd, u, v, u1, v1 \in [Stage -> Nat] :
                /\ x.in = inbox[c] /\ x.out = outbox[c] /\ x.todo = ops[c][d]
                /\ x1.in = inbox'[c] /\ x1.out = x.out /\ x1.todo = ops'[c][d]
                /\ u = Stages(c, d, x, y) /\ v = Stages(d, c, y, x)
                /\ u1 = Stages(c, d, x1, y) /\ v1 = Stages(d, c, y, x1)
                /\ Talk(c, d) = u /\ Talk(d, c) = v /\ Talk(c, d)' = u1 /\ Talk(d, c)' = v1
           /\ participant' = participant
           /\ (Fits(d, c) <=> Fits(d, c)') /\ (Awaits(d, c) <=> Awaits(d, c)')
           /\ (Over(d, c) <=> Over(d, c)')
<1>1. PICK x, y, x1, y1 \in AnEnd :
              /\ x = End(c, d) /\ y = End(d, c) /\ x1 = End(c, d)' /\ y1 = End(d, c)'
              /\ Talk(c, d) = Stages(c, d, x, y) /\ Talk(d, c) = Stages(d, c, y, x)
              /\ Talk(c, d)' = Stages(c, d, x1, y1) /\ Talk(d, c)' = Stages(d, c, y1, x1)
  BY TalkIs
<1>2. /\ UNCHANGED <<participant, outbox>> /\ inbox'[d] = inbox[d] /\ departed'[d] = departed[d]
      /\ ops'[d] = ops[d] /\ pc'[d] = pc[d] /\ session'[d] = session[d]
  BY HandleEffects
<1>3. y1 = y
  <2>1. y = [in |-> inbox[d], out |-> outbox[d], todo |-> ops[d][c]]
    BY <1>1 DEF End
  <2>2. y1 = [in |-> inbox'[d], out |-> outbox'[d], todo |-> ops'[d][c]]
    BY <1>1 DEF End
  <2>3. QED BY <1>2, <2>1, <2>2
<1>4. PICK u, v, u1, v1 \in [Stage -> Nat] :
              /\ u = Stages(c, d, x, y) /\ v = Stages(d, c, y, x)
              /\ u1 = Stages(c, d, x1, y) /\ v1 = Stages(d, c, y, x1)
  BY StagesTyped
<1>5. Talk(c, d) = u /\ Talk(d, c) = v /\ Talk(c, d)' = u1 /\ Talk(d, c)' = v1
  BY <1>1, <1>3, <1>4
<1>6. /\ x.in = inbox[c] /\ x.out = outbox[c] /\ x.todo = ops[c][d]
      /\ x1.in = inbox'[c] /\ x1.out = x.out /\ x1.todo = ops'[c][d]
  BY <1>1, <1>2 DEF End
<1>7. /\ (Fits(d, c) <=> Fits(d, c)') /\ (Awaits(d, c) <=> Awaits(d, c)')
      /\ (Over(d, c) <=> Over(d, c)')
  BY <1>2 DEF Fits, Awaits, Over
<1>8. QED BY <1>2, <1>4, <1>5, <1>6, <1>7

\* The list of the room starts the session.
LEMMA ListHandled ==
    ASSUME RosterInv, MeshInv, RosterInv', MeshInv', NEW c \in Conn, NEW d \in Conn, c # d,
           Closing(c), Exchange(c, d), Exchange(d, c), HandleMessage(c),
           Head(inbox[c]).type = "room.joined"
    PROVE  Exchange(c, d)' /\ Exchange(d, c)'
<1>1. PICK m \in Message : m = Head(inbox[c])
  BY HandleEffects
<1>2. /\ session[c] # "closed" /\ ClientsTyped /\ StartSession(c, m.participants)
      /\ m.type = "room.joined"
  BY <1>1, HandleEffects DEF Closing, HandleMessage, MeshInv
<1>3. /\ session'[c] = "active" /\ UNCHANGED <<departed, pc>>
      /\ ops'[c][d] = IF d \in m.participants THEN <<"start">> ELSE <<>>
  BY <1>2 DEF StartSession, ClientsTyped
<1>4. Over(c, d) <=> Over(c, d)'
  BY <1>2, <1>3 DEF Over
<1>5. CASE d \notin m.participants
  <2>1. Thins(ops'[c][d], ops[c][d], Descriptive)
    BY <1>3, <1>5 DEF Thins
  <2>2. QuietEnd(c, d)
    BY <1>3, <1>4, <2>1, HandleQuiet
  <2>3. QED BY <2>2, HandleElsewhere, BothQuiet
<1>6. CASE d \in m.participants
  <2>1. PICK x, y, x1 \in AnEnd, u, v, u1, v1 \in [Stage -> Nat] :
                /\ x.in = inbox[c] /\ x.out = outbox[c] /\ x.todo = ops[c][d]
                /\ x1.in = inbox'[c] /\ x1.out = x.out /\ x1.todo = ops'[c][d]
                /\ u = Stages(c, d, x, y) /\ v = Stages(d, c, y, x)
                /\ u1 = Stages(c, d, x1, y) /\ v1 = Stages(d, c, y, x1)
                /\ Talk(c, d) = u /\ Talk(d, c) = v /\ Talk(c, d)' = u1 /\ Talk(d, c)' = v1
    BY HandleTalk
  <2>2. /\ participant' = participant
        /\ (Fits(d, c) <=> Fits(d, c)') /\ (Over(d, c) <=> Over(d, c)')
    BY HandleTalk
  <2>3. /\ x.in # <<>> /\ Head(x.in) \in Lists(d) /\ x1.in = Tail(x.in)
        /\ x1.todo = <<"start">>
    BY <1>1, <1>2, <1>3, <1>6, <2>1, HandleEffects DEF Lists
  <2>4. Passes(u1, u, 1) /\ Fades(v1, v)
    BY <2>1, <2>3, ListPasses
  <2>5. 1 \in Stage /\ 2 = 1 + 1 /\ Stands(c, d, 1)
    BY <2>1, <2>4 DEF Stage, Passes, Exchange
  <2>6. Stands(c, d, 2)'
    BY <2>2, <2>5 DEF Stands
  <2>7. QED BY <2>1, <2>2, <2>4, <2>5, <2>6, PassKeeps
<1>7. QED BY <1>5, <1>6

\* A signal is queued, unless its peer left.
LEMMA SignalHandled ==
    ASSUME RosterInv, MeshInv, RosterInv', MeshInv', NEW c \in Conn, NEW d \in Conn, c # d,
           Exchange(c, d), Exchange(d, c), HandleMessage(c),
           Head(inbox[c]).type = "webrtc", session[c] = "active"
    PROVE  Exchange(c, d)' /\ Exchange(d, c)'
<1>1. PICK m \in Message : m = Head(inbox[c])
  BY HandleEffects
<1>2. /\ ClientsTyped /\ Enqueue(c, m.participant, m.payload) /\ m.type = "webrtc"
  BY <1>1 DEF HandleMessage, MeshInv
<1>3. PICK e \in Conn, p \in Payload : m = Signal(e, p) /\ e = m.participant /\ p = m.payload
  BY <1>2 DEF Message, Pong, RoomCreated, Error, Signal
<1>4. /\ UNCHANGED <<session, departed, pc>>
      /\ ops' = IF e \in departed[c] THEN ops ELSE [ops EXCEPT ![c][e] = Append(@, p)]
  BY <1>2, <1>3 DEF Enqueue
<1>5. \/ ops'[c][d] = ops[c][d]
      \/ e = d /\ d \notin departed[c] /\ ops'[c][d] = Append(ops[c][d], p)
  BY <1>2, <1>4 DEF ClientsTyped
<1>6. Over(c, d) <=> Over(c, d)'
  BY <1>4 DEF Over
<1>7. CASE ops'[c][d] = ops[c][d] \/ p = "candidate"
  <2>1. "candidate" \notin Descriptive
    BY DEF Descriptive
  <2>2. Thins(ops'[c][d], ops[c][d], Descriptive)
    BY <1>5, <1>7, <2>1 DEF Thins
  <2>3. QuietEnd(c, d)
    BY <1>4, <1>6, <2>2, HandleQuiet
  <2>4. QED BY <2>3, HandleElsewhere, BothQuiet
<1>8. CASE /\ e = d /\ d \notin departed[c] /\ p \in {"offer", "answer"}
           /\ ops'[c][d] = Append(ops[c][d], p)
  <2>1. PICK x, y, x1 \in AnEnd, u, v, u1, v1 \in [Stage -> Nat] :
                /\ x.in = inbox[c] /\ x.out = outbox[c] /\ x.todo = ops[c][d]
                /\ x1.in = inbox'[c] /\ x1.out = x.out /\ x1.todo = ops'[c][d]
                /\ u = Stages(c, d, x, y) /\ v = Stages(d, c, y, x)
                /\ u1 = Stages(c, d, x1, y) /\ v1 = Stages(d, c, y, x1)
                /\ Talk(c, d) = u /\ Talk(d, c) = v /\ Talk(c, d)' = u1 /\ Talk(d, c)' = v1
    BY HandleTalk
  <2>2. /\ participant' = participant
        /\ (Awaits(d, c) <=> Awaits(d, c)') /\ (Over(d, c) <=> Over(d, c)')
    BY HandleTalk
  <2>3. x.in # <<>> /\ Head(x.in) = Signal(d, p) /\ x1.in = Tail(x.in)
    BY <1>1, <1>3, <1>8, <2>1, HandleEffects
  <2>4. x1.todo = Append(x.todo, p)
    BY <1>8, <2>1
  <2>5. ~Over(c, d) /\ (Fits(c, d) <=> Fits(c, d)') /\ (Awaits(c, d) <=> Awaits(c, d)')
    BY <1>4, <1>8 DEF Over, Fits, Awaits
  <2>6. CASE p = "offer"
    <3>1. Passes(v1, v, 5) /\ Fades(u1, u)
      BY <1>8, <2>1, <2>3, <2>4, <2>6, QueuedPasses
    <3>2. 5 \in Stage /\ 6 = 5 + 1 /\ Stands(d, c, 5)
      BY <2>1, <3>1 DEF Stage, Passes, Exchange
    <3>3. Stands(d, c, 6)'
      BY <2>2, <2>5, <3>2 DEF Stands
    <3>4. QED BY <2>1, <2>2, <3>1, <3>2, <3>3, PassKeeps
  <2>7. CASE p = "answer"
    <3>1. Passes(u1, u, 10) /\ Fades(v1, v)
      BY <1>8, <2>1, <2>3, <2>4, <2>7, QueuedPasses
    <3>2. 10 \in Stage /\ 11 = 10 + 1 /\ Stands(c, d, 10)
      BY <2>1, <3>1 DEF Stage, Passes, Exchange
    <3>3. Stands(c, d, 11)'
      BY <2>2, <2>5, <3>2 DEF Stands
    <3>4. QED BY <2>1, <2>2, <3>1, <3>2, <3>3, PassKeeps
  <2>8. QED BY <1>8, <2>6, <2>7
<1>9. QED BY <1>5, <1>7, <1>8, MeshAssumption

\* Who left is forgotten, and nothing else changes an exchange.
LEMMA OtherHandled ==
    ASSUME RosterInv, MeshInv, RosterInv', MeshInv', NEW c \in Conn, NEW d \in Conn, c # d,
           Exchange(c, d), Exchange(d, c), HandleMessage(c),
           Head(inbox[c]).type # "room.joined",
           Head(inbox[c]).type # "webrtc" \/ session[c] # "active"
    PROVE  Exchange(c, d)' /\ Exchange(d, c)'
<1>1. PICK m \in Message : m = Head(inbox[c])
  BY HandleEffects
<1>2. ClientsTyped /\ (RemovePeer(c, m.participant) \/ UNCHANGED rtc)
  BY <1>1 DEF HandleMessage, MeshInv
<1>3. PICK e : e = m.participant
  OBVIOUS
<1>4. CASE UNCHANGED rtc \/ (RemovePeer(c, e) /\ d # e)
  <2>1. ops'[c][d] = ops[c][d] /\ pc'[c][d] = pc[c][d] /\ session' = session
    BY <1>2, <1>4 DEF RemovePeer, rtc, ClientsTyped
  <2>2. d \in departed[c] => d \in departed'[c]
    BY <1>2, <1>4 DEF RemovePeer, rtc, ClientsTyped
  <2>3. Thins(ops'[c][d], ops[c][d], Descriptive)
    BY <2>1 DEF Thins
  <2>4. Over(c, d) => Over(c, d)'
    BY <2>1, <2>2 DEF Over
  <2>5. QuietEnd(c, d)
    BY <2>1, <2>3, <2>4, HandleQuiet
  <2>6. QED BY <2>5, HandleElsewhere, BothQuiet
<1>5. CASE RemovePeer(c, e) /\ d = e
  <2>1. /\ departed' = [departed EXCEPT ![c] = @ \cup {d}] /\ ops' = [ops EXCEPT ![c][d] = <<>>]
        /\ pc' = [pc EXCEPT ![c][d].state = IF @ = "none" THEN "none" ELSE "closed"]
    BY <1>5 DEF RemovePeer
  <2>2. ops'[c][d] = <<>> /\ d \in departed'[c]
    BY <1>2, <2>1 DEF ClientsTyped
  <2>3. pc[c][d].state = "none" => pc'[c][d].state = "none"
    BY <1>2, <2>1 DEF ClientsTyped, Peer
  <2>4. /\ inbox[c] # <<>> /\ inbox'[c] = Tail(inbox[c]) /\ UNCHANGED <<participant, outbox>>
    BY HandleEffects
  <2>5. /\ Thins(inbox'[c], inbox[c], About(d)) /\ Thins(outbox'[c], outbox[c], Said(d))
        /\ Thins(ops'[c][d], ops[c][d], Descriptive)
    BY <2>2, <2>4 DEF Thins
  <2>6. EndThins(d, End(c, d)', End(c, d))
    BY <2>5 DEF EndThins, End
  <2>7. QuietEnd(c, d)
    BY <2>2, <2>3, <2>4, <2>6 DEF QuietEnd, Over
  <2>8. QED BY <2>7, HandleElsewhere, BothQuiet
<1>6. QED BY <1>2, <1>3, <1>4, <1>5

\* Whatever is handled, every exchange is kept.
LEMMA MessageExchanges ==
    ASSUME RosterInv, MeshInv, RosterInv', MeshInv', NEW c \in Conn, Closing(c), HandleMessage(c),
           NEW x \in Conn, NEW y \in Conn, x # y, Exchange(x, y), Exchange(y, x)
    PROVE  Exchange(x, y)' /\ Exchange(y, x)'
<1>1. ASSUME NEW d \in Conn, c # d, Exchange(c, d), Exchange(d, c)
      PROVE  Exchange(c, d)' /\ Exchange(d, c)'
  BY <1>1, ListHandled, SignalHandled, OtherHandled
<1>2. CASE x = c
  BY <1>1, <1>2
<1>3. CASE y = c
  BY <1>1, <1>3
<1>4. CASE x # c /\ y # c
  BY <1>4, HandleElsewhere, BothQuiet
<1>5. QED BY <1>2, <1>3, <1>4

-----------------------------------------------------------------------------
(* The invariant of the exchanges. *)

\* Nothing is under way before anybody joins.
LEMMA FitInvInit == MeshInit => FitInv
<1> SUFFICES ASSUME MeshInit, NEW c \in Conn
             PROVE  Closing(c) /\ \A d \in Conn \ {c} : Exchange(c, d)
  BY DEF FitInv
<1>1. /\ \A x \in Conn : inbox[x] = <<>> /\ outbox[x] = <<>>
      /\ \A x, y \in Conn : ops[x][y] = <<>> /\ pc[x][y].state = "none"
      /\ \A x \in Conn : link[x] = "none" /\ session[x] = "none"
  BY DEF MeshInit, Init, NoPeer
<1>2. \A S : Num(<<>>, S) = 0
  <2>1. <<>> \in Seq(Operation)
    OBVIOUS
  <2>2. PICK s \in Seq(Operation) : s = <<>>
    BY <2>1
  <2>3. QED BY <2>2, NumIs
<1>3. \A m : Times(<<>>, m) = 0
  BY <1>2 DEF Times
<1>4. PICK z : z = [in |-> <<>>, out |-> <<>>, todo |-> <<>>]
  OBVIOUS
<1>5. z.in = <<>> /\ z.out = <<>> /\ z.todo = <<>>
  BY <1>4
<1>6. ASSUME NEW d \in Conn \ {c} PROVE Exchange(c, d)
  <2>1. End(c, d) = z /\ End(d, c) = z
    BY <1>1, <1>4 DEF End
  <2>2. \A k \in Stage : Stages(c, d, z, z)[k] = 0 /\ Stages(d, c, z, z)[k] = 0
    BY <1>2, <1>3, <1>5 DEF Stages, Stage
  <2>3. \A k \in Stage : Talk(c, d)[k] = 0 /\ Talk(d, c)[k] = 0
    BY <2>1, <2>2 DEF Talk
  <2>4. QED BY <1>1, <2>3 DEF Exchange, Single
<1>7. Closing(c)
  BY <1>1 DEF Closing
<1>8. QED BY <1>6, <1>7

\* A closed session's client does not come back.
LEMMA ClosingNext ==
    ASSUME RosterInv, MeshInv, NEW e \in Conn, Closing(e), [MeshNext]_meshVars
    PROVE  Closing(e)'
<1>1. /\ sock \in [Conn -> {"none", "open", "closing", "closed"}] /\ ClientsTyped
      /\ link \in [Conn -> {"none", "up", "closed", "lost"}]
  BY DEF RosterInv, RoomsInv, TypeOK, MeshInv
<1>2. ASSUME sock[e] # "none" => sock'[e] # "none",
             link'[e] = link[e] \/ (link[e] = "up" /\ link'[e] \in {"closed", "lost"}),
             session'[e] # "closed" \/ session'[e] = session[e] \/ link'[e] = "closed"
      PROVE  Closing(e)'
  BY <1>2 DEF Closing
<1>3. ASSUME NEW c \in Conn, NEW d \in Conn, RunOperation(c, d) \/ Gather(c, d)
      PROVE  Closing(e)'
  <2>1. PeerStep(c, d)
    BY <1>1, <1>3, RunSteps, GatherSteps
  <2>2. QED BY <1>2, <2>1 DEF PeerStep, vars, server, client
<1>4. ASSUME NEW c \in Conn, NEW r \in RoomId, SendJoin(c, r) PROVE Closing(e)'
  BY <1>1, <1>2, <1>4 DEF SendJoin, vars, server, client, ClientsTyped
<1>5. ASSUME NEW c \in Conn, ServerReads(c) PROVE Closing(e)'
  <2>1. Request(c) /\ session' = session
    BY <1>1, <1>5, HeadRequest, HandleImplements DEF ServerReads
  <2>2. sock' = sock /\ link' = link
    BY <2>1 DEF Request, Ping, CreateRoom, Refused, RateLimited, Malformed, JoinAgain,
       JoinInvalid, JoinFull, NotJoined, RelayNoTarget, InvalidPayload, Reply, Chat, Join,
       EnterRoom, Relay, server
  <2>3. QED BY <1>2, <2>1, <2>2
<1>6. ASSUME NEW c \in Conn, HandleMessage(c) PROVE Closing(e)'
  <2>1. sock' = sock /\ link' = link
    BY <1>6 DEF HandleMessage, Deliver, server
  <2>2. session'[e] # "closed" \/ session'[e] = session[e]
    BY <1>1, <1>6 DEF HandleMessage, StartSession, Enqueue, RemovePeer, rtc, ClientsTyped
  <2>3. QED BY <1>2, <2>1, <2>2
<1>7. ASSUME NEW c \in Conn, JoinRefused(c) \/ Quit(c) PROVE Closing(e)'
  <2>1. link[c] = "up" /\ link' = [link EXCEPT ![c] = "closed"] /\ sock' = sock
        /\ session' = [session EXCEPT ![c] = "closed"]
    BY <1>7 DEF JoinRefused, Quit, ClientClose, CloseSession, server
  <2>2. QED BY <1>1, <1>2, <2>1 DEF ClientsTyped
<1>8. ASSUME NEW c \in Conn, Disconnected(c) PROVE Closing(e)'
  <2>1. link[c] \in {"up", "lost"} /\ link' = [link EXCEPT ![c] = "closed"] /\ sock' = sock
        /\ session' = [session EXCEPT ![c] = "closed"]
    BY <1>8 DEF Disconnected, ClientSeesClose, CloseSession, server
  <2>2. QED BY <1>1, <2>1 DEF Closing, ClientsTyped
<1>9. ASSUME NEW c \in Conn, Lost(c) PROVE Closing(e)'
  BY <1>1, <1>2, <1>9 DEF Lost, LinkLost, server
<1>10. ASSUME NEW c \in Conn, SayAndRead(c) \/ Closed(c) \/ ServerCloses(c) PROVE Closing(e)'
  <2>1. link' = link /\ session' = session /\ (sock[e] # "none" => sock'[e] # "none")
    BY <1>1, <1>10 DEF SayAndRead, Closed, ServerCloses, Chat, ReceiveClose, OnClose,
       OnCloseUnjoined, OnCloseJoined, server, client, mesh, rtc
  <2>2. QED BY <1>2, <2>1
<1>11. ASSUME NEW c \in Conn, Connect(c), UNCHANGED mesh PROVE Closing(e)'
  BY <1>1, <1>11 DEF Closing, Connect, mesh, rtc
<1>12. CASE Elsewhere \/ RestartServer
  <2>1. CASE \E c \in Conn : Connect(c) /\ UNCHANGED mesh
    BY <1>11, <2>1
  <2>2. CASE /\ HeartbeatTick \/ Shutdown \/ \E c \in Conn : SocketError(c) \/ PongReceived(c)
             /\ UNCHANGED mesh
    <3>1. link' = link /\ session' = session /\ (sock[e] # "none" => sock'[e] # "none")
      BY <1>1, <2>2 DEF HeartbeatTick, Shutdown, SocketError, PongReceived, client, mesh, rtc
    <3>2. QED BY <1>2, <3>1
  <2>3. CASE RestartServer
    <3>1. link' = link /\ session' = session /\ (sock[e] # "none" => sock'[e] # "none")
      BY <2>3 DEF RestartServer, Restart, client
    <3>2. QED BY <1>2, <3>1
  <2>4. QED BY <1>12, <2>1, <2>2, <2>3 DEF Elsewhere
<1>13. CASE UNCHANGED meshVars
  BY <1>2, <1>13 DEF meshVars, vars, server, client, mesh, rtc
<1>14. QED
  BY <1>3, <1>4, <1>5, <1>6, <1>7, <1>8, <1>9, <1>10, <1>12, <1>13 DEF MeshNext

\* Every step keeps every exchange.
LEMMA ExchangesNext ==
    ASSUME RosterInv, MeshInv, RosterInv', MeshInv', FitInv, [MeshNext]_meshVars,
           NEW x \in Conn, NEW y \in Conn, x # y
    PROVE  Exchange(x, y)' /\ Exchange(y, x)'
<1>1. Exchange(x, y) /\ Exchange(y, x) /\ \A c \in Conn : Closing(c)
  BY DEF FitInv
<1>2. ASSUME QuietEnd(x, y), QuietEnd(y, x) PROVE Exchange(x, y)' /\ Exchange(y, x)'
  BY <1>1, <1>2, BothQuiet
<1>3. ASSUME NEW c \in Conn, NEW d \in Conn, RunOperation(c, d) \/ Gather(c, d)
      PROVE  Exchange(x, y)' /\ Exchange(y, x)'
  <2>1. \A z, w \in Conn : ~(z = c /\ w = d) => QuietEnd(z, w)
    BY <1>3, QueueSteps, QueueElsewhere
  <2>2. CASE c = x /\ d = y
    BY <1>1, <1>3, <2>2, OperationKeeps
  <2>3. CASE c = y /\ d = x
    BY <1>1, <1>3, <2>3, OperationKeeps
  <2>4. CASE ~(c = x /\ d = y) /\ ~(c = y /\ d = x)
    BY <1>2, <2>1, <2>4
  <2>5. QED BY <2>2, <2>3, <2>4
<1>4. ASSUME NEW c \in Conn, NEW r \in RoomId, SendJoin(c, r)
      PROVE  Exchange(x, y)' /\ Exchange(y, x)'
  BY <1>2, <1>4, SendJoinQuiet
<1>5. ASSUME NEW c \in Conn, ServerReads(c) PROVE Exchange(x, y)' /\ Exchange(y, x)'
  BY <1>1, <1>5, ReadExchanges
<1>6. ASSUME NEW c \in Conn, HandleMessage(c) PROVE Exchange(x, y)' /\ Exchange(y, x)'
  BY <1>1, <1>6, MessageExchanges
<1>7. ASSUME NEW c \in Conn, JoinRefused(c) \/ Quit(c) \/ Disconnected(c)
      PROVE  Exchange(x, y)' /\ Exchange(y, x)'
  BY <1>2, <1>7, QuitQuiet
<1>8. ASSUME NEW c \in Conn, SayAndRead(c) \/ Lost(c) \/ Closed(c) \/ ServerCloses(c)
      PROVE  Exchange(x, y)' /\ Exchange(y, x)'
  BY <1>2, <1>8, NetworkQuiet
<1>9. CASE Elsewhere \/ RestartServer
  BY <1>2, <1>9, NetworkQuiet
<1>10. CASE UNCHANGED meshVars
  <2>1. UNCHANGED <<session, departed, pc, ops, participant, inbox, outbox>>
    BY <1>10 DEF meshVars, vars, server, client, mesh, rtc
  <2>2. QED BY <1>2, <2>1, TellQuiet
<1>11. QED
  BY <1>3, <1>4, <1>5, <1>6, <1>7, <1>8, <1>9, <1>10 DEF MeshNext

\* An operation at the head of a queue is the stage of an exchange.
LEMMA HeadStands ==
    ASSUME RosterInv, MeshInv, FitInv, NEW c \in Conn, NEW d \in Conn
    PROVE  /\ Running(c, d, "offer") => Fits(c, d)
           /\ Running(c, d, "answer") => Awaits(c, d)
<1> SUFFICES ASSUME ops[c][d] # <<>>, Head(ops[c][d]) \in {"offer", "answer"}
             PROVE  /\ Head(ops[c][d]) = "offer" => Fits(c, d)
                    /\ Head(ops[c][d]) = "answer" => Awaits(c, d)
  BY DEF Running
<1>1. c # d
  BY DEF MeshInv, BusyAt
<1>2. Exchange(c, d) /\ Exchange(d, c)
  BY <1>1 DEF FitInv
<1>3. PICK s \in Seq(Operation) : s = ops[c][d]
  BY DEF MeshInv, ClientsTyped
<1>4. \A k : Times(Tail(s), k) \in Nat /\ Times(s, k) = IF k = Head(s) THEN Times(Tail(s), k) + 1
                                                                  ELSE Times(Tail(s), k)
  BY <1>3, TimesGrow
<1>5. Times(s, Head(s)) # 0
  <2>1. PICK n \in Nat : n = Times(Tail(s), Head(s))
    BY <1>4
  <2>2. Times(s, Head(s)) = n + 1
    BY <1>4, <2>1
  <2>3. QED BY <2>2
<1>6. 6 \in Stage /\ 11 \in Stage
  BY DEF Stage
<1>7. Talk(d, c)[6] = Times(s, "offer") /\ Talk(c, d)[11] = Times(s, "answer")
  BY <1>3 DEF Talk, Stages, End
<1>8. Head(s) = "offer" => Fits(c, d)
  BY <1>2, <1>5, <1>6, <1>7 DEF Exchange, Stands
<1>9. Head(s) = "answer" => Awaits(c, d)
  BY <1>2, <1>5, <1>6, <1>7 DEF Exchange, Stands
<1>10. QED BY <1>3, <1>8, <1>9


-----------------------------------------------------------------------------
(* Theorems. *)

(***************************************************************************)
(* Clients that behave like webrtc.js make the server and the network do   *)
(* nothing that Signaling does not allow.                                  *)
(***************************************************************************)
THEOREM MeshImplementsSignaling == MeshSpec => ImplementsSignaling
<1>1. MeshInit => Init /\ ClientsTyped
  BY MeshInvInit DEF MeshInit, MeshInv
<1>2. ClientsTyped /\ [MeshNext]_meshVars => [Next]_vars
  BY StepImplements
<1>3. RosterInv /\ MeshInv /\ [MeshNext]_meshVars => RosterInv' /\ MeshInv'
  BY MeshInvNext, StepImplements, RosterInvNext DEF MeshInv
<1>4. MeshInit => RosterInv /\ MeshInv
  BY <1>1, MeshInvInit, RosterInvInit
<1>5. MeshInv => ClientsTyped
  BY DEF MeshInv
<1>6. QED BY <1>1, <1>2, <1>3, <1>4, <1>5, PTL DEF MeshSpec, ImplementsSignaling, Spec

\* Both invariants hold together.
LEMMA MeshInvariant == MeshSpec => [](RosterInv /\ MeshInv)
<1>1. RosterInv /\ MeshInv /\ [MeshNext]_meshVars => RosterInv' /\ MeshInv'
  BY MeshInvNext, StepImplements, RosterInvNext DEF MeshInv
<1>2. MeshInit => RosterInv /\ MeshInv
  BY MeshInvInit, RosterInvInit DEF MeshInit
<1>3. QED BY <1>1, <1>2, PTL DEF MeshSpec

(***************************************************************************)
(* The variables of the mesh and of the server keep their types.           *)
(***************************************************************************)
THEOREM MeshTypeCorrect == MeshSpec => []MeshTypeOK
<1>1. RosterInv /\ MeshInv => MeshTypeOK
  BY DEF RosterInv, RoomsInv, MeshInv, ClientsTyped, MeshTypeOK, Peer
<1>2. QED BY <1>1, MeshInvariant, PTL

(***************************************************************************)
(* No operation of a queue opens a peer connection with somebody who left: *)
(* an open one is with a participant of the roster.                        *)
(***************************************************************************)
THEOREM PeersStayInRoster == MeshSpec => []PeersAreInRoster
<1>1. MeshInv => PeersAreInRoster
  BY DEF MeshInv, BusyAt, Open, PeersAreInRoster
<1>2. QED BY <1>1, MeshInvariant, PTL

(***************************************************************************)
(* The grid shows the participants of the roster: late tracks bring back   *)
(* no tile of somebody who left.                                           *)
(***************************************************************************)
THEOREM TilesFollowRoster == MeshSpec => []TilesMatchRoster
<1>1. MeshInv => TilesMatchRoster
  BY DEF MeshInv, TiledAt, TilesMatchRoster
<1>2. QED BY <1>1, MeshInvariant, PTL

(***************************************************************************)
(* Offers come to connections that are stable or not created, answers to   *)
(* those that offered: of two members the later one, and only that one,    *)
(* offers to the other, and only once, whatever is lost on the way.        *)
(***************************************************************************)
THEOREM DescriptionsAlwaysFit == MeshSpec => []DescriptionsFit
<1>1. MeshInit => FitInv
  BY FitInvInit
<1>2. /\ RosterInv /\ MeshInv /\ FitInv /\ [MeshNext]_meshVars /\ RosterInv' /\ MeshInv'
      => FitInv'
  BY ExchangesNext, ClosingNext DEF FitInv
<1>3. RosterInv /\ MeshInv /\ FitInv => DescriptionsFit
  BY HeadStands DEF DescriptionsFit, Fits, Awaits
<1>4. QED BY <1>1, <1>2, <1>3, MeshInvariant, PTL DEF MeshSpec
=============================================================================
