--------------------------- MODULE SignalingProofs --------------------------
(***************************************************************************)
(* Theorems about the signaling server, for any connections, rooms and     *)
(* limits.  The inductive invariant of this module is RoomsInv: the types  *)
(* and the exactness of the Map of rooms have to be proved together, since *)
(* the handlers look up rooms[participant[c]] without testing that it is   *)
(* there.  Fresh rules out a connection that was in a room before it was   *)
(* opened.                                                                 *)
(***************************************************************************)
EXTENDS Signaling, FiniteSetTheorems, TLAPS

Fresh == \A c \in Conn : sock[c] = "none" => participant[c] = NoRoom

RoomsInv == TypeOK /\ RoomsExact /\ Fresh

(***************************************************************************)
(* The two helpers that send keep every inbox a sequence of messages.      *)
(***************************************************************************)
LEMMA SendToType ==
    ASSUME TypeOK, NEW c \in Conn, NEW m \in Message, SendTo(c, m)
    PROVE  inbox' \in [Conn -> Seq(Message)]
BY DEF TypeOK, SendTo

\* A broadcast puts messages in the inboxes.
LEMMA BroadcastType ==
    ASSUME TypeOK, NEW S, NEW m \in Message, Broadcast(S, m)
    PROVE  inbox' \in [Conn -> Seq(Message)]
BY DEF TypeOK, Broadcast

(***************************************************************************)
(* Every message the handlers build is a Message.                          *)
(***************************************************************************)
LEMMA MessageTypes ==
    /\ Pong \in Message /\ RoomCreated \in Message /\ Error \in Message
    /\ \A S \in SUBSET Conn : RoomJoined(S) \in Message
    /\ \A d \in Conn : /\ Introduction(d) \in Message
                       /\ Departure(d) \in Message
                       /\ ChatMessage(d) \in Message
                       /\ \A p \in Payload : Signal(d, p) \in Message
BY DEF Message, Pong, RoomCreated, Error, RoomJoined, Introduction, Departure,
       ChatMessage, Signal

(***************************************************************************)
(* What a client knows after a message is again a set of connections.      *)
(***************************************************************************)
LEMMA LearnsType ==
    ASSUME NEW m \in Message, NEW S \in SUBSET Conn
    PROVE  Learns(m, S) \in SUBSET Conn
<1>1. CASE m.type = "room.joined"
  <2>1. m.participants \in SUBSET Conn
    BY <1>1 DEF Message, Pong, RoomCreated, Error
  <2>2. QED BY <1>1, <2>1 DEF Learns
<1>2. CASE m.type \in {"participant.joined", "participant.left"}
  <2>1. m.participant \in Conn
    BY <1>2 DEF Message, Pong, RoomCreated, Error
  <2>2. QED BY <1>2, <2>1 DEF Learns
<1>3. CASE m.type \notin {"room.joined", "participant.joined", "participant.left"}
  BY <1>3 DEF Learns
<1>4. QED BY <1>1, <1>2, <1>3

-----------------------------------------------------------------------------

\* There is no room at the start.
LEMMA RoomsInvInit == Init => RoomsInv
<1> SUFFICES ASSUME Init PROVE RoomsInv
  OBVIOUS
<1>1. TypeOK BY DEF Init, TypeOK
<1>2. RoomsExact BY SignalingAssumption DEF Init, RoomsExact, Members, InServer
<1>3. Fresh BY DEF Init, Fresh
<1>4. QED BY <1>1, <1>2, <1>3 DEF RoomsInv

(***************************************************************************)
(* A step that touches no room and does no more to a socket than start its *)
(* closing keeps the rooms exact.                                          *)
(***************************************************************************)
LEMMA RoomsUntouched ==
    ASSUME RoomsInv, TypeOK', UNCHANGED <<participant, rooms>>,
           \A c \in Conn : \/ sock'[c] = sock[c]
                           \/ sock[c] = "open" /\ sock'[c] = "closing"
    PROVE  RoomsInv'
<1>1. \A c \in Conn : InServer(c)' <=> InServer(c)
  BY DEF InServer
<1>2. QED BY <1>1 DEF RoomsInv, RoomsExact, Fresh, Members

\* The special case of a step that leaves the sockets alone as well.
LEMMA ServerUntouched ==
    ASSUME RoomsInv, TypeOK', UNCHANGED <<participant, rooms, sock>>
    PROVE  RoomsInv'
BY RoomsUntouched

\* A reply changes no room.
LEMMA ReplyRoomsInv ==
    ASSUME RoomsInv, NEW c \in Conn, NEW m \in Message, Reply(c, m)
    PROVE  RoomsInv'
<1>1. inbox' \in [Conn -> Seq(Message)]
  BY SendToType DEF Reply, RoomsInv
<1>2. TypeOK'
  BY <1>1 DEF RoomsInv, TypeOK, Reply, server
<1>3. QED BY <1>2, ServerUntouched DEF Reply, server

\* A join.
LEMMA JoinRoomsInv ==
    ASSUME RoomsInv, NEW c \in Conn, NEW r \in RoomId, Join(c, r)
    PROVE  RoomsInv'
<1> USE DEF RoomsInv
<1>1. participant[c] = NoRoom /\ InServer(c)
  BY DEF Join, Receives
<1>2. Members(r) \subseteq Conn
  BY DEF TypeOK, Members
<1>3. inbox' \in [Conn -> Seq(Message)]
  <2> DEFINE note(d) == IF d = c THEN RoomJoined(Members(r) \cup {c})
                                 ELSE Introduction(c)
  <2>1. \A d \in Conn : note(d) \in Message
    BY <1>2, MessageTypes
  <2>2. inbox' = [d \in Conn |->
                    IF d \in Members(r) \cup {c} /\ Reaches(d)
                    THEN Append(inbox[d], note(d)) ELSE inbox[d]]
    BY DEF Join, EnterRoom
  <2> HIDE DEF note
  <2>3. QED BY <2>1, <2>2 DEF TypeOK
<1>4. participant' \in [Conn -> RoomId \cup {NoRoom}]
  BY DEF TypeOK, Join, EnterRoom
<1>5. /\ DOMAIN rooms' = DOMAIN rooms \cup {r}
      /\ rooms' \in [DOMAIN rooms' -> SUBSET Conn]
  BY <1>2 DEF TypeOK, Join, EnterRoom, PutRoom
<1>6. TypeOK'
  BY <1>3, <1>4, <1>5 DEF TypeOK, Join, EnterRoom
<1>7. \A x \in RoomId :
        Members(x)' = IF x = r THEN Members(r) \cup {c} ELSE Members(x)
  BY DEF Join, EnterRoom, PutRoom, Members, TypeOK
<1>8. \A x \in DOMAIN rooms' : rooms'[x] # {}
  BY DEF Join, EnterRoom, PutRoom, RoomsExact
<1>9. \A d \in Conn : InServer(d)' = InServer(d)
  BY DEF Join, EnterRoom, InServer
<1>10. participant' = [participant EXCEPT ![c] = r]
  BY DEF Join, EnterRoom
<1>11. ASSUME NEW d \in Conn, NEW x \in RoomId
       PROVE  d \in Members(x)' <=> participant'[d] = x /\ InServer(d)'
  <2>1. d \in Members(x) <=> participant[d] = x /\ InServer(d)
    BY DEF RoomsExact
  <2>2. CASE d = c
    BY <1>1, <1>7, <1>9, <1>10, <2>1, <2>2, SignalingAssumption DEF TypeOK
  <2>3. CASE d # c
    BY <1>7, <1>9, <1>10, <2>1, <2>3 DEF TypeOK
  <2>4. QED BY <2>2, <2>3
<1>12. Fresh'
  BY <1>1 DEF Fresh, Join, EnterRoom, InServer, TypeOK
<1>13. QED BY <1>6, <1>8, <1>11, <1>12 DEF RoomsExact

\* A connection that closes.
LEMMA OnCloseRoomsInv ==
    ASSUME RoomsInv, NEW c \in Conn, OnClose(c)
    PROVE  RoomsInv'
<1> USE DEF RoomsInv
<1>1. CASE OnCloseUnjoined(c)
  <2>1. TypeOK' BY <1>1 DEF TypeOK, OnCloseUnjoined, client
  <2>2. /\ \A d \in Conn : InServer(d)' <=> InServer(d) /\ d # c
        /\ \A d \in Conn : sock'[d] = "none" => sock[d] = "none"
        /\ UNCHANGED <<participant, rooms>>
        /\ participant[c] = NoRoom
    BY <1>1 DEF TypeOK, InServer, OnCloseUnjoined
  <2>3. QED
    BY <2>1, <2>2, SignalingAssumption DEF RoomsExact, Fresh, Members
<1>2. CASE OnCloseJoined(c)
  <2> DEFINE r == participant[c]
             others == rooms[r] \ {c}
  <2>1. /\ r \in RoomId /\ r \in DOMAIN rooms
        /\ c \in rooms[r]
    BY <1>2 DEF OnCloseJoined, RoomsExact, Members, InServer, TypeOK
  <2>2. others \subseteq Conn
    BY <2>1 DEF TypeOK
  <2>3. inbox' \in [Conn -> Seq(Message)]
    BY <1>2, MessageTypes, BroadcastType DEF OnCloseJoined
  <2>4. DOMAIN rooms' \subseteq RoomId /\ rooms' \in [DOMAIN rooms' -> SUBSET Conn]
    BY <1>2, <2>1, <2>2 DEF TypeOK, OnCloseJoined, PutRoom, DropRoom
  <2>5. TypeOK'
    BY <1>2, <2>3, <2>4 DEF TypeOK, OnCloseJoined
  <2>6. \A x \in RoomId :
          Members(x)' = IF x = r THEN others ELSE Members(x)
    BY <1>2, <2>1 DEF OnCloseJoined, PutRoom, DropRoom, Members, TypeOK
  <2>7. \A x \in DOMAIN rooms' : rooms'[x] # {}
    BY <1>2, <2>1 DEF OnCloseJoined, PutRoom, DropRoom, RoomsExact
  <2>8. /\ \A d \in Conn : InServer(d)' <=> InServer(d) /\ d # c
        /\ \A d \in Conn : sock'[d] = "none" => sock[d] = "none"
        /\ participant' = participant
    BY <1>2 DEF OnCloseJoined, InServer, TypeOK
  <2>9. ASSUME NEW d \in Conn, NEW x \in RoomId
        PROVE  d \in Members(x)' <=> participant'[d] = x /\ InServer(d)'
    <3>1. d \in Members(x) <=> participant[d] = x /\ InServer(d)
      BY DEF RoomsExact
    <3>2. Members(r) = rooms[r]
      BY <2>1 DEF Members
    <3>3. CASE x = r BY <3>1, <3>2, <3>3, <2>6, <2>8
    <3>4. CASE x # r BY <3>1, <3>4, <2>6, <2>8
    <3>5. QED BY <3>3, <3>4
  <2>10. QED BY <2>5, <2>7, <2>8, <2>9 DEF RoomsExact, Fresh
<1>3. QED BY <1>1, <1>2 DEF OnClose

\* Any request of a client.
LEMMA RequestRoomsInv ==
    ASSUME RoomsInv, NEW c \in Conn, Request(c)
    PROVE  RoomsInv'
<1>1. CASE Ping(c) BY <1>1, ReplyRoomsInv, MessageTypes DEF Ping
<1>2. CASE CreateRoom(c) BY <1>2, ReplyRoomsInv, MessageTypes DEF CreateRoom
<1>3. CASE Refused(c)
  <2>1. Reply(c, Error)
    BY <1>3 DEF Refused, RateLimited, Malformed, JoinAgain, JoinInvalid, JoinFull,
                NotJoined, RelayNoTarget, InvalidPayload
  <2>2. QED BY <2>1, ReplyRoomsInv, MessageTypes
<1>4. CASE Chat(c)
  <2>1. inbox' \in [Conn -> Seq(Message)]
    BY <1>4, MessageTypes, BroadcastType DEF Chat, RoomsInv
  <2>2. TypeOK' BY <1>4, <2>1 DEF RoomsInv, TypeOK, Chat, server
  <2>3. QED BY <1>4, <2>2, ServerUntouched DEF Chat, server
<1>5. CASE \E r \in RoomId : Join(c, r) BY <1>5, JoinRoomsInv
<1>6. ASSUME NEW d \in Conn, NEW p \in Payload, Relay(c, d, p) PROVE RoomsInv'
  <2>1. inbox' \in [Conn -> Seq(Message)]
    BY <1>6, MessageTypes, SendToType DEF Relay, RoomsInv
  <2>2. TypeOK' BY <1>6, <2>1 DEF RoomsInv, TypeOK, Relay, server
  <2>3. QED BY <1>6, <2>2, ServerUntouched DEF Relay, server
<1>7. QED BY <1>1, <1>2, <1>3, <1>4, <1>5, <1>6 DEF Request

(***************************************************************************)
(* The steps of the network and of a client.                               *)
(***************************************************************************)
LEMMA NetworkRoomsInv ==
    ASSUME RoomsInv, NEW c \in Conn, Network(c)
    PROVE  RoomsInv'
<1> USE DEF RoomsInv
<1>1. CASE LinkLost(c)
  <2>1. TypeOK' BY <1>1 DEF TypeOK, LinkLost, server
  <2>2. QED BY <1>1, <2>1, ServerUntouched DEF LinkLost, server
<1>2. CASE SocketError(c) \/ ReceiveClose(c)
  <2>1. TypeOK' BY <1>2 DEF TypeOK, SocketError, ReceiveClose, client
  <2>2. UNCHANGED <<participant, rooms>>
    BY <1>2 DEF SocketError, ReceiveClose
  <2>3. \A d \in Conn : \/ sock'[d] = sock[d]
                        \/ sock[d] = "open" /\ sock'[d] = "closing"
    <3>1. sock \in [Conn -> {"none", "open", "closing", "closed"}]
      BY DEF TypeOK
    <3>2. QED BY <1>2, <3>1 DEF SocketError, ReceiveClose
  <2>4. QED BY <2>1, <2>2, <2>3, RoomsUntouched
<1>3. CASE PongReceived(c)
  <2>1. TypeOK' BY <1>3 DEF TypeOK, PongReceived, client
  <2>2. QED BY <1>3, <2>1, ServerUntouched DEF PongReceived
<1>4. QED BY <1>1, <1>2, <1>3 DEF Network

\* Any step of a client.
LEMMA ClientRoomsInv ==
    ASSUME RoomsInv, NEW c \in Conn, Client(c)
    PROVE  RoomsInv'
<1> USE DEF RoomsInv
<1>1. CASE Connect(c)
  <2>1. TypeOK' BY <1>1 DEF TypeOK, Connect
  <2>2. /\ participant[c] = NoRoom
        /\ UNCHANGED <<participant, rooms>>
        /\ \A d \in Conn : d # c => InServer(d)' = InServer(d)
        /\ \A d \in Conn : sock'[d] = "none" => sock[d] = "none"
    BY <1>1 DEF TypeOK, Connect, InServer, Fresh
  <2>3. QED BY <2>1, <2>2, SignalingAssumption DEF RoomsExact, Fresh, Members
<1>2. CASE ClientClose(c) \/ ClientSeesClose(c)
  <2>1. /\ link' = [link EXCEPT ![c] = "closed"]
        /\ inbox' = [inbox EXCEPT ![c] = <<>>]
        /\ roster' = [roster EXCEPT ![c] = {}]
        /\ UNCHANGED server
    BY <1>2 DEF ClientClose, ClientSeesClose
  <2>2. TypeOK' BY <2>1 DEF TypeOK, server
  <2>3. QED BY <2>1, <2>2, ServerUntouched DEF server
<1>3. CASE Deliver(c)
  <2>1. Head(inbox[c]) \in Message /\ Tail(inbox[c]) \in Seq(Message)
    BY <1>3 DEF TypeOK, Deliver
  <2>2. Learns(Head(inbox[c]), roster[c]) \in SUBSET Conn
    BY <2>1, LearnsType DEF TypeOK
  <2>3. TypeOK' BY <1>3, <2>1, <2>2 DEF TypeOK, Deliver, server
  <2>4. QED BY <1>3, <2>3, ServerUntouched DEF Deliver, server
<1>4. QED BY <1>1, <1>2, <1>3 DEF Client

(***************************************************************************)
(* Every step keeps the invariant.                                         *)
(***************************************************************************)
LEMMA RoomsInvNext == RoomsInv /\ [Next]_vars => RoomsInv'
<1> SUFFICES ASSUME RoomsInv, [Next]_vars PROVE RoomsInv'
  OBVIOUS
<1> USE DEF RoomsInv
<1>1. CASE HeartbeatTick
  <2>1. TypeOK' BY <1>1 DEF TypeOK, HeartbeatTick, client, InServer
  <2>2. UNCHANGED <<participant, rooms>>
    BY <1>1 DEF HeartbeatTick
  <2>3. \A d \in Conn : \/ sock'[d] = sock[d]
                        \/ sock[d] = "open" /\ sock'[d] = "closing"
    <3>1. sock \in [Conn -> {"none", "open", "closing", "closed"}]
      BY DEF TypeOK
    <3>2. QED BY <1>1, <3>1 DEF HeartbeatTick
  <2>4. QED BY <2>1, <2>2, <2>3, RoomsUntouched
<1>2. CASE Shutdown
  <2>1. TypeOK' BY <1>2 DEF TypeOK, Shutdown, client
  <2>2. UNCHANGED <<participant, rooms>>
    BY <1>2 DEF Shutdown
  <2>3. \A d \in Conn : \/ sock'[d] = sock[d]
                        \/ sock[d] = "open" /\ sock'[d] = "closing"
    <3>1. sock \in [Conn -> {"none", "open", "closing", "closed"}]
      BY DEF TypeOK
    <3>2. QED BY <1>2, <3>1 DEF Shutdown
  <2>4. QED BY <2>1, <2>2, <2>3, RoomsUntouched
<1>3. CASE Restart
  <2>1. TypeOK' BY <1>3 DEF TypeOK, Restart, client
  <2>2. RoomsExact'
    BY <1>3 DEF TypeOK, Restart, RoomsExact, Members, InServer
  <2>3. Fresh' BY <1>3 DEF TypeOK, Restart, Fresh
  <2>4. QED BY <2>1, <2>2, <2>3
<1>4. CASE UNCHANGED vars
  <2>1. TypeOK' BY <1>4 DEF vars, server, client, TypeOK
  <2>2. QED BY <1>4, <2>1, ServerUntouched DEF vars, server
<1>5. QED
  BY <1>1, <1>2, <1>3, <1>4, RequestRoomsInv, OnCloseRoomsInv, NetworkRoomsInv,
     ClientRoomsInv DEF Next

(***************************************************************************)
(* The state of the server and the messages under way have their types.    *)
(***************************************************************************)
THEOREM TypeCorrect == Spec => []TypeOK
<1>1. RoomsInv => TypeOK BY DEF RoomsInv
<1>2. QED BY <1>1, RoomsInvInit, RoomsInvNext, PTL DEF Spec

(***************************************************************************)
(* The Map of rooms is exact: rooms.get() of the room of a connection in   *)
(* wss.clients never returns undefined, and no room is kept empty.         *)
(***************************************************************************)
THEOREM RoomsAreExact == Spec => []RoomsExact
<1>1. RoomsInv => RoomsExact BY DEF RoomsInv
<1>2. QED BY <1>1, RoomsInvInit, RoomsInvNext, PTL DEF Spec

\* The invariant of the rooms holds of every behaviour.
LEMMA RoomsInvariant == Spec => []RoomsInv
BY RoomsInvInit, RoomsInvNext, PTL DEF Spec

-----------------------------------------------------------------------------
(***************************************************************************)
(* Of all the steps, only joining, the close of a joined connection and a  *)
(* restart touch a room; only joining touches a participant, and the       *)
(* others leave every socket in or out of wss.clients.                     *)
(***************************************************************************)
QuietStep ==
    /\ UNCHANGED <<participant, rooms>>
    /\ \A c \in Conn : participant[c] # NoRoom => (InServer(c)' <=> InServer(c))

\* Only a join, a close or a restart changes a room.
LEMMA StepCases ==
    ASSUME RoomsInv, [Next]_vars
    PROVE  \/ \E c \in Conn, r \in RoomId : Join(c, r)
           \/ \E c \in Conn : OnCloseJoined(c)
           \/ Restart
           \/ QuietStep
<1> DEFINE Same == UNCHANGED <<participant, rooms, sock>>
<1>1. Same => QuietStep
  BY DEF QuietStep, InServer
<1>2. sock \in [Conn -> {"none", "open", "closing", "closed"}] /\ Fresh
  BY DEF RoomsInv, TypeOK
<1>3. ASSUME NEW c \in Conn, Request(c)
      PROVE  Same \/ \E r \in RoomId : Join(c, r)
  BY <1>3 DEF Request, Ping, CreateRoom, Refused, RateLimited, Malformed, JoinAgain,
              JoinInvalid, JoinFull, NotJoined, RelayNoTarget, InvalidPayload, Reply,
              Chat, Relay, server
<1>4. ASSUME NEW c \in Conn, OnCloseUnjoined(c) PROVE QuietStep
  BY <1>2, <1>4 DEF QuietStep, OnCloseUnjoined, InServer
<1>5. ASSUME NEW c \in Conn, Network(c) PROVE QuietStep
  <2>1. CASE LinkLost(c) \/ PongReceived(c)
    BY <1>1, <2>1 DEF LinkLost, PongReceived, server
  <2>2. CASE SocketError(c) \/ ReceiveClose(c)
    BY <1>2, <2>2 DEF SocketError, ReceiveClose, QuietStep, InServer
  <2>3. QED BY <1>5, <2>1, <2>2 DEF Network
<1>6. ASSUME NEW c \in Conn, Client(c) PROVE QuietStep
  <2>1. CASE Connect(c)
    BY <1>2, <2>1 DEF Connect, Fresh, QuietStep, InServer
  <2>2. CASE ClientClose(c) \/ ClientSeesClose(c) \/ Deliver(c)
    BY <1>1, <2>2 DEF ClientClose, ClientSeesClose, Deliver, server
  <2>3. QED BY <1>6, <2>1, <2>2 DEF Client
<1>7. CASE HeartbeatTick
  BY <1>2, <1>7 DEF HeartbeatTick, QuietStep, InServer
<1>8. CASE Shutdown
  BY <1>2, <1>8 DEF Shutdown, QuietStep, InServer
<1>9. CASE UNCHANGED vars
  BY <1>1, <1>9 DEF vars, server
<1>10. QED
  BY <1>1, <1>3, <1>4, <1>5, <1>6, <1>7, <1>8, <1>9 DEF Next, OnClose

(***************************************************************************)
(* No room exceeds the limit.  That rooms are finite is part of the        *)
(* invariant, since the theorem does not assume that Conn is.              *)
(***************************************************************************)
RoomsBounded ==
    \A r \in DOMAIN rooms :
        IsFiniteSet(rooms[r]) /\ Cardinality(rooms[r]) <= MaxParticipants

\* Rooms stay within the capacity.
LEMMA RoomsBoundedNext ==
    ASSUME RoomsInv, RoomsBounded, [Next]_vars
    PROVE  RoomsBounded'
<1>1. ASSUME NEW c \in Conn, NEW r \in RoomId, Join(c, r) PROVE RoomsBounded'
  <2>1. IsFiniteSet(Members(r))
    BY FS_EmptySet DEF Members, RoomsBounded
  <2>2. IsFiniteSet(Members(r) \cup {c})
    BY <2>1, FS_AddElement
  <2>3. Cardinality(Members(r) \cup {c}) <= MaxParticipants
    <3>1. Cardinality(Members(r)) \in Nat
      BY <2>1, FS_CardinalityType
    <3>2. Cardinality(Members(r)) < MaxParticipants
      BY <1>1 DEF Join
    <3>3. Cardinality(Members(r) \cup {c}) =
            IF c \in Members(r) THEN Cardinality(Members(r))
                                ELSE Cardinality(Members(r)) + 1
      BY <2>1, FS_AddElement, Zenon
    <3>4. Cardinality(Members(r) \cup {c}) \in Nat
      BY <2>2, FS_CardinalityType
    <3>5. QED BY <3>1, <3>2, <3>3, <3>4, SignalingAssumption
  <2>4. QED BY <1>1, <2>2, <2>3 DEF Join, EnterRoom, PutRoom, RoomsBounded
<1>2. ASSUME NEW c \in Conn, OnCloseJoined(c) PROVE RoomsBounded'
  <2> DEFINE r == participant[c]
             others == rooms[r] \ {c}
  <2>1. r \in DOMAIN rooms
    BY <1>2 DEF OnCloseJoined, RoomsInv, RoomsExact, Members, InServer, TypeOK
  <2>2. IsFiniteSet(rooms[r]) /\ Cardinality(rooms[r]) <= MaxParticipants
    BY <2>1 DEF RoomsBounded
  <2>3. IsFiniteSet(others) /\ Cardinality(others) <= Cardinality(rooms[r])
    BY <2>2, FS_Subset, FS_RemoveElement
  <2>4. Cardinality(others) <= MaxParticipants
    <3>1. Cardinality(others) \in Nat /\ Cardinality(rooms[r]) \in Nat
      BY <2>2, <2>3, FS_CardinalityType
    <3> HIDE DEF r, others
    <3>2. QED BY <2>2, <2>3, <3>1, SignalingAssumption
  <2>5. \/ rooms' = [x \in DOMAIN rooms \ {r} |-> rooms[x]]
        \/ rooms' = [x \in DOMAIN rooms \cup {r} |-> IF x = r THEN others ELSE rooms[x]]
    BY <1>2 DEF OnCloseJoined, PutRoom, DropRoom
  <2> HIDE DEF r, others
  <2>6. QED BY <2>3, <2>4, <2>5 DEF RoomsBounded
<1>3. CASE Restart BY <1>3 DEF Restart, RoomsBounded
<1>4. CASE QuietStep BY <1>4 DEF QuietStep, RoomsBounded
<1>5. QED BY <1>1, <1>2, <1>3, <1>4, StepCases

(***************************************************************************)
(* No room ever holds more than the limit, whatever joins and closes race. *)
(***************************************************************************)
THEOREM CapacityHolds == Spec => []CapacityRespected
<1>1. Init => RoomsBounded
  BY DEF Init, RoomsBounded
<1>2. RoomsInv /\ RoomsBounded /\ [Next]_vars => RoomsBounded'
  BY RoomsBoundedNext
<1>3. RoomsBounded => CapacityRespected
  BY DEF RoomsBounded, CapacityRespected
<1>4. QED BY <1>1, <1>2, <1>3, RoomsInvariant, PTL DEF Spec

-----------------------------------------------------------------------------
(***************************************************************************)
(* The refinement.  In a state where the Map of rooms is exact, the        *)
(* abstract room r of the refinement mapping is the Map's room r.          *)
(***************************************************************************)
Where == [c \in Conn |->
            IF participant[c] = NoRoom THEN NoRoom
            ELSE IF InServer(c) THEN participant[c] ELSE Gone]

\* A room of the abstract membership holds the members of the room.
LEMMA AbstractRoom ==
    ASSUME RoomsInv, NEW r \in RoomId
    PROVE  {c \in Conn : Where[c] = r} = Members(r)
<1>1. Members(r) \subseteq Conn
  BY DEF RoomsInv, TypeOK, Members
<1>2. \A c \in Conn : Where[c] = r <=> participant[c] = r /\ InServer(c)
  BY SignalingAssumption DEF Where
<1>3. QED BY <1>1, <1>2 DEF RoomsInv, RoomsExact

\* The instance has its own copy of the definition of Cardinality.
LEMMA SameCardinality == ASSUME NEW S PROVE Membership!Cardinality(S) = Cardinality(S)
BY DEF Membership!Cardinality, Cardinality

\* Every step is one of the membership, or a stutter.
LEMMA AbstractStep ==
    ASSUME RoomsInv, [Next]_vars
    PROVE  [Membership!MembershipNext]_Where
<1> USE SignalingAssumption
<1>1. /\ participant \in [Conn -> RoomId \cup {NoRoom}]
      /\ sock \in [Conn -> {"none", "open", "closing", "closed"}]
  BY DEF RoomsInv, TypeOK
<1>2. ASSUME NEW c \in Conn, NEW r \in RoomId, Join(c, r)
      PROVE  Membership!Enter(c, r)
  <2>1. participant[c] = NoRoom /\ InServer(c)
    BY <1>2 DEF Join, Receives
  <2>2. Cardinality(Members(r)) < MaxParticipants
    BY <1>2 DEF Join
  <2>3. Where[c] = NoRoom
    BY <2>1 DEF Where
  <2>4. /\ participant' = [participant EXCEPT ![c] = r]
        /\ sock' = sock
    BY <1>2 DEF Join, EnterRoom
  <2>5. Where' = [Where EXCEPT ![c] = r]
    BY <1>1, <2>1, <2>4 DEF Where, InServer
  <2>6. Cardinality({d \in Conn : Where[d] = r}) < MaxParticipants
    BY <2>2, AbstractRoom
  <2>7. QED
    BY <2>3, <2>5, <2>6, SameCardinality
       DEF Membership!Enter, Membership!InRoom, Where
<1>3. ASSUME NEW c \in Conn, OnCloseJoined(c)
      PROVE  Membership!Leave(c)
  <2>1. participant[c] \in RoomId /\ InServer(c)
    BY <1>1, <1>3 DEF OnCloseJoined, InServer
  <2>2. /\ sock' = [sock EXCEPT ![c] = "closed"]
        /\ participant' = participant
    BY <1>3 DEF OnCloseJoined
  <2>3. Where[c] \in RoomId
    BY <2>1 DEF Where
  <2>4. Where' = [Where EXCEPT ![c] = Gone]
    BY <1>1, <2>1, <2>2 DEF Where, InServer
  <2>5. QED BY <2>3, <2>4 DEF Membership!Leave, Where
<1>4. CASE Restart
  <2>1. \A c \in Conn : InServer(c)' = FALSE
    BY <1>4 DEF Restart, InServer
  <2>2. participant' = participant
    BY <1>4 DEF Restart
  <2>3. \A c \in Conn :
          Where'[c] = IF Where[c] \in RoomId THEN Gone ELSE Where[c]
    BY <1>1, <2>1, <2>2 DEF Where
  <2>4. Where' = [c \in Conn |-> IF Where[c] \in RoomId THEN Gone ELSE Where[c]]
    BY <2>3 DEF Where
  <2>5. QED BY <2>4 DEF Membership!MembershipNext, Membership!EmptyRooms, Where
<1>5. CASE QuietStep
  <2>1. Where' = Where
    BY <1>5 DEF QuietStep, Where
  <2>2. QED BY <2>1
<1>6. QED
  BY <1>2, <1>3, <1>4, <1>5, StepCases DEF Membership!MembershipNext

(***************************************************************************)
(* The server implements RoomMembership: a connection is in at most one    *)
(* room in its life, within the limit, and never comes back.               *)
(***************************************************************************)
THEOREM RoomsImplementMembership == Spec => ImplementsMembership
<1>1. Init => Membership!MembershipInit
  BY DEF Init, Membership!MembershipInit
<1>2. RoomsInv /\ [Next]_vars => [Membership!MembershipNext]_Where
  BY AbstractStep
<1>3. QED
  BY <1>1, <1>2, RoomsInvariant, PTL
     DEF Spec, ImplementsMembership, Membership!MembershipSpec, Where

-----------------------------------------------------------------------------
(***************************************************************************)
(* What the clients are told, for any number of messages under way.        *)
(*                                                                         *)
(* RosterConverges and SpokenOfWhileKnown need each other: what is sent    *)
(* about a participant is sent to those that will know it, and a client    *)
(* goes on to know it because no introduction follows a departure          *)
(* (NoComeback).  Isolated rules out that anybody has heard of a           *)
(* connection before it joins.                                             *)
(***************************************************************************)

\* d is in the roster of c or in a message to c
Hears(c, d) == d \in roster[c] \/ \E i \in DOMAIN inbox[c] : d \in Mentioned(inbox[c][i])

IsolatedAt(c) ==
    \A d \in Conn : Hears(c, d) => participant[d] = participant[c] /\ participant[c] # NoRoom

ConvergesAt(c) ==
    \A x \in Conn : Reaches(c) /\ participant[c] # NoRoom =>
        (x \in Members(participant[c]) <=> WillKnow(c, x) /\ ~WillForget(c, x))

Spoken(m) == m.type \in {"participant.left", "webrtc", "chat.message"}

SpokenAt(c) ==
    \A i \in DOMAIN inbox[c] : Spoken(inbox[c][i]) => KnownAt(c, inbox[c][i].participant, i)

NoComebackAt(c) ==
    \A x \in Conn : \A j \in DOMAIN inbox[c] : \A i \in 1..(j-1) :
        inbox[c][i] = Departure(x) => ~Introduces(inbox[c][j], x)

ToldAt(c) == IsolatedAt(c) /\ ConvergesAt(c) /\ SpokenAt(c) /\ NoComebackAt(c)

RosterInv == RoomsInv /\ \A c \in Conn : ToldAt(c)

-----------------------------------------------------------------------------
(* Messages and sequences of messages. *)

\* The messages that name a connection.
LEMMA MessageFields ==
    ASSUME NEW m \in Message
    PROVE  /\ Mentioned(m) \subseteq Conn
           /\ Spoken(m) => m.participant \in Conn /\ Mentioned(m) = {m.participant}
           /\ m.type = "room.joined" => m.participants \subseteq Conn
BY DEF Message, Mentioned, Spoken, Pong, RoomCreated, Error

\* Who is introduced, or departs, is named.
LEMMA IntroducesMentions ==
    ASSUME NEW m, NEW x
    PROVE  /\ Introduces(m, x) => x \in Mentioned(m)
           /\ m = Departure(x) => x \in Mentioned(m) /\ Spoken(m) /\ m.participant = x
BY DEF Introduces, Mentioned, Introduction, Departure, Spoken

\* Where the messages are after one more,
LEMMA AppendIndex ==
    ASSUME NEW s \in Seq(Message), NEW m \in Message
    PROVE  /\ Len(s) \in Nat /\ DOMAIN s = 1..Len(s)
           /\ DOMAIN Append(s, m) = 1..(Len(s) + 1)
           /\ \A i \in 1..Len(s) : Append(s, m)[i] = s[i]
           /\ Append(s, m)[Len(s) + 1] = m
OBVIOUS

\* and after one less.
LEMMA TailIndex ==
    ASSUME NEW s \in Seq(Message), s # <<>>
    PROVE  /\ Len(s) \in Nat \ {0} /\ DOMAIN s = 1..Len(s)
           /\ Head(s) = s[1] /\ Tail(s) \in Seq(Message)
           /\ DOMAIN Tail(s) = 1..(Len(s) - 1)
           /\ \A i \in 1..(Len(s) - 1) : Tail(s)[i] = s[i + 1]
OBVIOUS

\* Only connections are heard of.
LEMMA HearsConn ==
    ASSUME TypeOK, NEW c \in Conn, NEW x
    PROVE  /\ Hears(c, x) => x \in Conn
           /\ WillKnow(c, x) => Hears(c, x)
           /\ WillForget(c, x) => Hears(c, x)
<1>1. roster[c] \subseteq Conn /\ \A i \in DOMAIN inbox[c] : inbox[c][i] \in Message
  BY DEF TypeOK
<1>2. QED BY <1>1, MessageFields, IntroducesMentions DEF Hears, WillKnow, WillForget

-----------------------------------------------------------------------------
(* One more message for c. *)

\* What a client will know after one message more.
LEMMA AppendFacts ==
    ASSUME TypeOK, NEW c \in Conn, NEW m \in Message,
           inbox'[c] = Append(inbox[c], m), roster'[c] = roster[c],
           NEW x
    PROVE  /\ WillKnow(c, x)' <=> WillKnow(c, x) \/ Introduces(m, x)
           /\ WillForget(c, x)' <=> WillForget(c, x) \/ m = Departure(x)
           /\ Hears(c, x)' <=> Hears(c, x) \/ x \in Mentioned(m)
<1> DEFINE s == inbox[c]
<1>1. s \in Seq(Message) BY DEF TypeOK
<1>2. /\ Len(s) \in Nat /\ DOMAIN s = 1..Len(s)
      /\ DOMAIN inbox'[c] = 1..(Len(s) + 1)
      /\ \A i \in 1..Len(s) : inbox'[c][i] = s[i]
      /\ inbox'[c][Len(s) + 1] = m
  BY <1>1, AppendIndex
<1> HIDE DEF s
<1>3. \A i : i \in 1..(Len(s) + 1) <=> i \in 1..Len(s) \/ i = Len(s) + 1
  BY <1>2
<1>4. WillKnow(c, x)' <=> WillKnow(c, x) \/ Introduces(m, x)
  BY <1>2, <1>3 DEF WillKnow, s
<1>5. WillForget(c, x)' <=> WillForget(c, x) \/ m = Departure(x)
  BY <1>2, <1>3 DEF WillForget, s
<1>6. Hears(c, x)' <=> Hears(c, x) \/ x \in Mentioned(m)
  BY <1>2, <1>3 DEF Hears, s
<1>7. QED BY <1>4, <1>5, <1>6

\* A message about somebody the client will know by then.
LEMMA AppendSpoken ==
    ASSUME TypeOK, NEW c \in Conn, SpokenAt(c), NEW m \in Message,
           inbox'[c] = Append(inbox[c], m), roster'[c] = roster[c],
           Spoken(m) => WillKnow(c, m.participant) /\ ~WillForget(c, m.participant)
    PROVE  SpokenAt(c)'
<1> DEFINE s == inbox[c]
<1>1. s \in Seq(Message) BY DEF TypeOK
<1>2. /\ Len(s) \in Nat /\ DOMAIN s = 1..Len(s)
      /\ DOMAIN inbox'[c] = 1..(Len(s) + 1)
      /\ \A i \in 1..Len(s) : inbox'[c][i] = s[i]
      /\ inbox'[c][Len(s) + 1] = m
  BY <1>1, AppendIndex
<1> SUFFICES ASSUME NEW i \in 1..(Len(s) + 1), Spoken(inbox[c][i])'
             PROVE  KnownAt(c, inbox[c][i].participant, i)'
  BY <1>2 DEF SpokenAt
<1>3. CASE i \in 1..Len(s)
  <2>1. KnownAt(c, s[i].participant, i)
    BY <1>2, <1>3 DEF SpokenAt, Spoken
  <2>2. \A j \in 1..(i-1) : inbox'[c][j] = s[j]
    BY <1>2, <1>3
  <2>3. inbox'[c][i] = s[i]
    BY <1>2, <1>3
  <2>4. QED BY <2>1, <2>2, <2>3 DEF KnownAt
<1>4. CASE i = Len(s) + 1
  <2>1. WillKnow(c, m.participant) /\ ~WillForget(c, m.participant)
    BY <1>2, <1>4 DEF Spoken
  <2>2. 1..(i-1) = DOMAIN s
    BY <1>2, <1>4
  <2>3. \A j \in DOMAIN s : inbox'[c][j] = s[j]
    BY <1>2
  <2>4. inbox'[c][i] = m
    BY <1>2, <1>4
  <2>5. QED BY <2>1, <2>2, <2>3, <2>4 DEF KnownAt, WillKnow, WillForget
<1>5. QED BY <1>2, <1>3, <1>4

\* A message that introduces nobody who is about to be forgotten.
LEMMA AppendComeback ==
    ASSUME TypeOK, NEW c \in Conn, NoComebackAt(c), NEW m \in Message,
           inbox'[c] = Append(inbox[c], m),
           \A x \in Conn : Introduces(m, x) => ~WillForget(c, x)
    PROVE  NoComebackAt(c)'
<1> DEFINE s == inbox[c]
<1>1. s \in Seq(Message) BY DEF TypeOK
<1>2. /\ Len(s) \in Nat /\ DOMAIN s = 1..Len(s)
      /\ DOMAIN inbox'[c] = 1..(Len(s) + 1)
      /\ \A i \in 1..Len(s) : inbox'[c][i] = s[i]
      /\ inbox'[c][Len(s) + 1] = m
  BY <1>1, AppendIndex
<1> SUFFICES ASSUME NEW x \in Conn, NEW j \in 1..(Len(s) + 1), NEW i \in 1..(j-1),
                    inbox'[c][i] = Departure(x)
             PROVE  ~Introduces(inbox'[c][j], x)
  BY <1>2 DEF NoComebackAt
<1>3. i \in 1..Len(s) /\ s[i] = Departure(x)
  BY <1>2
<1>4. CASE j \in 1..Len(s)
  BY <1>2, <1>3, <1>4 DEF NoComebackAt
<1>5. CASE j = Len(s) + 1
  BY <1>2, <1>3, <1>5 DEF WillForget
<1>6. QED BY <1>2, <1>4, <1>5

-----------------------------------------------------------------------------
(***************************************************************************)
(* Every step is of one of these kinds, as far as the rosters go.          *)
(***************************************************************************)

\* a message that tells c of nothing but what a participant of its room says
Tellable(c, m) ==
    /\ m \in Message
    /\ m.type \notin {"room.joined", "participant.joined", "participant.left"}
    /\ \A x \in Mentioned(m) : participant[c] # NoRoom /\ x \in Members(participant[c])
    /\ m.type = "webrtc" => m.participant # c

Tell ==
    /\ UNCHANGED <<server, link, roster>>
    /\ \A c \in Conn : \/ inbox'[c] = inbox[c]
                       \/ /\ Reaches(c)
                          /\ \E m : Tellable(c, m) /\ inbox'[c] = Append(inbox[c], m)

\* c forgets what it was told, and is not reached any more
Forget(c) ==
    /\ UNCHANGED server
    /\ link'[c] # "up" /\ inbox'[c] = <<>> /\ roster'[c] \in {roster[c], {}}
    /\ \A d \in Conn \ {c} : link'[d] = link[d] /\ inbox'[d] = inbox[d] /\ roster'[d] = roster[d]

\* nobody is told anything, and no participant is reached that was not
Fade ==
    /\ UNCHANGED <<participant, rooms, inbox, roster>>
    /\ \A c \in Conn : participant[c] # NoRoom /\ Reaches(c)' => Reaches(c)

StepKind ==
    \/ \E c \in Conn, r \in RoomId : Join(c, r)
    \/ \E c \in Conn : OnCloseJoined(c)
    \/ Restart
    \/ Tell
    \/ \E c \in Conn : Deliver(c) \/ Forget(c)
    \/ Fade

\* A reply is a message about nobody.
LEMMA ReplyTells ==
    ASSUME TypeOK, NEW c \in Conn, Reply(c, Pong) \/ Reply(c, RoomCreated) \/ Reply(c, Error)
    PROVE  Tell
<1>1. PICK m \in {Pong, RoomCreated, Error} : Reply(c, m)
  OBVIOUS
<1>2. \A d : Tellable(d, m)
  BY MessageTypes DEF Tellable, Mentioned, Pong, RoomCreated, Error
<1>3. \A d \in Conn : \/ inbox'[d] = inbox[d]
                      \/ Reaches(d) /\ inbox'[d] = Append(inbox[d], m)
  BY <1>1 DEF Reply, SendTo, TypeOK
<1>4. QED BY <1>1, <1>2, <1>3 DEF Reply, Tell

\* A chat message is about a member, to the members.
LEMMA ChatTells ==
    ASSUME RoomsInv, NEW c \in Conn, Chat(c)
    PROVE  Tell
<1>1. /\ participant[c] \in RoomId /\ c \in Members(participant[c])
      /\ \A d \in Members(participant[c]) : participant[d] = participant[c] /\ d \in Conn
      /\ rooms[participant[c]] = Members(participant[c])
  BY DEF Chat, Receives, RoomsInv, RoomsExact, TypeOK, Members
<1>2. \A d \in Members(participant[c]) : Tellable(d, ChatMessage(c))
  BY <1>1, MessageTypes, SignalingAssumption DEF Tellable, Mentioned, ChatMessage
<1>3. \A d \in Conn : \/ inbox'[d] = inbox[d]
                      \/ /\ d \in Members(participant[c]) /\ Reaches(d)
                         /\ inbox'[d] = Append(inbox[d], ChatMessage(c))
  BY <1>1 DEF Chat, Broadcast
<1>4. QED BY <1>2, <1>3 DEF Chat, Tell

\* A signal is about a member, to a member of the same room.
LEMMA RelayTells ==
    ASSUME RoomsInv, NEW c \in Conn, NEW d \in Conn, NEW p \in Payload, Relay(c, d, p)
    PROVE  Tell
<1>1. /\ participant[c] \in RoomId /\ c \in Members(participant[c])
      /\ d \in Members(participant[c]) /\ participant[d] = participant[c] /\ d # c
  BY DEF Relay, Receives, RoomsInv, RoomsExact, TypeOK, Members
<1>2. Tellable(d, Signal(c, p))
  BY <1>1, MessageTypes, SignalingAssumption DEF Tellable, Mentioned, Signal
<1>3. \A e \in Conn : \/ inbox'[e] = inbox[e]
                      \/ e = d /\ Reaches(d) /\ inbox'[e] = Append(inbox[e], Signal(c, p))
  BY DEF Relay, SendTo, RoomsInv, TypeOK
<1>4. QED BY <1>2, <1>3 DEF Relay, Tell

\* The steps besides the requests of the clients.
LEMMA StepsAside ==
    ASSUME RoomsInv, [Next]_vars, \A c \in Conn : ~Request(c)
    PROVE  \/ \E c \in Conn : OnCloseJoined(c)
           \/ Restart \/ Fade
           \/ \E c \in Conn : Deliver(c) \/ Forget(c)
<1>1. /\ sock \in [Conn -> {"none", "open", "closing", "closed"}]
      /\ link \in [Conn -> {"none", "up", "closed", "lost"}]
      /\ inbox \in [Conn -> Seq(Message)] /\ roster \in [Conn -> SUBSET Conn]
      /\ Fresh /\ TypeOK
  BY DEF RoomsInv, TypeOK
<1>2. ASSUME NEW c \in Conn, OnCloseUnjoined(c) PROVE Fade
  BY <1>1, <1>2 DEF OnCloseUnjoined, Fade, Reaches, client
<1>3. ASSUME NEW c \in Conn, SocketError(c) \/ ReceiveClose(c) \/ PongReceived(c) PROVE Fade
  BY <1>1, <1>3 DEF SocketError, ReceiveClose, PongReceived, Fade, Reaches, client
<1>4. ASSUME NEW c \in Conn, Connect(c) PROVE Fade
  BY <1>1, <1>4 DEF Connect, Fade, Reaches, Fresh
<1>5. ASSUME NEW c \in Conn, ClientClose(c) \/ ClientSeesClose(c) \/ LinkLost(c) PROVE Forget(c)
  <2>1. /\ UNCHANGED server
        /\ \/ link' = [link EXCEPT ![c] = "closed"]
           \/ link' = [link EXCEPT ![c] = "lost"]
        /\ inbox' = [inbox EXCEPT ![c] = <<>>]
        /\ roster' = roster \/ roster' = [roster EXCEPT ![c] = {}]
    BY <1>5 DEF ClientClose, ClientSeesClose, LinkLost
  <2>2. QED BY <1>1, <2>1 DEF Forget
<1>6. CASE HeartbeatTick
  <2>1. /\ UNCHANGED <<participant, rooms, link, inbox, roster>>
        /\ \A c \in Conn : sock'[c] = "open" => sock[c] = "open"
    BY <1>1, <1>6 DEF HeartbeatTick, client
  <2>2. QED BY <2>1 DEF Fade, Reaches
<1>7. CASE Shutdown
  <2>1. /\ UNCHANGED <<participant, rooms, link, inbox, roster>>
        /\ \A c \in Conn : sock'[c] = "open" => sock[c] = "open"
    BY <1>1, <1>7 DEF Shutdown, client
  <2>2. QED BY <2>1 DEF Fade, Reaches
<1>8. CASE UNCHANGED vars
  BY <1>8 DEF vars, server, client, Fade, Reaches
<1>9. QED
  BY <1>2, <1>3, <1>4, <1>5, <1>6, <1>7, <1>8
     DEF Next, OnClose, Network, Client

\* The steps of the server, by what they tell.
LEMMA StepKinds ==
    ASSUME RoomsInv, [Next]_vars
    PROVE  StepKind
<1>1. ASSUME NEW c \in Conn, Request(c) PROVE StepKind
  <2>1. CASE Ping(c) \/ CreateRoom(c) \/ Refused(c)
    <3>1. Reply(c, Pong) \/ Reply(c, RoomCreated) \/ Reply(c, Error)
      BY <2>1 DEF Ping, CreateRoom, Refused, RateLimited, Malformed, JoinAgain, JoinInvalid,
                  JoinFull, NotJoined, RelayNoTarget, InvalidPayload
    <3>2. QED BY <3>1, ReplyTells DEF StepKind, RoomsInv
  <2>2. QED BY <1>1, <2>1, ChatTells, RelayTells DEF Request, StepKind
<1>2. CASE \A c \in Conn : ~Request(c)
  BY <1>2, StepsAside DEF StepKind
<1>3. QED BY <1>1, <1>2

-----------------------------------------------------------------------------
(* Each kind of step keeps what the client e is told in order. *)

\* A client that is told nothing.
LEMMA SameTold ==
    ASSUME NEW e \in Conn, inbox'[e] = inbox[e], roster'[e] = roster[e]
    PROVE  /\ \A x : /\ WillKnow(e, x)' <=> WillKnow(e, x)
                     /\ WillForget(e, x)' <=> WillForget(e, x)
                     /\ Hears(e, x)' <=> Hears(e, x)
           /\ SpokenAt(e)' <=> SpokenAt(e)
           /\ NoComebackAt(e)' <=> NoComebackAt(e)
<1>1. \A x : /\ WillKnow(e, x)' <=> WillKnow(e, x)
             /\ WillForget(e, x)' <=> WillForget(e, x)
             /\ Hears(e, x)' <=> Hears(e, x)
  BY DEF WillKnow, WillForget, Hears
<1>2. SpokenAt(e)' <=> SpokenAt(e)
  BY DEF SpokenAt, KnownAt, Spoken
<1>3. NoComebackAt(e)' <=> NoComebackAt(e)
  BY DEF NoComebackAt
<1>4. QED BY <1>1, <1>2, <1>3

\* Members hear about members.
LEMMA TellKeeps ==
    ASSUME RosterInv, Tell, NEW e \in Conn
    PROVE  ToldAt(e)'
<1>1. /\ TypeOK /\ ToldAt(e) /\ roster'[e] = roster[e] /\ participant' = participant
      /\ Reaches(e)' <=> Reaches(e)
      /\ \A r : Members(r)' = Members(r)
  BY DEF RosterInv, RoomsInv, Tell, Reaches, Members, server
<1>2. CASE inbox'[e] = inbox[e]
  BY <1>1, <1>2, SameTold DEF ToldAt, IsolatedAt, ConvergesAt
<1>3. ASSUME NEW m, Reaches(e), Tellable(e, m), inbox'[e] = Append(inbox[e], m)
      PROVE  ToldAt(e)'
  <2>1. m \in Message /\ Mentioned(m) \subseteq Conn
    BY <1>3, MessageFields DEF Tellable
  <2>2. \A x : ~Introduces(m, x) /\ m # Departure(x)
    BY <1>3 DEF Tellable, Introduces, Introduction, Departure
  <2>3. \A x \in Mentioned(m) :
          /\ participant[e] # NoRoom /\ x \in Members(participant[e])
          /\ participant[x] = participant[e]
    BY <1>3, <2>1 DEF Tellable, RosterInv, RoomsInv, RoomsExact, TypeOK
  <2>4. \A x : /\ WillKnow(e, x)' <=> WillKnow(e, x)
               /\ WillForget(e, x)' <=> WillForget(e, x)
               /\ Hears(e, x)' <=> Hears(e, x) \/ x \in Mentioned(m)
    BY <1>1, <1>3, <2>1, <2>2, AppendFacts
  <2>5. IsolatedAt(e)'
    BY <1>1, <2>3, <2>4 DEF IsolatedAt, ToldAt
  <2>6. ConvergesAt(e)'
    BY <1>1, <2>4 DEF ConvergesAt, ToldAt
  <2>7. Spoken(m) => WillKnow(e, m.participant) /\ ~WillForget(e, m.participant)
    BY <1>1, <1>3, <2>1, <2>3, MessageFields DEF ConvergesAt, ToldAt
  <2>8. SpokenAt(e)' /\ NoComebackAt(e)'
    BY <1>1, <1>3, <2>1, <2>2, <2>7, AppendSpoken, AppendComeback DEF ToldAt
  <2>9. QED BY <2>5, <2>6, <2>8 DEF ToldAt
<1>4. QED BY <1>2, <1>3 DEF Tell

\* A socket drops with what was under way.
LEMMA FadeKeeps ==
    ASSUME RosterInv, Fade, NEW e \in Conn
    PROVE  ToldAt(e)'
<1>1. /\ ToldAt(e) /\ participant' = participant /\ roster' = roster /\ inbox' = inbox
      /\ participant[e] # NoRoom /\ Reaches(e)' => Reaches(e)
      /\ \A r : Members(r)' = Members(r)
  BY DEF RosterInv, Fade, Members
<1>2. QED BY <1>1, SameTold DEF ToldAt, IsolatedAt, ConvergesAt

\* The server restarts.
LEMMA RestartKeeps ==
    ASSUME RosterInv, Restart, NEW e \in Conn
    PROVE  ToldAt(e)'
<1>1. /\ ToldAt(e) /\ participant' = participant /\ roster' = roster /\ inbox' = inbox
  BY DEF RosterInv, Restart, client
<1>2. ~Reaches(e)'
  BY DEF RosterInv, RoomsInv, TypeOK, Restart, Reaches
<1>3. QED BY <1>1, <1>2, SameTold DEF ToldAt, IsolatedAt, ConvergesAt

\* A client leaves and forgets.
LEMMA ForgetKeeps ==
    ASSUME RosterInv, NEW c \in Conn, Forget(c), NEW e \in Conn
    PROVE  ToldAt(e)'
<1>1. /\ ToldAt(e) /\ participant' = participant
      /\ \A r : Members(r)' = Members(r)
  BY DEF RosterInv, Forget, Members, server
<1>2. CASE e = c
  <2>1. DOMAIN inbox'[e] = {} /\ roster'[e] \subseteq roster[e] /\ ~Reaches(e)'
    BY <1>2 DEF Forget, Reaches
  <2>2. \A x : Hears(e, x)' => Hears(e, x)
    BY <2>1 DEF Hears
  <2>3. SpokenAt(e)' /\ NoComebackAt(e)'
    BY <2>1 DEF SpokenAt, NoComebackAt
  <2>4. QED BY <1>1, <2>1, <2>2, <2>3 DEF ToldAt, IsolatedAt, ConvergesAt
<1>3. CASE e # c
  <2>1. inbox'[e] = inbox[e] /\ roster'[e] = roster[e] /\ (Reaches(e)' <=> Reaches(e))
    BY <1>3 DEF Forget, Reaches, server
  <2>2. QED BY <1>1, <2>1, SameTold DEF ToldAt, IsolatedAt, ConvergesAt
<1>4. QED BY <1>2, <1>3
\* What a message changes in a roster
LEMMA LearnsFacts ==
    ASSUME NEW m \in Message, NEW S \in SUBSET Conn, NEW x \in Conn
    PROVE  x \in Learns(m, S) <=> (x \in S /\ m # Departure(x)) \/ Introduces(m, x)
<1>1. CASE m.type = "room.joined"
  BY <1>1 DEF Learns, Introduces, Introduction, Departure
<1>2. CASE m.type = "participant.joined"
  <2>1. m \in [type : {"participant.joined"}, participant : Conn]
    BY <1>2 DEF Message, Pong, RoomCreated, Error
  <2>2. m = Introduction(x) <=> m.participant = x
    BY <2>1 DEF Introduction
  <2>3. QED BY <1>2, <2>2 DEF Learns, Introduces, Departure
<1>3. CASE m.type = "participant.left"
  <2>1. m \in [type : {"participant.left"}, participant : Conn]
    BY <1>3 DEF Message, Pong, RoomCreated, Error
  <2>2. m = Departure(x) <=> m.participant = x
    BY <2>1 DEF Departure
  <2>3. QED BY <1>3, <2>2 DEF Learns, Introduces, Introduction
<1>4. CASE m.type \notin {"room.joined", "participant.joined", "participant.left"}
  BY <1>4 DEF Learns, Introduces, Introduction, Departure
<1>5. QED BY <1>1, <1>2, <1>3, <1>4

\* A client reads a message.
LEMMA DeliverKeeps ==
    ASSUME RosterInv, NEW c \in Conn, Deliver(c), NEW e \in Conn
    PROVE  ToldAt(e)'
<1>1. /\ TypeOK /\ ToldAt(e) /\ participant' = participant /\ (Reaches(e)' <=> Reaches(e))
      /\ \A r : Members(r)' = Members(r)
  BY DEF RosterInv, RoomsInv, Deliver, Reaches, Members, server
<1>2. CASE e # c
  <2>1. inbox'[e] = inbox[e] /\ roster'[e] = roster[e]
    BY <1>1, <1>2 DEF Deliver, TypeOK
  <2>2. QED BY <1>1, <2>1, SameTold DEF ToldAt, IsolatedAt, ConvergesAt
<1>3. CASE e = c
  <2> DEFINE s == inbox[c]
             h == s[1]
  <2>1. /\ s \in Seq(Message) /\ s # <<>> /\ roster[c] \in SUBSET Conn
        /\ inbox'[c] = Tail(s) /\ roster'[c] = Learns(Head(s), roster[c])
    BY <1>1 DEF Deliver, TypeOK
  <2>2. /\ Len(s) \in Nat \ {0} /\ DOMAIN s = 1..Len(s) /\ Head(s) = h
        /\ DOMAIN inbox'[c] = 1..(Len(s) - 1)
        /\ \A i \in 1..(Len(s) - 1) : inbox'[c][i] = s[i + 1]
    BY <2>1, TailIndex
  <2>3. h \in Message
    BY <2>1, <2>2
  <2>4. \A x \in Conn : x \in roster'[c] <=> (x \in roster[c] /\ h # Departure(x)) \/ Introduces(h, x)
    BY <2>1, <2>2, <2>3, LearnsFacts
  <2> HIDE DEF s, h
  <2>5. /\ 1 \in 1..Len(s) /\ \A j \in 1..(Len(s) - 1) : j + 1 \in 1..Len(s)
        /\ \A i \in 1..Len(s) : i # 1 => \E j \in 1..(Len(s) - 1) : s[i] = s[j + 1]
    <3>1. ASSUME NEW i \in 1..Len(s), i # 1
          PROVE  \E j \in 1..(Len(s) - 1) : s[i] = s[j + 1]
      <4>1. i - 1 \in 1..(Len(s) - 1) /\ (i - 1) + 1 = i
        BY <2>2, <3>1
      <4>2. QED BY <4>1
    <3>2. Len(s) \in Nat \ {0}
      BY <2>2
    <3>3. 1 \in 1..Len(s) /\ \A j \in 1..(Len(s) - 1) : j + 1 \in 1..Len(s)
      BY <3>2
    <3>4. QED BY <3>1, <3>3, Zenon
  <2>6. \A x \in Conn : WillForget(c, x) <=> h = Departure(x) \/ WillForget(c, x)'
    <3>1. \A x : WillForget(c, x) <=> \E i \in 1..Len(s) : s[i] = Departure(x)
      BY <2>2 DEF WillForget, s
    <3>2. \A x : WillForget(c, x)' <=> \E j \in 1..(Len(s) - 1) : s[j + 1] = Departure(x)
      BY <2>2 DEF WillForget
    <3>3. QED BY <2>5, <3>1, <3>2 DEF h
  <2>7. \A x \in Conn : h # Departure(x) => (WillKnow(c, x)' <=> WillKnow(c, x))
    <3>1. \A x : WillKnow(c, x) <=>
                   x \in roster[c] \/ \E i \in 1..Len(s) : Introduces(s[i], x)
      BY <2>2 DEF WillKnow, s
    <3>2. \A x : WillKnow(c, x)' <=>
                   x \in roster'[c] \/ \E j \in 1..(Len(s) - 1) : Introduces(s[j + 1], x)
      BY <2>2 DEF WillKnow
    <3>3. QED BY <2>4, <2>5, <3>1, <3>2 DEF h
  <2>8. \A x \in Conn : h = Departure(x) => ~WillKnow(c, x)'
    <3> SUFFICES ASSUME NEW x \in Conn, h = Departure(x) PROVE ~WillKnow(c, x)'
      OBVIOUS
    <3>1. \A j \in 1..(Len(s) - 1) : ~Introduces(s[j + 1], x)
      BY <1>1, <1>3, <2>2 DEF ToldAt, NoComebackAt, s, h
    <3>2. ~Introduces(h, x)
      BY DEF Introduces, Introduction, Departure
    <3>3. QED BY <2>2, <2>4, <3>1, <3>2 DEF WillKnow
  <2>9. \A x \in Conn : Hears(c, x)' => Hears(c, x)
    BY <2>2, <2>4, <2>5, IntroducesMentions DEF Hears, s, h
  <2>10. IsolatedAt(c)' /\ ConvergesAt(c)'
    BY <1>1, <1>3, <2>6, <2>7, <2>8, <2>9 DEF ToldAt, IsolatedAt, ConvergesAt
  <2>11. NoComebackAt(c)'
    <3> SUFFICES ASSUME NEW x \in Conn, NEW j \in 1..(Len(s) - 1), NEW i \in 1..(j-1),
                        inbox'[c][i] = Departure(x)
                 PROVE  ~Introduces(inbox'[c][j], x)
      BY <2>2 DEF NoComebackAt
    <3>1. /\ s[i + 1] = Departure(x) /\ i + 1 \in 1..((j + 1) - 1) /\ j + 1 \in 1..Len(s)
          /\ inbox'[c][j] = s[j + 1]
      BY <2>2
    <3>2. QED BY <1>1, <1>3, <2>2, <3>1 DEF ToldAt, NoComebackAt, s
  <2>12. SpokenAt(c)'
    <3> SUFFICES ASSUME NEW i \in 1..(Len(s) - 1), Spoken(inbox[c][i])'
                 PROVE  KnownAt(c, inbox[c][i].participant, i)'
      BY <2>2 DEF SpokenAt
    <3>1. inbox'[c][i] = s[i + 1] /\ i + 1 \in 1..Len(s) /\ Spoken(s[i + 1])
      BY <2>2 DEF Spoken
    <3>2. KnownAt(c, s[i + 1].participant, i + 1)
      BY <1>1, <1>3, <2>2, <3>1 DEF ToldAt, SpokenAt, s
    <3>3. PICK x \in Conn : x = s[i + 1].participant
      BY <2>1, <2>2, <3>1, MessageFields
    <3>4. \A j \in 1..(i-1) : inbox'[c][j] = s[j + 1] /\ s[j + 1] # Departure(x)
      BY <2>2, <3>2, <3>3 DEF KnownAt, s
    <3>5. h # Departure(x)
      BY <2>2, <3>2, <3>3 DEF KnownAt, s, h
    <3>6. x \in roster'[c] \/ \E j \in 1..(i-1) : Introduces(s[j + 1], x)
      <4>1. \/ x \in roster[c]
            \/ \E k \in 1..i : Introduces(s[k], x)
        BY <3>2, <3>3 DEF KnownAt, s
      <4>2. CASE x \in roster[c]
        BY <2>4, <3>3, <3>5, <4>2
      <4>3. ASSUME NEW k \in 1..i, Introduces(s[k], x)
            PROVE  x \in roster'[c] \/ \E j \in 1..(i-1) : Introduces(s[j + 1], x)
        <5>1. CASE k = 1
          BY <2>4, <3>3, <4>3, <5>1 DEF h
        <5>2. CASE k # 1
          <6>1. k - 1 \in 1..(i-1) /\ (k - 1) + 1 = k
            BY <5>2
          <6>2. QED BY <4>3, <6>1
        <5>3. QED BY <5>1, <5>2
      <4>4. QED BY <4>1, <4>2, <4>3
    <3>7. KnownAt(c, x, i)'
      BY <3>4, <3>6 DEF KnownAt
    <3>8. QED BY <3>1, <3>3, <3>7 DEF KnownAt
  <2>13. QED BY <1>3, <2>10, <2>11, <2>12 DEF ToldAt
<1>4. QED BY <1>2, <1>3
\* Nobody has heard of a connection before it joins, nor it of anybody
LEMMA NotHeardBefore ==
    ASSUME RosterInv, NEW c \in Conn, participant[c] = NoRoom, NEW d \in Conn
    PROVE  ~Hears(c, d) /\ ~Hears(d, c)
BY DEF RosterInv, ToldAt, IsolatedAt

\* A join introduces the newcomer to the members, and them to it.
LEMMA JoinKeeps ==
    ASSUME RosterInv, NEW c \in Conn, NEW r \in RoomId, Join(c, r), NEW e \in Conn
    PROVE  ToldAt(e)'
<1> DEFINE present == Members(r) \cup {c}
<1>1. /\ TypeOK /\ ToldAt(e) /\ RoomsExact /\ roster'[e] = roster[e]
      /\ participant[c] = NoRoom /\ r # NoRoom
      /\ participant' = [participant EXCEPT ![c] = r]
      /\ Reaches(e)' <=> Reaches(e)
  BY SignalingAssumption DEF RosterInv, RoomsInv, Join, EnterRoom, Reaches
<1>2. \A x \in RoomId : Members(x)' = IF x = r THEN present ELSE Members(x)
  BY DEF Join, EnterRoom, PutRoom, Members
<1>3. /\ present \subseteq Conn
      /\ \A d \in present : participant'[d] = r
  BY <1>1 DEF TypeOK, RoomsExact, Members
<1>4. /\ \A d \in Conn : ~Hears(c, d) /\ ~Hears(d, c)
      /\ \A d \in Conn : /\ ~WillKnow(c, d) /\ ~WillForget(c, d)
                         /\ ~WillKnow(d, c) /\ ~WillForget(d, c)
  BY <1>1, NotHeardBefore, HearsConn
<1>5. \A d \in Conn : d # c => participant'[d] = participant[d]
  BY <1>1 DEF TypeOK
<1>6. participant'[c] = r
  BY <1>1 DEF TypeOK
<1> DEFINE m == IF e = c THEN RoomJoined(present) ELSE Introduction(c)
<1>7. /\ m \in Message /\ ~Spoken(m)
      /\ Mentioned(m) = IF e = c THEN present ELSE {c}
      /\ \A x : Introduces(m, x) <=> x \in Mentioned(m)
      /\ \A x : m # Departure(x)
  BY <1>3, MessageTypes DEF Mentioned, Spoken, Introduces, RoomJoined, Introduction, Departure
<1> HIDE DEF m, present
<1>8. \/ /\ inbox'[e] = inbox[e]
         /\ ~(e \in present /\ Reaches(e))
      \/ /\ inbox'[e] = Append(inbox[e], m)
         /\ e \in present /\ Reaches(e)
  BY DEF Join, EnterRoom, m, present
<1>9. CASE inbox'[e] = inbox[e] /\ ~(e \in present /\ Reaches(e))
  <2>1. e = c => ~Reaches(e)
    BY <1>9 DEF present
  <2>2. IsolatedAt(e)'
    <3>1. \A d \in Conn : Hears(e, d) => d # c /\ e # c
      BY <1>4
    <3>2. QED BY <1>1, <1>5, <1>9, <3>1, SameTold DEF ToldAt, IsolatedAt
  <2>3. ConvergesAt(e)'
    <3>1. CASE ~Reaches(e)
      BY <1>1, <3>1 DEF ConvergesAt
    <3>2. CASE Reaches(e)
      <4>1. PICK q : q = participant[e]
        OBVIOUS
      <4>2. e # c /\ e \notin present
        BY <1>1, <1>9, <2>1, <3>2
      <4>3. participant'[e] = q
        BY <1>5, <4>1, <4>2
      <4>4. q # NoRoom => q \in RoomId /\ q # r
        <5>1. InServer(e)
          BY <1>1, <3>2 DEF Reaches, InServer
        <5>2. QED BY <1>1, <4>1, <4>2, <5>1 DEF TypeOK, RoomsExact, present
      <4>5. \A x \in Conn : q # NoRoom =>
              (x \in Members(q) <=> WillKnow(e, x) /\ ~WillForget(e, x))
        BY <1>1, <3>2, <4>1 DEF ToldAt, ConvergesAt
      <4>6. q # NoRoom => Members(q)' = Members(q)
        BY <1>2, <4>4
      <4>7. \A x : /\ WillKnow(e, x)' <=> WillKnow(e, x)
                   /\ WillForget(e, x)' <=> WillForget(e, x)
        BY <1>1, <1>9, SameTold
      <4>8. QED BY <4>3, <4>5, <4>6, <4>7 DEF ConvergesAt, Members
    <3>3. QED BY <3>1, <3>2
  <2>4. QED BY <1>1, <1>9, <2>2, <2>3, SameTold DEF ToldAt
<1>10. CASE inbox'[e] = Append(inbox[e], m) /\ e \in present /\ Reaches(e)
  <2>1. \A x : /\ WillKnow(e, x)' <=> WillKnow(e, x) \/ x \in Mentioned(m)
               /\ WillForget(e, x)' <=> WillForget(e, x)
               /\ Hears(e, x)' <=> Hears(e, x) \/ x \in Mentioned(m)
    BY <1>1, <1>7, <1>10, AppendFacts
  <2>2. participant'[e] = r /\ Members(r)' = present
    BY <1>2, <1>3, <1>10
  <2>3. IsolatedAt(e)'
    <3>1. ASSUME NEW d \in Conn, Hears(e, d)' PROVE participant'[d] = r
      <4>1. CASE d \in Mentioned(m)
        BY <1>3, <1>6, <1>7, <4>1
      <4>2. CASE Hears(e, d)
        <5>1. d # c /\ e # c
          BY <1>4, <4>2
        <5>2. participant[d] = participant[e]
          BY <1>1, <4>2 DEF ToldAt, IsolatedAt
        <5>3. QED BY <1>5, <2>2, <5>1, <5>2
      <4>3. QED BY <2>1, <3>1, <4>1, <4>2
    <3>2. QED BY <1>1, <2>2, <3>1 DEF IsolatedAt
  <2>4. ConvergesAt(e)'
    <3> SUFFICES ASSUME NEW x \in Conn
                 PROVE  x \in present <=> (WillKnow(e, x) /\ ~WillForget(e, x))'
      BY <2>2 DEF ConvergesAt
    <3>1. CASE e = c
      BY <1>4, <1>7, <2>1, <3>1
    <3>2. CASE e # c /\ x = c
      BY <1>4, <1>7, <2>1, <3>2 DEF present
    <3>3. CASE e # c /\ x # c
      <4>1. participant[e] = r
        BY <1>5, <2>2, <3>3
      <4>2. x \in Members(r) <=> WillKnow(e, x) /\ ~WillForget(e, x)
        BY <1>1, <1>10, <4>1 DEF ToldAt, ConvergesAt
      <4>3. QED BY <1>7, <2>1, <3>3, <4>2 DEF present
    <3>4. QED BY <3>1, <3>2, <3>3
  <2>5. \A x \in Conn : Introduces(m, x) => ~WillForget(e, x)
    BY <1>4, <1>7
  <2>6. SpokenAt(e)' /\ NoComebackAt(e)'
    BY <1>1, <1>7, <1>10, <2>5, AppendSpoken, AppendComeback DEF ToldAt
  <2>7. QED BY <2>3, <2>4, <2>6 DEF ToldAt
<1>11. QED BY <1>8, <1>9, <1>10

\* A close announces the departure.
LEMMA CloseKeeps ==
    ASSUME RosterInv, NEW c \in Conn, OnCloseJoined(c), NEW e \in Conn
    PROVE  ToldAt(e)'
<1> DEFINE r == participant[c]
           others == rooms[r] \ {c}
<1>1. /\ TypeOK /\ ToldAt(e) /\ RoomsExact /\ roster'[e] = roster[e]
      /\ participant' = participant /\ sock[c] = "closing"
      /\ Reaches(e)' => Reaches(e) /\ e # c
  BY DEF RosterInv, RoomsInv, TypeOK, OnCloseJoined, Reaches
<1>2. r \in RoomId /\ r # NoRoom /\ r \in DOMAIN rooms /\ rooms[r] = Members(r) /\ c \in rooms[r]
  BY <1>1 DEF OnCloseJoined, TypeOK, RoomsExact, Members, InServer
<1>3. \A x \in RoomId : Members(x)' = IF x = r THEN others ELSE Members(x)
  BY <1>2 DEF OnCloseJoined, PutRoom, DropRoom, Members
<1>4. \A d \in Conn : d \in others <=> d # c /\ participant[d] = r /\ InServer(d)
  BY <1>1, <1>2 DEF RoomsExact
<1> DEFINE m == Departure(c)
<1>5. /\ m \in Message /\ Spoken(m) /\ m.participant = c /\ Mentioned(m) = {c}
      /\ \A x : ~Introduces(m, x) /\ (m = Departure(x) <=> x = c)
  BY MessageTypes DEF Mentioned, Spoken, Introduces, Introduction, Departure
<1> HIDE DEF m, others
<1>6. \/ /\ inbox'[e] = inbox[e]
         /\ ~(e \in others /\ Reaches(e))
      \/ /\ inbox'[e] = Append(inbox[e], m)
         /\ e \in others /\ Reaches(e)
  BY DEF OnCloseJoined, Broadcast, m, others
<1> HIDE DEF r
<1>7. CASE inbox'[e] = inbox[e] /\ ~(e \in others /\ Reaches(e))
  <2>1. ConvergesAt(e)'
    <3> SUFFICES ASSUME Reaches(e)', participant[e] # NoRoom
                 PROVE  \A x \in Conn : x \in Members(participant[e])'
                                          <=> (WillKnow(e, x) /\ ~WillForget(e, x))'
      BY <1>1 DEF ConvergesAt
    <3>1. participant[e] \in RoomId /\ participant[e] # r
      <4>1. InServer(e)
        BY <1>1 DEF Reaches, InServer
      <4>2. QED BY <1>1, <1>4, <1>7, <4>1 DEF TypeOK
    <3>2. QED BY <1>1, <1>3, <1>7, <3>1, SameTold DEF ToldAt, ConvergesAt
  <2>2. QED BY <1>1, <1>7, <2>1, SameTold DEF ToldAt, IsolatedAt
<1>8. CASE inbox'[e] = Append(inbox[e], m) /\ e \in others /\ Reaches(e)
  <2>1. \A x : /\ WillKnow(e, x)' <=> WillKnow(e, x)
               /\ WillForget(e, x)' <=> WillForget(e, x) \/ x = c
               /\ Hears(e, x)' <=> Hears(e, x) \/ x = c
    BY <1>1, <1>5, <1>8, AppendFacts
  <2>2. e # c /\ participant[e] = r
    BY <1>4, <1>8
  <2>3. \A x \in Conn : x \in Members(r) <=> WillKnow(e, x) /\ ~WillForget(e, x)
    BY <1>1, <1>2, <1>8, <2>2 DEF ToldAt, ConvergesAt
  <2>4. IsolatedAt(e)'
    BY <1>1, <1>2, <2>1, <2>2 DEF ToldAt, IsolatedAt, r
  <2>5. ConvergesAt(e)'
    BY <1>1, <1>2, <1>3, <2>1, <2>2, <2>3 DEF ConvergesAt, others
  <2>6. WillKnow(e, c) /\ ~WillForget(e, c)
    BY <1>2, <2>3
  <2>7. SpokenAt(e)' /\ NoComebackAt(e)'
    BY <1>1, <1>5, <1>8, <2>6, AppendSpoken, AppendComeback DEF ToldAt
  <2>8. QED BY <2>4, <2>5, <2>7 DEF ToldAt
<1>9. QED BY <1>6, <1>7, <1>8

-----------------------------------------------------------------------------

\* Nobody was told anything at the start.
LEMMA RosterInvInit == Init => RosterInv
<1> SUFFICES ASSUME Init PROVE RosterInv
  OBVIOUS
<1>1. \A c \in Conn : ToldAt(c)
  BY DEF Init, ToldAt, IsolatedAt, Hears, ConvergesAt, SpokenAt, NoComebackAt
<1>2. QED BY <1>1, RoomsInvInit DEF RosterInv

\* Every step keeps the invariant.
LEMMA RosterInvNext == RosterInv /\ [Next]_vars => RosterInv'
<1> SUFFICES ASSUME RosterInv, [Next]_vars PROVE RosterInv'
  OBVIOUS
<1>1. RoomsInv'
  BY RoomsInvNext DEF RosterInv
<1>2. StepKind
  BY StepKinds DEF RosterInv
<1>3. \A e \in Conn : ToldAt(e)'
  BY <1>2, JoinKeeps, CloseKeeps, RestartKeeps, TellKeeps, DeliverKeeps, ForgetKeeps, FadeKeeps
     DEF StepKind
<1>4. QED BY <1>1, <1>3 DEF RosterInv

\* It holds of every behaviour.
LEMMA RosterInvariant == Spec => []RosterInv
BY RosterInvInit, RosterInvNext, PTL DEF Spec

(***************************************************************************)
(* Rooms are isolated: whoever a client knows or hears of joined its room. *)
(***************************************************************************)
THEOREM RoomsAreIsolated == Spec => []RoomsIsolated
<1>1. RosterInv => RoomsIsolated
  <2> SUFFICES ASSUME RosterInv, NEW c \in Conn, NEW d, Hears(c, d)
               PROVE  participant[d] = participant[c] /\ participant[c] # NoRoom
    BY DEF RoomsIsolated, Hears
  <2>1. d \in Conn
    BY HearsConn DEF RosterInv, RoomsInv
  <2>2. QED BY <2>1 DEF RosterInv, ToldAt, IsolatedAt
<1>2. QED BY <1>1, RosterInvariant, PTL

(***************************************************************************)
(* A client that is reached learns the membership of its room: what it     *)
(* knows and what is under way to it amount to the members.                *)
(***************************************************************************)
THEOREM RostersConverge == Spec => []RosterConverges
<1>1. RosterInv => RosterConverges
  BY DEF RosterInv, ToldAt, ConvergesAt, RosterConverges
<1>2. QED BY <1>1, RosterInvariant, PTL

(***************************************************************************)
(* Nobody is heard of before being introduced or after leaving: signals,   *)
(* chat and departures reach a client while it knows whom they are of.     *)
(***************************************************************************)
THEOREM HeardOfWhileKnown == Spec => []SpokenOfWhileKnown
<1>1. RosterInv => SpokenOfWhileKnown
  BY DEF RosterInv, ToldAt, SpokenAt, Spoken, SpokenOfWhileKnown
<1>2. QED BY <1>1, RosterInvariant, PTL

-----------------------------------------------------------------------------
(* The order of the events of a room, seen in the messages under way. *)

\* How many room events come later, after one message more,
LEMMA LaterAppend ==
    ASSUME NEW s \in Seq(Message), NEW m \in Message
    PROVE  LET t == Append(s, m) IN
           /\ \A i \in 1..Len(s) : 
                 /\ Cardinality(Later(s, i)) \in Nat
                 /\ Cardinality(Later(t, i)) =
                      IF IsRoomEvent(m) THEN Cardinality(Later(s, i)) + 1 ELSE Cardinality(Later(s, i))
           /\ Cardinality(Later(t, Len(s) + 1)) = 0
<1>1. PICK n \in Nat, t \in Seq(Message) : /\ n = Len(s) /\ t = Append(s, m) /\ DOMAIN s = 1..n
                          /\ DOMAIN t = 1..(n + 1)
                          /\ \A i \in 1..n : t[i] = s[i]
                          /\ t[n + 1] = m
  <2>1. PICK n \in Nat : n = Len(s)
    BY AppendIndex
  <2>2. Append(s, m) \in Seq(Message)
    OBVIOUS
  <2>3. PICK t \in Seq(Message) : t = Append(s, m)
    BY <2>2, Zenon
  <2>4. QED BY <2>1, <2>3, AppendIndex
<1>2. ASSUME NEW i \in 1..n
      PROVE  /\ Cardinality(Later(s, i)) \in Nat
             /\ Cardinality(Later(t, i)) =
                      IF IsRoomEvent(m) THEN Cardinality(Later(s, i)) + 1 ELSE Cardinality(Later(s, i))
  <2>1. PICK S : S = Later(s, i)
    OBVIOUS
  <2>2. S \subseteq 1..n
    BY <1>1, <2>1 DEF Later
  <2>3. IsFiniteSet(S) /\ Cardinality(S) \in Nat
    <3>1. IsFiniteSet(1..n)
      BY FS_Interval
    <3>2. QED BY <2>2, <3>1, FS_Subset, FS_CardinalityType
  <2>4. Later(t, i) = IF IsRoomEvent(m) THEN S \cup {n + 1} ELSE S
    <3>1. \A k \in 1..(n + 1) : k \in 1..n \/ k = n + 1
      OBVIOUS
    <3>2. \A k \in 1..n : k \in 1..(n + 1)
      OBVIOUS
    <3>3. n + 1 \in 1..(n + 1) /\ i < n + 1
      OBVIOUS
    <3>4. QED BY <1>1, <2>1, <3>1, <3>2, <3>3 DEF Later
  <2>5. n + 1 \notin S
    BY <2>2
  <2>6. QED BY <2>1, <2>3, <2>4, <2>5, FS_AddElement
<1>3. Later(t, n + 1) = {}
  BY <1>1 DEF Later
<1>4. Cardinality(Later(t, n + 1)) = 0
  BY <1>3, FS_EmptySet
<1>5. QED BY <1>1, <1>2, <1>4

\* and after one less.
LEMMA LaterTail ==
    ASSUME NEW s \in Seq(Message), s # <<>>, NEW i \in 1..(Len(s) - 1)
    PROVE  Cardinality(Later(Tail(s), i)) = Cardinality(Later(s, i + 1))
<1>1. PICK n \in Nat, t \in Seq(Message) : /\ n = Len(s) /\ t = Tail(s) /\ DOMAIN s = 1..n
                          /\ DOMAIN t = 1..(n - 1)
                          /\ \A k \in 1..(n - 1) : t[k] = s[k + 1]
  <2>1. PICK n \in Nat : n = Len(s)
    BY TailIndex
  <2>2. PICK t \in Seq(Message) : t = Tail(s)
    BY TailIndex
  <2>3. QED BY <2>1, <2>2, TailIndex
<1>2. PICK S, T : S = Later(s, i + 1) /\ T = Later(t, i)
  OBVIOUS
<1>3. i \in 1..(n - 1)
  BY <1>1
<1>4. S \subseteq 1..n /\ T \subseteq 1..(n - 1)
  BY <1>1, <1>2 DEF Later
<1>5. \A k \in 1..(n - 1) : k \in T <=> k + 1 \in S
  <2>1. \A k \in 1..(n - 1) : k + 1 \in 1..n /\ (i < k <=> i + 1 < k + 1)
    BY <1>3
  <2>2. QED BY <1>1, <1>2, <2>1 DEF Later
<1>6. \A k \in S : k - 1 \in 1..(n - 1) /\ (k - 1) + 1 = k
  <2>1. \A k \in S : i + 1 < k
    BY <1>2 DEF Later
  <2>2. QED BY <1>3, <1>4, <2>1
<1>7. PICK f : f = [k \in T |-> k + 1]
  OBVIOUS
<1>8. f \in Bijection(T, S)
  <2>1. f \in [T -> S]
    BY <1>4, <1>5, <1>7
  <2>2. \A a, b \in T : f[a] = f[b] => a = b
    BY <1>4, <1>7
  <2>3. \A k \in S : \E a \in T : f[a] = k
    <3> SUFFICES ASSUME NEW k \in S PROVE \E a \in T : f[a] = k
      OBVIOUS
    <3>1. k - 1 \in T
      BY <1>5, <1>6
    <3>2. f[k - 1] = k
      BY <1>6, <1>7, <3>1
    <3>3. QED BY <3>1, <3>2
  <2>4. QED BY <2>1, <2>2, <2>3 DEF Bijection, Injection, Surjection, IsInjective
<1>9. IsFiniteSet(T)
  <2>1. IsFiniteSet(1..(n - 1))
    BY FS_Interval
  <2>2. QED BY <1>4, <2>1, FS_Subset
<1>10. Cardinality(T) = Cardinality(S)
  BY <1>8, <1>9, FS_Bijection DEF ExistsBijection
<1>11. QED BY <1>1, <1>2, <1>10

-----------------------------------------------------------------------------
(* Two clients whose ends are the same. *)

\* Which of the two comes first does not matter.
LEMMA SameEndsBoth ==
    ASSUME NEW c, NEW s, NEW d, NEW t, SameEnds(c, s, d, t)
    PROVE  SameEnds(d, t, c, s)
BY DEF SameEnds

\* What a message is for the client that is not told of an event.
Less(s, z) ==
    \/ z = s
    \/ z = <<>>
    \/ s # <<>> /\ z = Tail(s)
    \/ \E m \in Message : ~IsRoomEvent(m) /\ z = Append(s, m)

\* One client reads, loses everything, or is told something else.
LEMMA SameEndsLess ==
    ASSUME NEW c, NEW s \in Seq(Message), NEW d, NEW t, SameEnds(c, s, d, t),
           NEW z, Less(s, z)
    PROVE  SameEnds(c, z, d, t)
<1>1. CASE z = s
  BY <1>1
<1>2. CASE z = <<>>
  BY <1>2 DEF SameEnds
<1>3. CASE s # <<>> /\ z = Tail(s)
  <2>1. /\ DOMAIN s = 1..Len(s) /\ DOMAIN z = 1..(Len(s) - 1) /\ Len(s) \in Nat
        /\ \A i \in 1..(Len(s) - 1) : z[i] = s[i + 1]
    BY <1>3, TailIndex
  <2>2. ASSUME NEW i \in 1..(Len(s) - 1)
        PROVE  /\ i + 1 \in DOMAIN s /\ z[i] = s[i + 1]
               /\ Cardinality(Later(z, i)) = Cardinality(Later(s, i + 1))
    <3>1. Cardinality(Later(z, i)) = Cardinality(Later(s, i + 1))
      BY <1>3, LaterTail
    <3>2. i + 1 \in 1..Len(s)
      BY <2>1
    <3>3. QED BY <2>1, <3>1, <3>2
  <2>3. QED BY <2>1, <2>2 DEF SameEnds
<1>4. ASSUME NEW m \in Message, ~IsRoomEvent(m), z = Append(s, m)
      PROVE  SameEnds(c, z, d, t)
  <2>1. /\ DOMAIN s = 1..Len(s) /\ DOMAIN z = 1..(Len(s) + 1) /\ Len(s) \in Nat
        /\ \A i \in 1..Len(s) : z[i] = s[i]
        /\ z[Len(s) + 1] = m
    BY <1>4, AppendIndex
  <2>2. \A i \in 1..Len(s) : Cardinality(Later(z, i)) = Cardinality(Later(s, i))
    BY <1>4, LaterAppend
  <2>3. \A i \in 1..(Len(s) + 1) : i \in 1..Len(s) \/ i = Len(s) + 1
    BY <2>1
  <2>4. QED BY <1>4, <2>1, <2>2, <2>3 DEF SameEnds
<1>5. QED BY <1>1, <1>2, <1>3, <1>4 DEF Less

\* Both clients are told of an event.
LEMMA SameEndsMore ==
    ASSUME NEW c, NEW s \in Seq(Message), NEW d, NEW t \in Seq(Message), SameEnds(c, s, d, t),
           NEW m \in Message, NEW n \in Message, IsRoomEvent(m), IsRoomEvent(n),
           SeenBy(c, m) = SeenBy(d, n)
    PROVE  SameEnds(c, Append(s, m), d, Append(t, n))
<1>1. PICK z, w : z = Append(s, m) /\ w = Append(t, n)
  OBVIOUS
<1>2. PICK a \in Nat, b \in Nat : a = Len(s) /\ b = Len(t)
  BY AppendIndex
<1>3. /\ DOMAIN s = 1..a /\ DOMAIN z = 1..(a + 1) /\ z[a + 1] = m
      /\ \A i \in 1..a : z[i] = s[i]
  BY <1>1, <1>2, AppendIndex
<1>4. /\ DOMAIN t = 1..b /\ DOMAIN w = 1..(b + 1) /\ w[b + 1] = n
      /\ \A i \in 1..b : w[i] = t[i]
  BY <1>1, <1>2, AppendIndex
<1>5. /\ Cardinality(Later(z, a + 1)) = 0
      /\ \A i \in 1..a : /\ Cardinality(Later(s, i)) \in Nat
                         /\ Cardinality(Later(z, i)) = Cardinality(Later(s, i)) + 1
  BY <1>1, <1>2, LaterAppend
<1>6. /\ Cardinality(Later(w, b + 1)) = 0
      /\ \A i \in 1..b : /\ Cardinality(Later(t, i)) \in Nat
                         /\ Cardinality(Later(w, i)) = Cardinality(Later(t, i)) + 1
  BY <1>1, <1>2, LaterAppend
<1>7. ASSUME NEW i \in 1..(a + 1), NEW j \in 1..(b + 1), IsRoomEvent(z[i]), IsRoomEvent(w[j]),
             Cardinality(Later(z, i)) = Cardinality(Later(w, j))
      PROVE  SeenBy(c, z[i]) = SeenBy(d, w[j])
  <2>1. CASE i \in 1..a /\ j \in 1..b
    <3>1. PICK p \in Nat, q \in Nat : p = Cardinality(Later(s, i)) /\ q = Cardinality(Later(t, j))
      BY <1>5, <1>6, <2>1
    <3>2. p + 1 = q + 1
      BY <1>5, <1>6, <1>7, <2>1, <3>1
    <3>3. Cardinality(Later(s, i)) = Cardinality(Later(t, j))
      BY <3>1, <3>2
    <3>4. QED BY <1>3, <1>4, <1>7, <2>1, <3>3 DEF SameEnds
  <2>2. CASE i = a + 1 /\ j = b + 1
    BY <1>3, <1>4, <2>2
  <2>3. CASE i \in 1..a /\ j = b + 1
    <3>1. PICK p \in Nat : p = Cardinality(Later(s, i))
      BY <1>5, <2>3
    <3>2. p + 1 = 0
      BY <1>5, <1>6, <1>7, <2>3, <3>1
    <3>3. QED BY <3>2
  <2>4. CASE i = a + 1 /\ j \in 1..b
    <3>1. PICK q \in Nat : q = Cardinality(Later(t, j))
      BY <1>6, <2>4
    <3>2. q + 1 = 0
      BY <1>5, <1>6, <1>7, <2>4, <3>1
    <3>3. QED BY <3>2
  <2>5. QED BY <2>1, <2>2, <2>3, <2>4
<1>8. SameEnds(c, z, d, w)
  BY <1>3, <1>4, <1>7 DEF SameEnds
<1>9. QED BY <1>1, <1>8

-----------------------------------------------------------------------------
(***************************************************************************)
(* The order of the events of a room.  Every step either tells an event to *)
(* all the clients of a room that are reached, or tells none of them any;  *)
(* a newcomer has heard no event before.                                   *)
(***************************************************************************)
Ends(c, d) == SameEnds(c, inbox[c], d, inbox[d])

InOneOrder ==
    \A c, d \in Conn :
        c # d /\ Reaches(c) /\ Reaches(d)
            /\ participant[c] # NoRoom /\ participant[c] = participant[d] => Ends(c, d)

HeardNothing(c) == \A i \in DOMAIN inbox[c] : ~IsRoomEvent(inbox[c][i])

Outside == \A c \in Conn : participant[c] = NoRoom => HeardNothing(c)

OrderInv == InOneOrder /\ Outside

\* Nobody is told an event, and nobody joins or is reached again.
Hush ==
    /\ participant' = participant
    /\ \A c \in Conn : /\ Less(inbox[c], inbox'[c])
                       /\ participant[c] # NoRoom /\ Reaches(c)' => Reaches(c)

\* Everybody in room r that is reached then is told of the event, c by m[c].
Event(r, m) ==
    \A c \in Conn :
        /\ participant[c] # NoRoom /\ Reaches(c)' => Reaches(c)
        /\ participant[c] # NoRoom => participant'[c] = participant[c]
        /\ participant[c] = NoRoom => participant'[c] \in {r, NoRoom}
        /\ m[c] \in Message /\ IsRoomEvent(m[c])
        /\ \A d \in Conn : SeenBy(c, m[c]) = SeenBy(d, m[d])
        /\ IF participant'[c] = r /\ Reaches(c)'
           THEN inbox'[c] = Append(inbox[c], m[c])
           ELSE inbox'[c] = inbox[c]

\* A client that heard no event hears none by that.
LEMMA HeardLess ==
    ASSUME NEW s \in Seq(Message), NEW z, Less(s, z),
           \A i \in DOMAIN s : ~IsRoomEvent(s[i])
    PROVE  \A i \in DOMAIN z : ~IsRoomEvent(z[i])
<1>1. CASE z = s \/ z = <<>>
  BY <1>1
<1>2. CASE s # <<>> /\ z = Tail(s)
  <2>1. /\ DOMAIN s = 1..Len(s) /\ DOMAIN z = 1..(Len(s) - 1) /\ Len(s) \in Nat
        /\ \A i \in 1..(Len(s) - 1) : z[i] = s[i + 1]
    BY <1>2, TailIndex
  <2>2. \A i \in 1..(Len(s) - 1) : i + 1 \in 1..Len(s)
    BY <2>1
  <2>3. QED BY <2>1, <2>2
<1>3. ASSUME NEW m \in Message, ~IsRoomEvent(m), z = Append(s, m)
      PROVE  \A i \in DOMAIN z : ~IsRoomEvent(z[i])
  <2>1. /\ DOMAIN s = 1..Len(s) /\ DOMAIN z = 1..(Len(s) + 1) /\ Len(s) \in Nat
        /\ \A i \in 1..Len(s) : z[i] = s[i]
        /\ z[Len(s) + 1] = m
    BY <1>3, AppendIndex
  <2>2. \A i \in 1..(Len(s) + 1) : i \in 1..Len(s) \/ i = Len(s) + 1
    BY <2>1
  <2>3. QED BY <1>3, <2>1, <2>2
<1>4. QED BY <1>1, <1>2, <1>3 DEF Less

\* A step that tells nobody an event.
LEMMA HushKeeps ==
    ASSUME TypeOK, OrderInv, Hush
    PROVE  OrderInv'
<1>1. ASSUME NEW c \in Conn, NEW d \in Conn, c # d, Reaches(c)', Reaches(d)',
             participant[c] # NoRoom, participant[c] = participant[d]
      PROVE  Ends(c, d)'
  <2>1. PICK s \in Seq(Message), t \in Seq(Message), z \in {inbox'[c]}, w \in {inbox'[d]} :
          s = inbox[c] /\ t = inbox[d] /\ z = inbox'[c] /\ w = inbox'[d]
    BY DEF TypeOK
  <2>2. Less(s, z) /\ Less(t, w)
    <3>1. Less(inbox[c], inbox'[c]) /\ Less(inbox[d], inbox'[d])
      BY DEF Hush
    <3>2. QED BY <2>1, <3>1 DEF Less
  <2>3. SameEnds(c, s, d, t)
    <3>1. SameEnds(c, inbox[c], d, inbox[d])
      BY <1>1 DEF Hush, OrderInv, InOneOrder, Ends
    <3>2. QED BY <2>1, <3>1 DEF SameEnds
  <2>4. SameEnds(c, z, d, t)
    BY <2>2, <2>3, SameEndsLess
  <2>5. SameEnds(d, t, c, z)
    BY <2>4, SameEndsBoth
  <2>6. SameEnds(d, w, c, z)
    BY <2>2, <2>5, SameEndsLess
  <2>7. SameEnds(c, z, d, w)
    BY <2>6, SameEndsBoth
  <2>8. QED BY <2>1, <2>7 DEF Ends, SameEnds
<1>2. ASSUME NEW c \in Conn, participant[c] = NoRoom
      PROVE  HeardNothing(c)'
  <2>1. PICK s \in Seq(Message), z \in {inbox'[c]} : s = inbox[c] /\ z = inbox'[c]
    BY DEF TypeOK
  <2>2. Less(s, z)
    <3>1. Less(inbox[c], inbox'[c])
      BY DEF Hush
    <3>2. QED BY <2>1, <3>1 DEF Less
  <2>3. \A i \in DOMAIN s : ~IsRoomEvent(s[i])
    BY <1>2, <2>1 DEF OrderInv, Outside, HeardNothing
  <2>4. \A i \in DOMAIN z : ~IsRoomEvent(z[i])
    BY <2>2, <2>3, HeardLess
  <2>5. QED BY <2>1, <2>4 DEF HeardNothing
<1>3. QED BY <1>1, <1>2 DEF OrderInv, InOneOrder, Outside, Hush

\* A step that tells everybody in a room the same event.
LEMMA EventKeeps ==
    ASSUME TypeOK, OrderInv, NEW r \in RoomId, NEW m, Event(r, m)
    PROVE  OrderInv'
<1>1. r # NoRoom
  BY SignalingAssumption
<1>2. ASSUME NEW c \in Conn, NEW d \in Conn, c # d, Reaches(c)', Reaches(d)',
             participant'[c] # NoRoom, participant'[c] = participant'[d]
      PROVE  Ends(c, d)'
  <2>1. PICK s \in Seq(Message), t \in Seq(Message), z \in {inbox'[c]}, w \in {inbox'[d]} :
          s = inbox[c] /\ t = inbox[d] /\ z = inbox'[c] /\ w = inbox'[d]
    BY DEF TypeOK
  <2>2. SameEnds(c, s, d, t)
    <3>1. CASE participant[c] = NoRoom
      <4>1. \A i \in DOMAIN s : ~IsRoomEvent(s[i])
        BY <2>1, <3>1 DEF OrderInv, Outside, HeardNothing
      <4>2. QED BY <4>1 DEF SameEnds
    <3>2. CASE participant[d] = NoRoom
      <4>1. \A i \in DOMAIN t : ~IsRoomEvent(t[i])
        BY <2>1, <3>2 DEF OrderInv, Outside, HeardNothing
      <4>2. QED BY <4>1 DEF SameEnds
    <3>3. CASE participant[c] # NoRoom /\ participant[d] # NoRoom
      <4>1. Reaches(c) /\ Reaches(d) /\ participant[c] = participant[d]
        BY <1>2, <3>3 DEF Event
      <4>2. SameEnds(c, inbox[c], d, inbox[d])
        BY <1>2, <3>3, <4>1 DEF OrderInv, InOneOrder, Ends
      <4>3. QED BY <2>1, <4>2 DEF SameEnds
    <3>4. QED BY <3>1, <3>2, <3>3
  <2>3. SameEnds(c, z, d, w)
    <3>1. CASE participant'[c] = r
      <4>1. PICK a \in Message, b \in Message : a = m[c] /\ b = m[d]
        BY DEF Event
      <4>2. /\ z = Append(s, a) /\ w = Append(t, b)
            /\ IsRoomEvent(a) /\ IsRoomEvent(b) /\ SeenBy(c, a) = SeenBy(d, b)
        BY <1>2, <2>1, <3>1, <4>1 DEF Event
      <4>3. QED BY <2>2, <4>2, SameEndsMore
    <3>2. CASE participant'[c] # r
      BY <1>2, <2>1, <2>2, <3>2 DEF Event
    <3>3. QED BY <3>1, <3>2
  <2>4. QED BY <2>1, <2>3 DEF Ends, SameEnds
<1>3. ASSUME NEW c \in Conn, participant'[c] = NoRoom
      PROVE  HeardNothing(c)'
  <2>1. participant[c] = NoRoom /\ inbox'[c] = inbox[c]
    BY <1>1, <1>3 DEF Event
  <2>2. QED BY <2>1 DEF OrderInv, Outside, HeardNothing
<1>4. QED BY <1>2, <1>3 DEF OrderInv, InOneOrder, Outside

\* What a handler sends to one client is an event for nobody else.
LEMMA ReplyHushes ==
    ASSUME TypeOK, NEW c \in Conn,
           \/ \E m \in {Pong, RoomCreated, Error} : Reply(c, m)
           \/ \E d \in Conn, p \in Payload : Relay(c, d, p)
    PROVE  Hush
<1>1. PICK d \in Conn, m \in Message : /\ ~IsRoomEvent(m) /\ SendTo(d, m)
                                       /\ UNCHANGED <<server, link, roster>>
  <2>1. CASE \E m \in {Pong, RoomCreated, Error} : Reply(c, m)
    <3>1. PICK m \in {Pong, RoomCreated, Error} : Reply(c, m)
      BY <2>1
    <3>2. m \in Message /\ ~IsRoomEvent(m)
      BY MessageTypes DEF IsRoomEvent, Pong, RoomCreated, Error
    <3>3. QED BY <3>1, <3>2 DEF Reply
  <2>2. CASE \E d \in Conn, p \in Payload : Relay(c, d, p)
    <3>1. PICK d \in Conn, p \in Payload : Relay(c, d, p)
      BY <2>2
    <3>2. Signal(c, p) \in Message /\ ~IsRoomEvent(Signal(c, p))
      BY MessageTypes DEF IsRoomEvent, Signal
    <3>3. QED BY <3>1, <3>2 DEF Relay
  <2>3. QED BY <2>1, <2>2
<1>2. ASSUME NEW e \in Conn PROVE Less(inbox[e], inbox'[e])
  <2>1. inbox'[e] = inbox[e] \/ inbox'[e] = Append(inbox[e], m)
    BY <1>1 DEF SendTo, TypeOK
  <2>2. QED BY <1>1, <2>1 DEF Less
<1>3. participant' = participant /\ \A e \in Conn : Reaches(e)' <=> Reaches(e)
  BY <1>1 DEF server, Reaches
<1>4. QED BY <1>2, <1>3 DEF Hush

\* Chat is an event for the room of its sender.
LEMMA ChatIsEvent ==
    ASSUME RoomsInv, NEW c \in Conn, Chat(c)
    PROVE  \E r \in RoomId : \E m : Event(r, m)
<1>1. PICK r \in RoomId : r = participant[c]
  BY DEF Chat, RoomsInv, TypeOK
<1>2. PICK m : m = [d \in Conn |-> ChatMessage(c)]
  OBVIOUS
<1>3. /\ \A d \in Conn : m[d] = ChatMessage(c)
      /\ ChatMessage(c) \in Message /\ IsRoomEvent(ChatMessage(c))
      /\ \A d : SeenBy(d, ChatMessage(c)) = ChatMessage(c)
  BY <1>2, MessageTypes DEF IsRoomEvent, SeenBy, ChatMessage
<1>4. rooms[r] = Members(r)
  BY <1>1 DEF Chat, Receives, RoomsInv, RoomsExact, TypeOK, Members
<1>5. /\ participant' = participant /\ \A d \in Conn : Reaches(d)' <=> Reaches(d)
      /\ \A d \in Conn : inbox'[d] = IF d \in Members(r) /\ Reaches(d)
                                     THEN Append(inbox[d], ChatMessage(c)) ELSE inbox[d]
  BY <1>1, <1>4 DEF Chat, Broadcast, server, Reaches
<1>6. \A d \in Conn : Reaches(d) => (d \in Members(r) <=> participant[d] = r)
  BY DEF RoomsInv, RoomsExact, Reaches, InServer
<1>7. Event(r, m)
  BY <1>3, <1>5, <1>6, SignalingAssumption DEF Event
<1>8. QED BY <1>7

\* A join is an event for the room, and for the newcomer its room.joined.
LEMMA JoinIsEvent ==
    ASSUME RoomsInv, NEW c \in Conn, NEW r \in RoomId, Join(c, r)
    PROVE  \E m : Event(r, m)
<1>1. PICK S \in SUBSET Conn : S = Members(r) \cup {c}
  BY DEF RoomsInv, TypeOK, Members
<1>2. PICK m : m = [d \in Conn |-> IF d = c THEN RoomJoined(S) ELSE Introduction(c)]
  OBVIOUS
<1>3. \A d \in Conn : /\ m[d] = IF d = c THEN RoomJoined(S) ELSE Introduction(c)
                      /\ m[d] \in Message /\ IsRoomEvent(m[d])
                      /\ SeenBy(d, m[d]) = Introduction(c)
  BY <1>2, MessageTypes DEF IsRoomEvent, SeenBy, RoomJoined, Introduction
<1>4. /\ participant[c] = NoRoom /\ participant' = [participant EXCEPT ![c] = r]
      /\ \A d \in Conn : Reaches(d)' <=> Reaches(d)
      /\ \A d \in Conn : inbox'[d] = IF d \in Members(r) \cup {c} /\ Reaches(d)
                                     THEN Append(inbox[d], m[d]) ELSE inbox[d]
  BY <1>1, <1>3 DEF Join, EnterRoom, Reaches
<1>5. /\ participant'[c] = r /\ \A d \in Conn : d # c => participant'[d] = participant[d]
  BY <1>4 DEF RoomsInv, TypeOK
<1>6. \A d \in Conn : Reaches(d) => (d \in Members(r) <=> participant[d] = r)
  BY DEF RoomsInv, RoomsExact, Reaches, InServer
<1>7. \A d \in Conn : Reaches(d) => (d \in Members(r) \cup {c} <=> participant'[d] = r)
  BY <1>5, <1>6
<1>8. Event(r, m)
  BY <1>3, <1>4, <1>5, <1>7, SignalingAssumption DEF Event
<1>9. QED BY <1>8

\* A departure is an event for those who stay.
LEMMA CloseIsEvent ==
    ASSUME RoomsInv, NEW c \in Conn, OnCloseJoined(c)
    PROVE  \E r \in RoomId : \E m : Event(r, m)
<1>1. PICK r \in RoomId : r = participant[c]
  BY DEF OnCloseJoined, RoomsInv, TypeOK
<1>2. PICK m : m = [d \in Conn |-> Departure(c)]
  OBVIOUS
<1>3. /\ \A d \in Conn : m[d] = Departure(c)
      /\ Departure(c) \in Message /\ IsRoomEvent(Departure(c))
      /\ \A d : SeenBy(d, Departure(c)) = Departure(c)
  BY <1>2, MessageTypes DEF IsRoomEvent, SeenBy, Departure
<1>4. rooms[r] = Members(r)
  BY <1>1 DEF OnCloseJoined, InServer, RoomsInv, RoomsExact, TypeOK, Members
<1>5. /\ participant' = participant /\ sock' = [sock EXCEPT ![c] = "closed"] /\ link' = link
      /\ \A d \in Conn : inbox'[d] = IF d \in Members(r) \ {c} /\ Reaches(d)
                                     THEN Append(inbox[d], Departure(c)) ELSE inbox[d]
  BY <1>1, <1>4 DEF OnCloseJoined, Broadcast
<1>6. /\ ~Reaches(c) /\ ~Reaches(c)'
      /\ \A d \in Conn : d # c => (Reaches(d)' <=> Reaches(d))
  <2>1. sock[c] = "closing" /\ sock \in [Conn -> {"none", "open", "closing", "closed"}]
    BY DEF OnCloseJoined, RoomsInv, TypeOK
  <2>2. QED BY <1>5, <2>1 DEF Reaches
<1>7. \A d \in Conn : Reaches(d) => (d \in Members(r) \ {c} <=> participant[d] = r)
  BY <1>6 DEF RoomsInv, RoomsExact, Reaches, InServer
<1>8. Event(r, m)
  BY <1>3, <1>5, <1>6, <1>7, SignalingAssumption DEF Event
<1>9. QED BY <1>8

\* The other steps, as StepKinds sees them.
LEMMA QuietHushes ==
    ASSUME TypeOK, \/ Restart \/ Fade \/ \E c \in Conn : Deliver(c) \/ Forget(c)
    PROVE  Hush
<1>1. CASE Restart
  <2>1. /\ participant' = participant /\ inbox' = inbox
        /\ \A c \in Conn : sock'[c] # "open"
    BY <1>1 DEF Restart, client
  <2>2. QED BY <2>1 DEF Hush, Less, Reaches
<1>2. CASE Fade
  BY <1>2 DEF Fade, Hush, Less
<1>3. ASSUME NEW c \in Conn, Deliver(c) PROVE Hush
  <2>1. /\ participant' = participant /\ inbox[c] # <<>>
        /\ \A d \in Conn : inbox'[d] = IF d = c THEN Tail(inbox[c]) ELSE inbox[d]
        /\ \A d \in Conn : Reaches(d)' <=> Reaches(d)
    BY <1>3 DEF Deliver, TypeOK, server, Reaches
  <2>2. QED BY <2>1 DEF Hush, Less
<1>4. ASSUME NEW c \in Conn, Forget(c) PROVE Hush
  <2>1. /\ participant' = participant /\ ~Reaches(c)'
        /\ \A d \in Conn : inbox'[d] = inbox[d] \/ inbox'[d] = <<>>
        /\ \A d \in Conn : d # c => (Reaches(d)' <=> Reaches(d))
    BY <1>4 DEF Forget, server, Reaches
  <2>2. QED BY <2>1 DEF Hush, Less
<1>5. QED BY <1>1, <1>2, <1>3, <1>4

\* Every step is of one of the two kinds.
LEMMA OrderInvNext ==
    ASSUME RoomsInv, OrderInv, [Next]_vars
    PROVE  OrderInv'
<1>1. TypeOK
  BY DEF RoomsInv
<1>2. ASSUME NEW c \in Conn, Request(c) PROVE OrderInv'
  <2>1. CASE Ping(c) \/ CreateRoom(c) \/ Refused(c)
    <3>1. \E m \in {Pong, RoomCreated, Error} : Reply(c, m)
      BY <2>1 DEF Ping, CreateRoom, Refused, RateLimited, Malformed, JoinAgain, JoinInvalid,
                  JoinFull, NotJoined, RelayNoTarget, InvalidPayload
    <3>2. QED BY <1>1, <3>1, ReplyHushes, HushKeeps
  <2>2. CASE Chat(c)
    BY <1>1, <2>2, ChatIsEvent, EventKeeps
  <2>3. ASSUME NEW r \in RoomId, Join(c, r) PROVE OrderInv'
    BY <1>1, <2>3, JoinIsEvent, EventKeeps
  <2>4. ASSUME NEW d \in Conn, NEW p \in Payload, Relay(c, d, p) PROVE OrderInv'
    BY <1>1, <2>4, ReplyHushes, HushKeeps
  <2>5. QED BY <1>2, <2>1, <2>2, <2>3, <2>4 DEF Request
<1>3. CASE \A c \in Conn : ~Request(c)
  <2>1. (\E c \in Conn : OnCloseJoined(c)) \/ Restart \/ Fade \/ \E c \in Conn : Deliver(c) \/ Forget(c)
    BY <1>3, StepsAside
  <2>2. CASE \E c \in Conn : OnCloseJoined(c)
    BY <1>1, <2>2, CloseIsEvent, EventKeeps
  <2>3. QED BY <1>1, <2>1, <2>2, QuietHushes, HushKeeps
<1>4. QED BY <1>2, <1>3

\* Nobody was told anything at the start.
LEMMA OrderInvInit == Init => OrderInv
<1> SUFFICES ASSUME Init PROVE OrderInv
  OBVIOUS
<1>1. \A c \in Conn : participant[c] = NoRoom /\ inbox[c] = <<>>
  BY DEF Init
<1>2. QED BY <1>1 DEF OrderInv, InOneOrder, Outside, HeardNothing

(***************************************************************************)
(* The clients of a room see who joined, who left and the chat in one      *)
(* order, however their sockets lag behind each other.                     *)
(***************************************************************************)
THEOREM EventsComeInOneOrder == Spec => []RoomEventsInOneOrder
<1>1. OrderInv => RoomEventsInOneOrder
  BY DEF OrderInv, InOneOrder, Ends, RoomEventsInOneOrder
<1>2. RoomsInv /\ OrderInv /\ [Next]_vars => OrderInv'
  BY OrderInvNext
<1>3. Spec => []OrderInv
  BY <1>2, OrderInvInit, RoomsInvariant, PTL DEF Spec
<1>4. QED BY <1>1, <1>3, PTL
=============================================================================
