----------------------------- MODULE Signaling ------------------------------
(***************************************************************************)
(* The signaling server (signaling/src/server.js) with the network and the *)
(* part of a client that tracks who is in the room (client/js/room.js).    *)
(*                                                                         *)
(* The server is one Node process: every WebSocket callback runs to        *)
(* completion, so each callback is one action.  What interleaves is the    *)
(* order of the callbacks of different sockets, the delivery of what was   *)
(* sent, the loss of links, the heartbeat and the end of the process.      *)
(*                                                                         *)
(* A connection joins at most once, so the random participant identifier   *)
(* given to it on joining is represented by the connection itself.         *)
(* The token bucket of the rate limiter is abstracted here to its result:  *)
(* any message may be refused with 429.                                    *)
(***************************************************************************)
EXTENDS Naturals, Sequences, FiniteSets

CONSTANTS Conn,            \* WebSocket connections
          RoomId,          \* valid room identifiers
          NoRoom,          \* `participant` of a connection is undefined
          Gone,            \* in no room any more, for the abstract RoomMembership
          Payload,         \* well-formed SDP and ICE payloads
          Traffic,         \* what happens besides joins and signals
          MaxParticipants, \* config.maxParticipants
          MaxInbox         \* bound: no request is read while an inbox is this long

ASSUME SignalingAssumption ==
    /\ NoRoom \notin RoomId /\ Gone \notin RoomId /\ NoRoom # Gone
    /\ MaxParticipants \in Nat \ {0}
    /\ MaxInbox \in Nat

VARIABLES sock,        \* sock[c]: readyState of the server's socket of c
          participant, \* participant[c]: the room c joined, or NoRoom
          rooms,       \* the Map of rooms: room id -> set of members
          alive,       \* alive[c]: ws.isAlive
          running,     \* the process accepts connections and runs the heartbeat
          link,        \* link[c]: the client's end of the connection
          inbox,       \* inbox[c]: messages sent to c and not yet delivered
          roster       \* roster[c]: RoomState.participants of client c

server == <<sock, participant, rooms, alive, running>>
client == <<link, inbox, roster>>
vars == <<server, client>>

-----------------------------------------------------------------------------
(* Messages from the server to a client. *)

Pong            == [type |-> "pong"]
RoomCreated     == [type |-> "room.created"]
Error           == [type |-> "error"]     \* whatever its code
RoomJoined(S)   == [type |-> "room.joined", participants |-> S]
Introduction(d) == [type |-> "participant.joined", participant |-> d]
Departure(d)    == [type |-> "participant.left", participant |-> d]
Signal(d, p)    == [type |-> "webrtc", participant |-> d, payload |-> p]
ChatMessage(d)  == [type |-> "chat.message", participant |-> d]

Message == {Pong, RoomCreated, Error}
    \cup [type : {"room.joined"}, participants : SUBSET Conn]
    \cup [type : {"participant.joined"}, participant : Conn]
    \cup [type : {"participant.left"}, participant : Conn]
    \cup [type : {"webrtc"}, participant : Conn, payload : Payload]
    \cup [type : {"chat.message"}, participant : Conn]

TypeOK ==
    /\ sock \in [Conn -> {"none", "open", "closing", "closed"}]
    /\ participant \in [Conn -> RoomId \cup {NoRoom}]
    /\ DOMAIN rooms \subseteq RoomId
    /\ rooms \in [DOMAIN rooms -> SUBSET Conn]
    /\ alive \in [Conn -> BOOLEAN]
    /\ running \in BOOLEAN
    /\ link \in [Conn -> {"none", "up", "closed", "lost"}]
    /\ inbox \in [Conn -> Seq(Message)]
    /\ roster \in [Conn -> SUBSET Conn]

Init ==
    /\ sock = [c \in Conn |-> "none"]
    /\ participant = [c \in Conn |-> NoRoom]
    /\ rooms = [r \in {} |-> {}]
    /\ alive = [c \in Conn |-> FALSE]
    /\ running = TRUE
    /\ link = [c \in Conn |-> "none"]
    /\ inbox = [c \in Conn |-> <<>>]
    /\ roster = [c \in Conn |-> {}]

-----------------------------------------------------------------------------
(* Helpers of the server. *)

\* rooms.get(r), with an absent room read as an empty one
Members(r) == IF r \in DOMAIN rooms THEN rooms[r] ELSE {}

\* rooms.set(r, S)
PutRoom(r, S) == [x \in DOMAIN rooms \cup {r} |-> IF x = r THEN S ELSE rooms[x]]

\* rooms.delete(r)
DropRoom(r) == [x \in DOMAIN rooms \ {r} |-> rooms[x]]

\* What send() writes reaches c only if the server's socket is still OPEN, and
\* bytes written to a link that is gone reach nobody.
Reaches(c) == sock[c] = "open" /\ link[c] = "up"

SendTo(c, m) ==
    inbox' = IF Reaches(c) THEN [inbox EXCEPT ![c] = Append(@, m)] ELSE inbox

Broadcast(S, m) ==
    inbox' = [d \in Conn |->
                IF d \in S /\ Reaches(d) THEN Append(inbox[d], m) ELSE inbox[d]]

\* c is in wss.clients: its 'close' event has not been emitted yet
InServer(c) == sock[c] \in {"open", "closing"}

\* A 'message' event: also while closing, for data received before the close.
Receives(c) ==
    /\ InServer(c)
    /\ \A d \in Conn : Len(inbox[d]) < MaxInbox

Reply(c, m) ==
    /\ Receives(c)
    /\ SendTo(c, m)
    /\ UNCHANGED <<server, link, roster>>

\* c enters room r: room.joined to c, participant.joined to the members in `told`
EnterRoom(c, r, told) ==
    LET present == Members(r) \cup {c} IN
    /\ participant' = [participant EXCEPT ![c] = r]
    /\ rooms' = PutRoom(r, present)
    /\ inbox' = [d \in Conn |->
                   IF d \in told \cup {c} /\ Reaches(d)
                   THEN Append(inbox[d], IF d = c THEN RoomJoined(present)
                                                  ELSE Introduction(c))
                   ELSE inbox[d]]
    /\ UNCHANGED <<sock, alive, running, link, roster>>

-----------------------------------------------------------------------------
(***************************************************************************)
(* Faulty variants of handlers below, each a mistake that is easy to make. *)
(* No specification uses them: they show what the properties exclude.      *)
(***************************************************************************)

\* The room id is not validated.
JoinInvalidAccepted(c) ==
    /\ Receives(c) /\ participant[c] = NoRoom
    /\ rooms' = PutRoom(NoRoom, {c})
    /\ UNCHANGED <<sock, participant, alive, running, client>>

\* Off by one in the capacity test.
JoinOneTooMany(c, r) ==
    /\ Receives(c) /\ participant[c] = NoRoom
    /\ Cardinality(Members(r)) <= MaxParticipants
    /\ EnterRoom(c, r, Members(r))

\* The others are not told of the newcomer.
JoinUnannounced(c, r) ==
    /\ Receives(c) /\ participant[c] = NoRoom
    /\ Cardinality(Members(r)) < MaxParticipants
    /\ EnterRoom(c, r, {})

\* The test for a second join is missing.
JoinTwice(c, r) ==
    /\ Receives(c)
    /\ Cardinality(Members(r)) < MaxParticipants
    /\ EnterRoom(c, r, Members(r))

\* The target is looked up among all participants, not in the sender's room.
RelayAnywhere(c, d, p) ==
    /\ Receives(c) /\ participant[c] # NoRoom
    /\ d # c /\ participant[d] # NoRoom
    /\ SendTo(d, Signal(c, p))
    /\ UNCHANGED <<server, link, roster>>

\* Chat is not echoed to its sender.
ChatToOthers(c) ==
    /\ Receives(c) /\ participant[c] # NoRoom
    /\ Broadcast(rooms[participant[c]] \ {c}, ChatMessage(c))
    /\ UNCHANGED <<server, link, roster>>

\* The 'error' handler announces the departure that 'close' announces again.
SocketErrorAnnounced(c) ==
    /\ sock[c] = "open" /\ link[c] = "lost"
    /\ sock' = [sock EXCEPT ![c] = "closing"]
    /\ Broadcast(Members(participant[c]), Departure(c))
    /\ UNCHANGED <<participant, rooms, alive, running, link, roster>>

\* An emptied room is kept.
OnCloseKeepsRoom(c) ==
    LET r == participant[c] IN
    /\ sock[c] = "closing" /\ r # NoRoom
    /\ sock' = [sock EXCEPT ![c] = "closed"]
    /\ rooms' = PutRoom(r, rooms[r] \ {c})
    /\ Broadcast(rooms[r] \ {c}, Departure(c))
    /\ UNCHANGED <<participant, alive, running, link, roster>>

\* Nobody is told of the departure.
OnCloseUnannounced(c) ==
    LET r == participant[c]
        others == rooms[r] \ {c}
    IN
    /\ sock[c] = "closing" /\ r # NoRoom
    /\ sock' = [sock EXCEPT ![c] = "closed"]
    /\ rooms' = IF others = {} THEN DropRoom(r) ELSE PutRoom(r, others)
    /\ UNCHANGED <<participant, alive, running, client>>

\* isAlive is not reset when a ping is sent.
HeartbeatWithoutReset ==
    /\ running
    /\ sock' = [c \in Conn |->
                  IF sock[c] = "open" /\ ~alive[c] THEN "closing" ELSE sock[c]]
    /\ UNCHANGED <<participant, rooms, alive, running, client>>

-----------------------------------------------------------------------------
(* The 'message' handler: one action for each way through it. *)

RateLimited(c) == Reply(c, Error)                                        \* 429

Malformed(c) == Reply(c, Error)                                          \* 400

Ping(c) == Reply(c, Pong)

CreateRoom(c) == Reply(c, RoomCreated)

JoinAgain(c) == participant[c] # NoRoom /\ Reply(c, Error)               \* 409

JoinInvalid(c) == participant[c] = NoRoom /\ Reply(c, Error)             \* 400

JoinFull(c, r) ==                                                        \* 409
    /\ participant[c] = NoRoom
    /\ Cardinality(Members(r)) >= MaxParticipants
    /\ Reply(c, Error)

Join(c, r) ==
    /\ Receives(c) /\ participant[c] = NoRoom
    /\ Cardinality(Members(r)) < MaxParticipants
    /\ EnterRoom(c, r, Members(r))

NotJoined(c) == participant[c] = NoRoom /\ Reply(c, Error)               \* 403

RelayNoTarget(c) == participant[c] # NoRoom /\ Reply(c, Error)           \* 404

InvalidPayload(c) == participant[c] # NoRoom /\ Reply(c, Error)          \* 400

Relay(c, d, p) ==
    /\ Receives(c)
    /\ participant[c] # NoRoom
    /\ d \in rooms[participant[c]] \ {c}
    /\ SendTo(d, Signal(c, p))
    /\ UNCHANGED <<server, link, roster>>

Chat(c) ==
    /\ Receives(c)
    /\ participant[c] # NoRoom
    /\ Broadcast(rooms[participant[c]], ChatMessage(c))
    /\ UNCHANGED <<server, link, roster>>

Refused(c) ==
    \/ RateLimited(c) \/ Malformed(c)
    \/ JoinAgain(c) \/ JoinInvalid(c) \/ \E r \in RoomId : JoinFull(c, r)
    \/ NotJoined(c) \/ RelayNoTarget(c) \/ InvalidPayload(c)

Request(c) ==
    \/ "ping" \in Traffic /\ Ping(c)
    \/ "room.create" \in Traffic /\ CreateRoom(c)
    \/ "refused" \in Traffic /\ Refused(c)
    \/ "chat.send" \in Traffic /\ Chat(c)
    \/ \E r \in RoomId : Join(c, r)
    \/ \E d \in Conn, p \in Payload : Relay(c, d, p)

-----------------------------------------------------------------------------
(* Opening and closing connections. *)

Connect(c) ==
    /\ running
    /\ sock[c] = "none"
    /\ sock' = [sock EXCEPT ![c] = "open"]
    /\ alive' = [alive EXCEPT ![c] = TRUE]
    /\ link' = [link EXCEPT ![c] = "up"]
    /\ UNCHANGED <<participant, rooms, running, inbox, roster>>

\* The server reads the client's close frame and answers it.
ReceiveClose(c) ==
    /\ sock[c] = "open"
    /\ link[c] = "closed"
    /\ sock' = [sock EXCEPT ![c] = "closing"]
    /\ UNCHANGED <<participant, rooms, alive, running, client>>

\* The operating system reports an error on a dead link, at any time or never.
SocketError(c) ==
    /\ sock[c] = "open"
    /\ link[c] = "lost"
    /\ sock' = [sock EXCEPT ![c] = "closing"]
    /\ UNCHANGED <<participant, rooms, alive, running, client>>

OnCloseUnjoined(c) ==
    /\ sock[c] = "closing"
    /\ participant[c] = NoRoom
    /\ sock' = [sock EXCEPT ![c] = "closed"]
    /\ UNCHANGED <<participant, rooms, alive, running, client>>

OnCloseJoined(c) ==
    LET r == participant[c]
        others == rooms[r] \ {c}
    IN
    /\ sock[c] = "closing"
    /\ r # NoRoom
    /\ sock' = [sock EXCEPT ![c] = "closed"]
    /\ rooms' = IF others = {} THEN DropRoom(r) ELSE PutRoom(r, others)
    /\ Broadcast(others, Departure(c))
    /\ UNCHANGED <<participant, alive, running, link, roster>>

OnClose(c) == OnCloseUnjoined(c) \/ OnCloseJoined(c)

\* ws.terminate() for a socket that missed the last ping, a new ping for the others
HeartbeatTick ==
    /\ running
    /\ sock' = [c \in Conn |->
                  IF sock[c] = "open" /\ ~alive[c] THEN "closing" ELSE sock[c]]
    /\ alive' = [c \in Conn |-> alive[c] /\ ~InServer(c)]
    /\ UNCHANGED <<participant, rooms, running, client>>

PongReceived(c) ==
    /\ sock[c] = "open"
    /\ link[c] = "up"
    /\ ~alive[c]
    /\ alive' = [alive EXCEPT ![c] = TRUE]
    /\ UNCHANGED <<sock, participant, rooms, running, client>>

Shutdown ==
    /\ running
    /\ running' = FALSE
    /\ sock' = [c \in Conn |-> IF sock[c] = "open" THEN "closing" ELSE sock[c]]
    /\ UNCHANGED <<participant, rooms, alive, client>>

\* The process ends, whatever it was doing, and a new one starts with no room.
Restart ==
    /\ rooms' = [r \in {} |-> {}]
    /\ sock' = [c \in Conn |-> IF sock[c] = "none" THEN "none" ELSE "closed"]
    /\ running' = TRUE
    /\ UNCHANGED <<participant, alive, client>>

-----------------------------------------------------------------------------
(* The client and the network. *)

\* leaveRoom(): the client closes its socket and forgets the room.
ClientClose(c) ==
    /\ link[c] = "up"
    /\ link' = [link EXCEPT ![c] = "closed"]
    /\ inbox' = [inbox EXCEPT ![c] = <<>>]
    /\ roster' = [roster EXCEPT ![c] = {}]
    /\ UNCHANGED server

\* The network stops carrying anything between the two ends.
LinkLost(c) ==
    /\ link[c] = "up"
    /\ link' = [link EXCEPT ![c] = "lost"]
    /\ inbox' = [inbox EXCEPT ![c] = <<>>]
    /\ UNCHANGED <<server, roster>>

\* onclose without disconnect(): 'disconnected', and the client leaves the room.
ClientSeesClose(c) ==
    /\ \/ link[c] = "up" /\ sock[c] \in {"closing", "closed"}
       \/ link[c] = "lost"
    /\ link' = [link EXCEPT ![c] = "closed"]
    /\ inbox' = [inbox EXCEPT ![c] = <<>>]
    /\ roster' = [roster EXCEPT ![c] = {}]
    /\ UNCHANGED server

Learns(m, S) ==
    CASE m.type = "room.joined"        -> S \cup m.participants
      [] m.type = "participant.joined" -> S \cup {m.participant}
      [] m.type = "participant.left"   -> S \ {m.participant}
      [] OTHER                         -> S

\* handleMessage() with the handlers that maintain the roster
Deliver(c) ==
    /\ link[c] = "up"
    /\ inbox[c] # <<>>
    /\ roster' = [roster EXCEPT ![c] = Learns(Head(inbox[c]), @)]
    /\ inbox' = [inbox EXCEPT ![c] = Tail(@)]
    /\ UNCHANGED <<server, link>>

-----------------------------------------------------------------------------

Network(c) == LinkLost(c) \/ SocketError(c) \/ ReceiveClose(c) \/ PongReceived(c)

Client(c) == Connect(c) \/ ClientClose(c) \/ ClientSeesClose(c) \/ Deliver(c)

Next ==
    \/ \E c \in Conn : Request(c) \/ OnClose(c) \/ Network(c) \/ Client(c)
    \/ HeartbeatTick
    \/ Shutdown
    \/ Restart

Spec == Init /\ [][Next]_vars

-----------------------------------------------------------------------------
(* Properties. *)

(***************************************************************************)
(* The Map of rooms and the closures of the connections agree: a room      *)
(* holds exactly the connections that joined it and whose 'close' has not  *)
(* been handled, and no empty room is kept.  The handlers look a room up   *)
(* with rooms.get(participant.roomId) and use it unchecked (lines 95 and   *)
(* 128, the latter outside any try), which is sound only under this.       *)
(***************************************************************************)
RoomsExact ==
    /\ \A r \in DOMAIN rooms : rooms[r] # {}
    /\ \A c \in Conn, r \in RoomId :
         c \in Members(r) <=> participant[c] = r /\ InServer(c)

(***************************************************************************)
(* No room exceeds MAX_PARTICIPANTS, sockets being closed included.        *)
(***************************************************************************)
CapacityRespected ==
    \A r \in DOMAIN rooms : Cardinality(rooms[r]) <= MaxParticipants

(***************************************************************************)
(* Rooms are isolated: whoever a client knows or hears of joined its room. *)
(***************************************************************************)
Mentioned(m) ==
    CASE m.type = "room.joined" -> m.participants
      [] m.type \in {"participant.joined", "participant.left",
                     "webrtc", "chat.message"} -> {m.participant}
      [] OTHER -> {}

RoomsIsolated ==
    \A c \in Conn :
        /\ \A d \in roster[c] : participant[d] = participant[c]
        /\ \A i \in DOMAIN inbox[c] : \A d \in Mentioned(inbox[c][i]) :
              participant[d] = participant[c] /\ participant[c] # NoRoom

(***************************************************************************)
(* A client in a room that is still reached always learns its membership:  *)
(* someone is in the room exactly when the client knows them or is about   *)
(* to be told of them, and is not about to be told that they left.         *)
(***************************************************************************)
Introduces(m, x) ==
    \/ m.type = "room.joined" /\ x \in m.participants
    \/ m = Introduction(x)

WillKnow(c, x) ==
    x \in roster[c] \/ \E i \in DOMAIN inbox[c] : Introduces(inbox[c][i], x)

WillForget(c, x) == \E i \in DOMAIN inbox[c] : inbox[c][i] = Departure(x)

RosterConverges ==
    \A c, x \in Conn :
        Reaches(c) /\ participant[c] # NoRoom =>
            (x \in Members(participant[c]) <=> WillKnow(c, x) /\ ~WillForget(c, x))

(***************************************************************************)
(* A client hears from a participant, or of its departure, only while it   *)
(* knows that participant: after the introduction and before the           *)
(* departure.  webrtc.js relies on it: a signal that came after            *)
(* participant.left would be dropped, one that came before the room is     *)
(* known would have no session to handle it.                               *)
(***************************************************************************)
KnownAt(c, x, i) ==
    /\ x \in roster[c] \/ \E j \in 1..(i-1) : Introduces(inbox[c][j], x)
    /\ \A j \in 1..(i-1) : inbox[c][j] # Departure(x)

SpokenOfWhileKnown ==
    \A c \in Conn : \A i \in DOMAIN inbox[c] :
        inbox[c][i].type \in {"participant.left", "webrtc", "chat.message"} =>
            KnownAt(c, inbox[c][i].participant, i)

(***************************************************************************)
(* All clients of a room see its events (who joined, who left, the chat)   *)
(* in one order: of what two of them have still to see, the last is the    *)
(* same, and the last but one, as far as both go.  A client's own          *)
(* room.joined is its introduction.                                        *)
(***************************************************************************)
IsRoomEvent(m) ==
    m.type \in {"room.joined", "participant.joined", "participant.left", "chat.message"}

SeenBy(c, m) == IF m.type = "room.joined" THEN Introduction(c) ELSE m

\* The room events of the messages s that come after the i-th
Later(s, i) == {k \in DOMAIN s : i < k /\ IsRoomEvent(s[k])}

SameEnds(c, s, d, t) ==
    \A i \in DOMAIN s, j \in DOMAIN t :
        /\ IsRoomEvent(s[i]) /\ IsRoomEvent(t[j])
        /\ Cardinality(Later(s, i)) = Cardinality(Later(t, j))
        => SeenBy(c, s[i]) = SeenBy(d, t[j])

RoomEventsInOneOrder ==
    \A c, d \in Conn :
        c # d /\ Reaches(c) /\ Reaches(d)
            /\ participant[c] # NoRoom /\ participant[c] = participant[d] =>
                SameEnds(c, inbox[c], d, inbox[d])

(***************************************************************************)
(* The rooms of server.js implement the abstract RoomMembership: joining,  *)
(* leaving for good, and emptying every room on a restart.                 *)
(***************************************************************************)
Membership == INSTANCE RoomMembership WITH
    member <- [c \in Conn |->
                 IF participant[c] = NoRoom THEN NoRoom
                 ELSE IF InServer(c) THEN participant[c] ELSE Gone]

ImplementsMembership == Membership!MembershipSpec
=============================================================================
