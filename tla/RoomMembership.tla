--------------------------- MODULE RoomMembership ---------------------------
(***************************************************************************)
(* What the signaling service promises about rooms, seen from outside: a   *)
(* connection is in no room, then in one room for as long as the service   *)
(* keeps it there, then gone for good.  It never changes rooms and never   *)
(* comes back; a room never holds more than MaxParticipants connections.   *)
(* Signaling.tla, the model of server.js, implements this specification.   *)
(***************************************************************************)
EXTENDS Naturals, FiniteSets

CONSTANTS Conn,            \* connections
          RoomId,          \* room identifiers
          NoRoom,          \* the connection has joined no room yet
          Gone,            \* the connection was in a room and is no longer
          MaxParticipants  \* limit on the size of a room

VARIABLE member  \* member[c]: where connection c is

InRoom(r) == {c \in Conn : member[c] = r}

-----------------------------------------------------------------------------

MembershipInit == member = [c \in Conn |-> NoRoom]

Enter(c, r) ==
    /\ member[c] = NoRoom
    /\ Cardinality(InRoom(r)) < MaxParticipants
    /\ member' = [member EXCEPT ![c] = r]

Leave(c) ==
    /\ member[c] \in RoomId
    /\ member' = [member EXCEPT ![c] = Gone]

(***************************************************************************)
(* Rooms are kept in memory only: a restart of the service empties them.   *)
(***************************************************************************)
EmptyRooms ==
    member' = [c \in Conn |-> IF member[c] \in RoomId THEN Gone ELSE member[c]]

MembershipNext ==
    \/ \E c \in Conn, r \in RoomId : Enter(c, r)
    \/ \E c \in Conn : Leave(c)
    \/ EmptyRooms

MembershipSpec == MembershipInit /\ [][MembershipNext]_member
=============================================================================
