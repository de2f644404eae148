SPECIFICATION Spec
CONSTANTS
    Conn = {c1, c2, c3}
    RoomId = {r1, r2}
    NoRoom = NoRoom
    Gone = Gone
    Payload = {sdp}
    Traffic = {"ping", "room.create", "refused", "chat.send"}
    MaxParticipants = 2
    MaxInbox = 1
SYMMETRY Symmetry
INVARIANTS
    TypeOK
    RoomsExact
    CapacityRespected
    RoomsIsolated
    RosterConverges
    SpokenOfWhileKnown
PROPERTY
    ImplementsMembership
