SPECIFICATION MeshFairSpec
CONSTANTS
    Conn = {c1, c2}
    RoomId = {r1}
    NoRoom = NoRoom
    Gone = Gone
    Payload = {"offer", "answer", "candidate"}
    Traffic = {"refused"}
    MaxParticipants = 2
    MaxInbox = 9
    MaxCandidates = 1
INVARIANT
    PeersAreInRoster
PROPERTIES
    MembersConnect
    LostConnectionIsRemoved
    GhostsVanish
    ImplementsSignaling
