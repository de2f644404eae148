SPECIFICATION SessionFairSpec
CONSTANT MaxAttempts = 3
INVARIANTS
    ConnectedOnlyInRoom
    SessionOfAttempt
PROPERTIES
    JoinSettles
    LossReturnsToLobby
