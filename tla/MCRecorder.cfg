SPECIFICATION TabSpec
CONSTANTS
    Mic = {m1, m2}
    Cam = {v1}
    Screen = {}
    Peer = {p1}
    Task = {t1, t2}
    Controls = {"toggle"}
    Answering = Answering
    None = None
    Recording = {a1, a2}
SYMMETRY TabSymmetry
INVARIANTS
    NoSecretRecording
    NoRecordingIsLost
    MutedIsSilent
    LobbyIsDark
