SPECIFICATION MediaSpec
CONSTANTS
    Mic = {m1}
    Cam = {v1, v2}
    Screen = {s1}
    Peer = {p1}
    Task = {t1, t2}
    Controls = {"toggle", "select", "screen"}
    Answering = Answering
    None = None
SYMMETRY MediaSymmetry
INVARIANTS
    MediaTypeOK
    
PROPERTY
    ScreenStaysShared
