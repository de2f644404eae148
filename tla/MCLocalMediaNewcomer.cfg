SPECIFICATION MediaSpec
CONSTANTS
    Mic = {m1}
    Cam = {v1}
    Screen = {s1}
    Peer = {p1}
    Task = {t1, t2}
    Controls = {"screen"}
    Answering = Answering
    None = None
SYMMETRY MediaSymmetry
INVARIANTS
    NewcomersGetWhatIsPublished
