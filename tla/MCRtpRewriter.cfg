SPECIFICATION RewriterSpec
CONSTANTS
    SeqMod = 4
    TsMod = 64
    TsStep = 7
    First <- MCFirst
    Window = 2
    MaxDelay = 3
    MaxPackets = 7
    MaxSwitches = 2
CHECK_DEADLOCK FALSE
INVARIANTS
    RewriterTypeOK
    DistancesPreserved
    TimestampsAdvanceAtSwitch
