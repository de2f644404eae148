CONSTANTS
    MaxRuns = 3
    Absent = Absent
    Torn = Torn
    Http = Http
SPECIFICATION InstallSpec
INVARIANTS
    InstallTypeOK
    FailureRestores
    
    InstalledServes
