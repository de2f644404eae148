SPECIFICATION SfuFairSpec
CONSTANT Transport = {t1}
CHECK_DEADLOCK FALSE
INVARIANTS
    
    MediaOnlyWithKeys
    ReadyBeforeBrowser
PROPERTY
    BrowserCompletes
