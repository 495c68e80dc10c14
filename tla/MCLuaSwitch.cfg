SPECIFICATION FairSpec
CONSTANTS
    outstn = outstn
    keyless = keyless
    a = a
    b = b
    NoKey = NoKey
    ExitStr = ExitStr
    OtherInput = OtherInput
    Stations <- MCStations
    Trigger <- MCTrigger
    luaTriggers <- MCluaTriggers
    NumFiles <- MCNumFiles
    Limit = 2
    MaxPresses = 4
    PipeMayVanish = TRUE
INVARIANTS
    TypeOK
    CacheWindow
    SwitchFaithful
    AbortOnlyIfLagging
PROPERTIES
    PressObserved
    QuitEnds
    RefinesKeyLog
