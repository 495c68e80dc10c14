SPECIFICATION Spec
CONSTANTS
    outstn = outstn
    keyless = keyless
    a = a
    b = b
    NoKey = NoKey
    ExitStr = ExitStr
    OtherInput = OtherInput
    Stations <- MCStations
    Trigger <- MCTrigger
    luaTriggers <- MCluaTriggers
    NumFiles <- MCNumFiles
    Limit = 2
    MaxPresses = 2
    PipeMayVanish = TRUE
PROPERTY NoPressWithoutPipe
