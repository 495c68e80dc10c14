CONSTANTS
    h1 = h1
    h2 = h2
    h3 = h3
    h4 = h4
    r1 = r1
    s1 = s1
    s2 = s2
    s3 = s3
    coils = coils
    inputs = inputs
    None = None
    Configs <- MCConfigs
    Names <- MCNames
    Addrs <- MCAddrs
    Types <- MCTypes
    DefaultPort = 10
    MaxUnit = 3
    Grace = 2
SPECIFICATION Spec
INVARIANTS
    TypeOK
    MastersMeetOutstations
    AddressesOwned
    UnitsSeparate
    OnTime
    CleanWithinGrace
PROPERTIES
    AllPolled
