CONSTANTS
    Bits = 2
    WordSize = 8
    FirstDnp3Addr = 5
    None = None
    AllClasses = AllClasses
    PointTypes <- MCPointTypes
    Configs <- MCConfigs
    Later <- MCLater
SPECIFICATION Spec
INVARIANTS
    TypeOK
    AddressesDistinct
    IssuedDistinct
    FullBeforeLeaving
    ThreadHasInterface
    DatabaseHoldsPoints
    ScansMatchPolls
PROPERTIES
    CleanExit
