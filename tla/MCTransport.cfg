SPECIFICATION Spec
CONSTANTS
    Base = 6
    Magic <- MCMagic
    FormatVersion = 11
    MinSchema = 1
    SchemaVersion = 11
    Hash <- MCHash
    SketchSize = 2
    DepthExact = 3
    TopExponent = 20
    Inputs <- MCInputs
    DamagedInputs <- MCDamaged
    ReportArgs <- MCReportArgs
    DamageBytes = {1, 5}
    MaxFaults = 1
INVARIANTS
    PackIsComplete
    UnpackReturnsThePacked
    ReportsAgree
    ShardsCompose
CHECK_DEADLOCK FALSE
