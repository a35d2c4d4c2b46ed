CONSTANTS
    Files <- MCFiles
    CpuNames <- MCNames
    CpuCelsius <- MCCpu
    HddCelsius <- MCHdd
    SsdCelsius <- MCSsd
SPECIFICATION Spec
INVARIANTS
    TypeOK
    PlanIsDocumentedCurve
    ParkedDiskNotRead
PROPERTIES
    WarmerNeverSlower
CHECK_DEADLOCK FALSE
