CONSTANTS
    Targets <- MCSys
    Outputs <- MCSysOutputs
    PwmValues = {40}
    BootPwm = {0}
    Config <- MCQuickConfig
    Route <- MCSysRoute
    Protection = {TRUE, FALSE}
    OnceOptions = {TRUE, FALSE}
    Snapshots <- MCTwoSnapshots
    CliPwm = {40}
    MaxClockStep = 1
    MaxOrphans = 1
SPECIFICATION FairSpec
INVARIANTS TypeOK AppliedIsHardware NeverBelowPlan
PROPERTY Settles
