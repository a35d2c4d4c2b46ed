CONSTANTS
    Targets <- MCTargets
    Outputs <- MCTwoOutputs
    PwmValues = {40}
    BootPwm = {0}
    Config <- MCConfig
    Route <- MCRoute
    Protection = {FALSE}
    OnceOptions = {FALSE}
    Snapshots <- MCSnapshots
    CliPwm = {}
    MaxClockStep = 0
    MaxOrphans = 0
SPECIFICATION Spec
INVARIANT NeverBelowPlan
PROPERTY NoEarlyDownshift
