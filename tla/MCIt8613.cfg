CONSTANTS
    Procs = {"child", "cli"}
    Targets <- MCTargets
    Outputs <- MCOutputs
    BootPwm = {0}
    PwmValues = {39, 40, 255}
    RequiresForce = TRUE
SPECIFICATION FairSpec
INVARIANTS TypeOK OneWriter
PROPERTIES ActsAtomically SuccessMeansAllOutputsSet EveryCallReturns
