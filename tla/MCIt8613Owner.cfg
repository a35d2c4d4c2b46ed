CONSTANTS
    Procs = {"child", "cli"}
    Targets <- MCTargets
    Outputs <- MCOutputs
    BootPwm = {0}
    PwmValues = {200}
    RequiresForce = TRUE
SPECIFICATION Spec
PROPERTY DirectStartsUnowned
