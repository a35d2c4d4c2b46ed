CONSTANTS
    Clients = {"cli", "cli2", "compat"}
    Compat = {"compat"}
    Lights = {0}
    First <- MCFirst
    Takeover = TRUE
    Faulty = {FALSE}
SPECIFICATION Spec
PROPERTY RefusesOnlyThisOperation
CHECK_DEADLOCK FALSE
