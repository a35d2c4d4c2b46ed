CONSTANTS
    Clients = {"cli", "compat"}
    Compat = {"compat"}
    Lights = {0}
    First <- MCEffects
    Takeover = TRUE
    Faulty = {TRUE}
SPECIFICATION FairSpec
INVARIANTS TypeOK RestoredBetweenClients
PROPERTIES ExitRestores StalledClientDropped StopEnds
CHECK_DEADLOCK FALSE
