SPECIFICATION FairSpec
CONSTANTS
    Procs <- MCProcs
    Names <- MCNames
    Devs <- MCDevs
    Margin = 1
    Far = 9
    Situations <- MCSituations
INVARIANTS TypeOK ReportHolds FailureLeaves GetIsTruthful
PROPERTIES WakesOnTime CallEnds
CHECK_DEADLOCK FALSE
