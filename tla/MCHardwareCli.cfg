SPECIFICATION FairSpec
CONSTANTS
    Names <- MCNames
    NvmeNames <- MCNvmeNames
    Siblings <- MCSiblings
    Serials <- MCSerials
    PlacesOf <- MCPlacesOf
    Card <- MCCard
    DISK_MAX = 3
    Lights = {1, 2, 3, 4, 5, 6, 7, 8}
    MaxTicks = 2
    Situations <- MCSituations
INVARIANTS TypeOK Snapshot LedIsOwnBay UsefulMap LocateRightBay LedOutcome SetOutcome QuietSucceeds
PROPERTY CommandEnds
