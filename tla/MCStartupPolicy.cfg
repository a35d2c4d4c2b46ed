CONSTANTS
    Helpers = {h1, h2}
    Identities = {"bios1", "bios2"}
SYMMETRY Interchangeable
SPECIFICATION Spec
INVARIANTS TypeOK SuccessIsDurable SavedIsApplied AppliesNewest
PROPERTY HonestReport
