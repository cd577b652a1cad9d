SPECIFICATION Spec
CONSTANTS
    Run = {r1, r2}
    MaxClock = 2
    MaxDamage = 2
    None = None
SYMMETRY RunSymmetry
CHECK_DEADLOCK FALSE
INVARIANTS TypeOK SuccessIsInstalled InstalledAsScanned
PROPERTY RestoreNeverOverwrites
