SPECIFICATION Spec
CONSTANTS
  Promoted = {"bilal"}
  Versioned = {"ANNUAL"}
  FirstYear = 2026
  LastYear = 2027
  MaxRuns = 2
INVARIANTS TypeOK RunLeavesItWhole RefusedOnlyIfTouched CopyIsCurrent
PROPERTIES VersionsStand
CHECK_DEADLOCK FALSE
