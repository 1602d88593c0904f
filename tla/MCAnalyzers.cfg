SPECIFICATION Spec
CONSTANTS
    Analyzers <- All
    Single <- Large
    MaxEdits = 2
INVARIANTS
    DriftNeverPasses
    NothingGained
    SerialEffects
PROPERTIES
    DenialSticks
CHECK_DEADLOCK FALSE
