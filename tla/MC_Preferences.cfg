CONSTANTS
    Sections <- MC_Sections
    Values <- MC_Values
SPECIFICATION Spec
INVARIANTS
    TypeOK
    ApplyReflectsUnsaved
PROPERTIES
    CloseSavesAllOrNothing
