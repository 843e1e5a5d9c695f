SPECIFICATION FairSpec
CONSTANTS
    Gens = {g1, g2, g3}
    Ids = {i1, i2}
    None = None
    MaxOutages = 1
    MaxCrashes = 1
INVARIANTS
    PointerNeverDangles
    ReplacementIsAdopted
    DiscardedIsInactive
PROPERTIES
    PublicationEnds
CHECK_DEADLOCK FALSE
