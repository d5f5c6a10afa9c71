CONSTANTS
    Macs = {m1, m2, m3}
    Names <- ThreeNames
    MaxEntries = 2
    MaxTime = 4
    EscLen = 10
    HnLen = 6
SPECIFICATION Spec
SYMMETRY MacSymmetry
INVARIANTS TypeOK OneEntryPerMac CleanSurvivesCrash
PROPERTY EvictsColdest
