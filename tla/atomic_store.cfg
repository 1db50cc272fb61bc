SPECIFICATION Spec
CONSTANTS
    Writer = {w1, w2}
    Reader = {r1}
    Data = {d1, d2}
    Inode = {i1, i2, i3}
    TempName = {n1, n2}
    CanSyncDir = TRUE
    Absent = Absent
    None = None
INVARIANTS
    TypeOK
    TargetWhole
    SavedSurvives
    NoLitter
PROPERTY
    ImplementsRegister
SYMMETRY Symmetry
