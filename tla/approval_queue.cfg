SPECIFICATION Spec
CONSTANTS
    Request = {r1, r2, r3}
    None = None
INVARIANTS
    TypeOK
    WindowShowsOldest
    HiddenOnlyByUser
    AwaitedOnce
PROPERTY
    ImplementsAskUser
SYMMETRY Symmetry
