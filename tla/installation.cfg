\* Installations one after another, killed or not, and edits in between.
SPECIFICATION Spec

CONSTANTS
    Key = {"k", "l"}
    Missing = Missing
    MaxFaults = 2
    Initial <- MCInitial
    Edits <- MCEdits

INVARIANTS
    TypeOK
    InstallEnforces
    UserContentKept
    OriginalSurvives
