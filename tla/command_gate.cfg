SPECIFICATION Spec
CONSTANTS
    c1 = c1
    c2 = c2
    q1 = q1
    None = None
    Proc = {p1, p2}
    Command = {c1, c2}
    Pattern = {q1}
    Matches <- MCMatches
    Exact <- MCExact
    NeverAllowed = {}
    GitHub = {}
    Misrouted = {}
    Disallowed = {}
    Temporary = {}
    Chmod = {}
    Authorized = {}
    ReadOnly = {}
    RuleFiles <- MCRuleFiles
SYMMETRY Symmetry
CONSTRAINT AtMostTwoRules
INVARIANTS
    TypeOK
    StandingBlockStops
    CacheConsented
    AuditTellsWhy
PROPERTY
    ImplementsCommandPermit
