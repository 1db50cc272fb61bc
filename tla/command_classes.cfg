SPECIFICATION Spec
CONSTANTS
    c1 = c1
    g1 = g1
    r1 = r1
    t1 = t1
    q1 = q1
    q2 = q2
    None = None
    Proc = {p1}
    Command = {c1, g1, r1, t1}
    Pattern = {q1, q2}
    Matches <- MCMatches
    Exact <- MCExact
    NeverAllowed = {q2}
    GitHub = {g1}
    Misrouted = {}
    Disallowed = {t1}
    Temporary = {t1}
    Chmod = {c1}
    Authorized = {g1}
    ReadOnly = {r1}
    RuleFiles <- MCRuleFiles
INVARIANTS
    SerialAsksOnlyUndecided
PROPERTY
    SerialRuleAdded
