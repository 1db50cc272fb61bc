SPECIFICATION Spec
CONSTANTS
    f1 = f1
    g1 = g1
    c1 = c1
    c2 = c2
    c3 = c3
    None = None
    All = All
    Proc = {p1, p2}
    File = {f1}
    Generated = {g1}
    ThisProject = {f1, g1}
    Content = {c1, c2}
    Refused <- MCRefused
    Index <- MCIndex
    Digest <- MCDigest
INVARIANT ResetHolds
