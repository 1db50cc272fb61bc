SPECIFICATION SerialSpec
CONSTANTS
    f1 = f1
    g1 = g1
    c1 = c1
    c2 = c2
    c3 = c3
    None = None
    All = All
    Proc = {p1}
    File = {f1}
    Generated = {g1}
    ThisProject = {f1, g1}
    Content = {c1, c2, c3}
    Refused <- MCRefused
    Index <- MCIndexThird
    Digest <- MCDigest
INVARIANT DiffFromLastApproved
