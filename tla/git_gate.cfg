SPECIFICATION Spec
CONSTANTS
    main = main
    feat = feat
    wip = wip
    r1 = r1
    r2 = r2
    None = None
    Proc = {p1, p2}
    Repo = {r1, r2}
    Branch = {main, feat, wip}
    Protected = {main}
    Policies <- MCPolicies
    Command <- MCCommand
INVARIANTS
    TypeOK
    DangerOverruled
    BranchRulesKept
    MessagesKept
