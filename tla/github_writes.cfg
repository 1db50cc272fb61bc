\* One call after another, and the files, the rules and GitHub around it.
SPECIFICATION Spec

CONSTANTS
    p1 = p1
    Call = {p1}
    None = None
    Missing = "missing"
    Unfit = "unfit"
    Title = {"t1", "t2"}
    File = {"f1", "f2"}
    Text = {"x", "y"}
    MaxIssues = 2
    Number = {"1", "2"}
    GetOnly = {"search"}
    Target = {"replies", "sub_issues"}
    Repository <- MCRepository
    Folded <- MCFolded
    Manifests <- MCManifests
    Policies <- MCPolicies
    Request <- MCRequest
    Source <- MCSource
    Document <- MCDocument

INVARIANTS
    TypeOK
    AuditCountsChanges
    UnaskedIsAuthorized
    RawNeverSent

PROPERTIES
    ImplementsGitHubPermit

