SPECIFICATION Spec
CONSTANTS
    Login = login
    Roles = {alice, bob}
    Json = {j1}
    NoValue = NoValue
    Empty = Empty
    Lang = "python"
    BodySetsClaims = TRUE
    CtxCancels = FALSE
    MaxDepth = 2
    MaxSaves = 2
    MaxTests = 1
SYMMETRY RoleSymmetry
INVARIANT TypeOK
INVARIANT RoleFollowsBlock
PROPERTY NonNullClaimsRestored
INVARIANT TestWritesNeverCommit
PROPERTY CoverageInOneTransaction
