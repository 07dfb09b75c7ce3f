SPECIFICATION Spec
CONSTANTS
    Login = login
    Roles = {alice, bob}
    Json = {j1}
    NoValue = NoValue
    Empty = Empty
    Lang = "go"
    BodySetsClaims = FALSE
    CtxCancels = TRUE
    MaxDepth = 2
    MaxSaves = 2
    MaxTests = 1
SYMMETRY RoleSymmetry
PROPERTY RecoveryOnlyBySavepoint
