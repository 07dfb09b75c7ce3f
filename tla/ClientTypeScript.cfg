SPECIFICATION Spec
CONSTANTS
    Login = login
    Roles = {alice, bob}
    Json = {j1}
    NoValue = NoValue
    Empty = Empty
    Lang = "typescript"
    BodySetsClaims = FALSE
    CtxCancels = FALSE
    MaxDepth = 2
    MaxSaves = 3
    MaxTests = 2
SYMMETRY RoleSymmetry
INVARIANT IInv
INVARIANT NothingLeftBehind
INVARIANT ClaimsFollowBlock
PROPERTY ImplementsBlocks
