SPECIFICATION Spec
CONSTANTS
    Values = {"A", "B", "t", "anon", "authenticated"}
    AuthFunctions = {"auth.uid", "auth.role", "auth.jwt", "setting"}
    IdentityColumns = {"tenant_id", "user_id"}
    Roles <- MCRoles
    Bypass = {"admin"}
    AnonRoles = {"anon", "PUBLIC"}
    TenantRoles = {"authenticated"}
    Edges <- MCEdges
    Policies <- MCPolicies
    PolicyNames = {1, 2}
    Gucs = {"A"}
    Views <- MCViews
    Bodies <- MCBodies
    Bases <- MCBases
    MaxEdits = 2
    MaxMerges = 2
INVARIANT IsolatedMeansUnread
INVARIANT NoForeignRowTouched
INVARIANT LeaksAreReal
INVARIANT MergesKeepRowsHidden
CHECK_DEADLOCK FALSE
