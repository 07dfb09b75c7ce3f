CONSTANTS
    Names <- MCNames
    Values <- MCValues
    AuthFunctions <- MCAuthFunctions
    IdentityColumns <- MCIdentityColumns
    DiscriminatorColumns <- MCIdentityColumns
    VolatileFunctions = {"random"}
    RequireFunctions = {"require_tenant"}
    JsonPaths <- MCJsonPaths
    PlaceholderNames = {"todo"}
    PrincipalColumns = {"owner_id"}
    PiiColumns = {"email"}
    Rows <- MCRows
    PolicyNames <- MCPolicyNames
    Policies <- MCPolicies
    Views <- MCViews
    Fns <- MCFns
    Grants <- MCGrants
    RoleSets <- MCRoleSets
    Starts <- MCStarts
    Options <- MCOptions
    DdlTables <- MCDdlTables
INIT Init
NEXT Next
CHECK_DEADLOCK FALSE
INVARIANT DoorsReported
INVARIANT NewDoorsFailTheGate
INVARIANT OneOwnerPerBypass
INVARIANT GeneratedLintsClean
INVARIANT NoSilentRule
