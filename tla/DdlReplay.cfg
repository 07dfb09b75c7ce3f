CONSTANTS
    Names <- MCNames
    Values <- MCValues
    AuthFunctions <- MCAuthFunctions
    IdentityColumns = {"tenant_id"}
    DiscriminatorColumns = {"tenant_id"}
    VolatileFunctions = {}
    RequireFunctions = {}
    JsonPaths <- MCJsonPaths
    PlaceholderNames = {}
    PrincipalColumns = {}
    PiiColumns = {"email"}
    PolicyNames <- MCPolicyNames
    Migrations <- MCMigrations
INIT Init
NEXT Next
CHECK_DEADLOCK FALSE
INVARIANT ReplayFaithful
INVARIANT NullsErrWide
INVARIANT NoMissedFindings
