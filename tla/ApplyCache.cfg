SPECIFICATION FairSpec
CONSTANTS
    Runs = {r, s}
    Baselines <- MCBaselines
    Migrations <- MCMigrations
    Builds <- MCBuilds
    None = None
    Error = Error
    Caching = {TRUE}
    MaxVersion = 2
INVARIANT HeadAsUncached
PROPERTY RunsEnd
