SPECIFICATION Spec
CONSTANTS
    Catalogues <- MCCatalogues
    Principals = {"alice", "PUBLIC"}
    Roles <- MCRoles
    Super = {"root"}
    Bypass = {"dumper"}
    Rows = {1, 2}
    Clauses <- MCClauses
    ClauseRows <- MCClauseRows
    OnSession = {"mine", "shared"}
    OnRelations = {"shared"}
    OnSetting = {"plain"}
INVARIANT CellsCoverReach
PROPERTY AnalysisEnds
CHECK_DEADLOCK FALSE
