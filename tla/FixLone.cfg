CONSTANTS
  Rows <- MCRows
  LastName = 2
  Allowlist = {}
  Runs = {r1}
  NoRun = NoRun
  Filters <- AllRules
  Tables <- Lone
  Installed <- NoPolicies
  MaxEdits = 0
  MaxAborts = 1
SPECIFICATION RepeatedSpec
INVARIANTS PlanRuns
PROPERTIES NothingHiddenIsAdmitted RunsAreAtomic Converges
