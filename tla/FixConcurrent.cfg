CONSTANTS
  Rows <- MCRows
  LastName = 2
  Allowlist = {}
  Runs = {r1, r2}
  NoRun = NoRun
  Filters <- AllRules
  Tables <- Pairs
  Installed <- Closed
  MaxEdits = 1
  MaxAborts = 1
SPECIFICATION ServedSpec
PROPERTIES FreshPlansNarrow EveryFixSurvives EveryRunEnds
