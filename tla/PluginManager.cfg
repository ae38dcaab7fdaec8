SPECIFICATION Spec
CONSTANTS
  Name = {a, b}
  NumPaths <- OneOrTwo
CHECK_DEADLOCK FALSE
INVARIANTS TypeOK LastDirectoryWins HandlesMatch CallbacksHaveCode FailuresReported
