SPECIFICATION Spec
CONSTANTS
  Names = {"alice", "bob"}
  Ids = {2, 3}
  Logins = {"alice", "bob", "carol"}
  Reqs = {r1}
  Overlap = FALSE
  StalePages = TRUE
  MaxIssues = 2
  MaxFailures = 1
INVARIANTS
  TypeOK
  FormerOwnersCleared
  OneOwnerAsked
PROPERTIES
  OwnerKept
