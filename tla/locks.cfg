CONSTANTS
  r1 = r1
  r2 = r2
  r3 = r3
  Requests = {r1, r2, r3}
  Kinds = {"ticket", "pay", "purge", "correct", "create", "unsettle", "cash", "reset"}
SPECIFICATION CrowdSpec
INVARIANTS OnlyResetsDeadlock WipeIsAlone
PROPERTIES RequestEnds
