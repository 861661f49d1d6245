CONSTANTS
  Registrars = {p1, p2}
  Tags = {ta}
  Paths = {"fa"}
  Hefs = {h1, h2}
  MaxCrashes = 0
  MaxRebuilds = 1
SPECIFICATION Spec
INVARIANT BlobIsTheHef
CHECK_DEADLOCK FALSE
