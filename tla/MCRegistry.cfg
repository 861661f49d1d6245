\* Registrars, rebuilds of the file, kills and the server in any order.
CONSTANTS
  Registrars = {p1, p2}
  Tags = {ta, tb}
  Paths = {"fa"}
  Hefs = {h1, h2}
  MaxCrashes = 1
  MaxRebuilds = 1
SPECIFICATION Spec
SYMMETRY Symmetry
INVARIANTS
  TypeOK
  ManifestHasBlob
  RegisteredIsIntact
  ServedIsIntact
CHECK_DEADLOCK FALSE
