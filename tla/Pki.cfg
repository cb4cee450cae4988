SPECIFICATION Spec
CONSTANTS
  Names = {alice, bob}
  Reqs = {r1}
  Overlap = FALSE
  MaxSerial = 4
  MaxFailures = 2
SYMMETRY PkiSymmetry
INVARIANTS
  TypeOK
  ValidIsRevocable
  FreeNameIsFree
PROPERTIES
  RecordsKept
  CrlGrows
  RevocationTakesEffect
  NewerStaysValid
