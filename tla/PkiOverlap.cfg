SPECIFICATION Spec
CONSTANTS
  Names = {alice, bob}
  Reqs = {r1, r2}
  Overlap = TRUE
  MaxSerial = 3
  MaxFailures = 0
SYMMETRY PkiSymmetry
PROPERTIES
  CrlGrows
