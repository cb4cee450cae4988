SPECIFICATION Spec
CONSTANTS
  c1 = c1
  c2 = c2
  alice = alice
  home = home
  office = office
  Conns = {c1, c2}
  Names = {alice}
  Addrs = {home, office}
  Name <- SharedName
  Addr <- TwoAddrs
  NoConn = NoConn
  DuplicateCn = TRUE
  MaxTime = 0
  MaxBytes = 1
  MaxRows = 4
  MaxRestarts = 1
  MaxDbErrors = 0
INVARIANTS
  TypeOK
  ActiveKeysUnique
  SweepIsExact
PROPERTIES
  SamplesMonotonic
  ImplementsLedger
