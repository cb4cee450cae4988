SPECIFICATION FairSpec
CONSTANTS
  c1 = c1
  c2 = c2
  alice = alice
  home = home
  office = office
  Conns = {c1, c2}
  Names = {alice}
  Addrs = {home, office}
  Name <- SharedName
  Addr <- OneAddr
  NoConn = NoConn
  DuplicateCn = FALSE
  MaxTime = 1
  MaxBytes = 0
  MaxRows = 5
  MaxRestarts = 1
  MaxDbErrors = 1
PROPERTIES
  NeverReopened
  OrphansClosed
  LiveConnectionsTracked
