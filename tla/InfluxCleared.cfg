CONSTANTS
  a1 = a1
  a2 = a2
  u0 = u0
  u1 = u1
  u2 = u2
  t0 = t0
  t1 = t1
  t2 = t2
  Blank = Blank
  NoRow = NoRow
  Admins = {a1, a2}
  Urls = {u0, u1, u2}
  Tokens = {t0, t1, t2}
  AppConfs <- MCAppConfs
  MaxSaves = 2
  MaxFailures = 0
  MaxRestarts = 0
SPECIFICATION Spec
SYMMETRY Symmetry
INVARIANTS ClearedUrlIsOff
CHECK_DEADLOCK FALSE
