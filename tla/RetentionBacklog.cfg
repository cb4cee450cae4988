CONSTANTS
  s1 = s1
  s2 = s2
  alice = alice
  Sessions = {s1, s2}
  Names = {alice}
  Owner <- MCOwner
  Bytes <- MCBytes
  HourLen = 2
  HoursPerDay = 2
  SampleRetention = 2
  HourlyRetention = 3
  MaxTime = 6
  MaxSamples = 4
  MaxDelete = 2
  MaxFailures = 0
SPECIFICATION Spec
INVARIANTS AggregatedOnce
