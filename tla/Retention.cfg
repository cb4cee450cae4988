CONSTANTS
  s1 = s1
  s2 = s2
  alice = alice
  Sessions = {s1, s2}
  Names = {alice}
  Owner <- MCOwner
  Bytes <- MCBytes
  HourLen = 2
  HoursPerDay = 2
  SampleRetention = 1
  HourlyRetention = 3
  MaxTime = 6
  MaxSamples = 4
  MaxDelete = 9
  MaxFailures = 1
SPECIFICATION FairSpec
INVARIANTS TypeOK AddedUpOnce NeverOverstated
PROPERTIES PrunedWereAggregated OldSamplesGo
