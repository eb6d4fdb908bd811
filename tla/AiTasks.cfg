SPECIFICATION FairSpec
CONSTANTS
  r1 = r1
  r2 = r2
  r3 = r3
  i1 = i1
  i3 = i3
  p1 = p1
  p2 = p2
  own = own
  site = site
  Requests = {r1, r2, r3}
  None = None
  Governed = {r3}
  Ids = {i1, i3}
  IdOf <- MCIdOf
  Subjects = {"subject"}
  SubjectOf <- MCSubjectOf
  Replicas = {p1, p2}
  ReplicaOf <- MCReplicaOf
  Buckets = {own, site}
  BucketsOf <- MCBucketsOf
  CallLimit <- MCCallLimit
  TokenLimit <- MCTokenLimit
  Estimate <- MCEstimate
  Usages = {1, 3}
  MaxActive = 1
  MaxRetained = 2
  Days = {1, 2}
  Scenarios <- MCScenarios
INVARIANTS LedgerTrue 
PROPERTY RecordsEnd
CHECK_DEADLOCK FALSE
