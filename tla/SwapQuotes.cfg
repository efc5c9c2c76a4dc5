CONSTANTS
  NoQuery = NoQuery
  NoRequest = NoRequest
  NoList = NoList
  r1 = r1
  r2 = r2
  r3 = r3
  q1 = q1
  q2 = q2
  a1 = a1
  a2 = a2
  Requests = {r1, r2, r3}
  Queries = {q1}
  Apis = {a1}
  GateSize = 2
SPECIFICATION FairSpec
INVARIANTS
  GateConserved
  SharedWasSent
PROPERTIES
  RequestEnds
