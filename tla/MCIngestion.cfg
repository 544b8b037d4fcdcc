SPECIFICATION IngestFairSpec
CONSTANTS
  w1 = w1  w2 = w2  n1 = n1  n2 = n2  p1 = p1  p2 = p2  a1 = a1  m1 = m1  m2 = m2
  NoAuthor = NoAuthor  NoMember = NoMember  Unassigned = Unassigned
  Workers = {w1, w2}
  Integrations = {n1}
  Projects = {p1}
  Home <- MCHome
  Authors = {a1}
  AuthorOf <- MCAuthorOf
  FilePushes <- MCFilePushes
  Members = {m1, m2}
  Providers <- MCProviders
  Crew <- MCCrew
  PageSize = 2
  MaxItem = 3
  Things <- MCThings
  MaxRows <- MCMaxRows
  MaxFailures = 1
INVARIANTS IngestTypeOK IngestIsComplete DoneIsRecorded AttributionFollowsMap
PROPERTIES WorkersEnd
CHECK_DEADLOCK FALSE
