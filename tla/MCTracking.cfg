SPECIFICATION MCSpec
CONSTANTS
  m1 = m1  n1 = n1  n2 = n2  p1 = p1  p2 = p2  c1 = c1  c2 = c2  a1 = a1  a2 = a2  e1 = e1  e2 = e2
  NoName = NoName  NoMember = NoMember  NoPerson = NoPerson
  Names = {n1, n2}
  Events = {e1, e2}
  Members = {m1}
  AuthorOf <- MCAuthorOf
  Calls = {c1, c2}
  MaxFeatures = 2
  MaxOutputs = 1
  People = {p1, p2}
  TheTeam = TheTeam
  Asks = {a1, a2}
  MaxAssignments = 3
CONSTRAINT MCBound
SYMMETRY MCSymmetry
INVARIANTS TrackTypeOK DetectedByAuthor AssignmentsWithinOverlap DatesFollowStatus
CHECK_DEADLOCK FALSE
