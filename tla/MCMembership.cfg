SPECIFICATION MemSpec
CONSTANTS
  o = o  u = u  a1 = a1  a2 = a2  r1 = r1  p1 = p1  q1 = q1  q2 = q2
  NoRole = NoRole  NoOne = NoOne  NoAddress = NoAddress
  Users = {o, u}
  Owner = o
  Addresses = {a1, a2}
  Roles = {r1}
  Permissions = {p1}
  Granted <- MCGranted
  Offers <- MCOffers
  Requests = {q1, q2}
  MaxMembers = 3
  MaxInvites = 2
  MaxFounding = 2
  MaxMoves = 2
CONSTRAINT MCBound
SYMMETRY MCSymmetry
INVARIANTS MemTypeOK AccessIsInvited AcceptedMadeMember OneWayIn GivenIsKept
CHECK_DEADLOCK FALSE
