SPECIFICATION MCSpec
CONSTANTS
  o1 = o1  o2 = o2  s1 = s1  s2 = s2  s3 = s3  g1 = g1  g2 = g2
  i1 = i1  i2 = i2  r1 = r1  r2 = r2  q1 = q1  q2 = q2
  NoUser = NoUser  NoInstall = NoInstall  NoEntry = NoEntry  NoRepo = NoRepo
  Orgs = {o1, o2}
  Slugs = {s1, s2, s3}
  GithubUsers = {g1, g2}
  Installs = {i1, i2}
  ReposOf <- MCReposOf
  Requests = {q1, q2}
  Apps = {"slack", "discord", "notion", "jira", "figma"}
  Guilds = {1, 2}
  Things = {1}
  Askers = {q1, q2}
  MaxGrants = 3
CONSTRAINT MCBound
SYMMETRY MCSymmetry
INVARIANTS IntTypeOK AccountIsVouched StatusIsFresh LinkedIsInstalled DefaultIsReadable ConfigIsKept
CHECK_DEADLOCK FALSE
