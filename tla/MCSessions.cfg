SPECIFICATION SessSpec
CONSTANTS
  a1 = a1  a2 = a2  m1 = m1  m2 = m2  q1 = q1  q2 = q2
  NoAccount = NoAccount  NoMail = NoMail  NoCode = NoCode  NoSession = NoSession
  Accounts = {a1, a2}
  Mails = {m1, m2}
  Codes = {c1, c2}
  Sessions = {t1, t2}
  Callers = {q1, q2}
SYMMETRY MCSymmetry
INVARIANTS SentCanRefresh CodesOpenTheirs
PROPERTY LoginSpec
CHECK_DEADLOCK FALSE
