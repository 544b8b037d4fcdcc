------------------------------ MODULE Sessions ------------------------------
(***************************************************************************)
(* Accounts, one-time codes and sessions: signUp, signIn, requestOtp,      *)
(* verifyOtp, refreshToken and logout (src/modules/auth/auth.service.ts),  *)
(* and updateUserDetails and deleteUser (src/modules/users/users.service.ts). *)
(*                                                                         *)
(* A session is made in two statements: the row, with an empty hash, and,  *)
(* since the refresh token names the row, its hash.  Codes are distinct,   *)
(* as they are in production, and a phone number is an address like any    *)
(* other.  A password that does not match ends its request and is left     *)
(* out, and so are the fields of an account that nothing here reads.       *)
(***************************************************************************)
CONSTANTS
  Accounts,   \* User rows that can be made
  Mails,      \* addresses
  Codes,      \* one-time codes that can be issued
  Sessions,   \* Session rows that can be made
  Callers,    \* requests that can be in progress at once
  NoAccount, NoMail, NoCode, NoSession

ASSUME SessionsAssumption ==
  /\ NoAccount \notin Accounts /\ NoMail \notin Mails
  /\ NoCode \notin Codes /\ NoSession \notin Sessions

VARIABLES
  mail,       \* the address of each account; NoMail when there is no such row
  code,       \* the code of each account, and
  valid,      \* accounts whose code was issued in the last five minutes
  hash,       \* of each session: "none" before it is made, "empty", "set", "deleted"
  owner,      \* its account
  expired,    \* sessions made seven days ago
  asking,     \* where each request is
  made,       \* accounts ever made (history)
  issued,     \* the account each code was issued for (history)
  by,         \* the code each session was opened with (history)
  sent,      \* sessions whose refresh token was sent (history)
  ended,      \* sessions logged out (history)
  manner      \* "alone": one request at a time.  "together": any number of them

past == <<made, issued, by, sent, ended>>
rest == <<past, manner>>
sessVars == <<mail, code, valid, hash, owner, expired, asking, rest>>

Free == [op |-> "none"]

SessInit ==
  /\ mail = [a \in Accounts |-> NoMail] /\ code = [a \in Accounts |-> NoCode] /\ valid = {}
  /\ hash = [s \in Sessions |-> "none"] /\ owner = [s \in Sessions |-> NoAccount]
  /\ expired = {}
  /\ asking = [q \in Callers |-> Free]
  /\ made = {} /\ issued = [c \in Codes |-> NoAccount]
  /\ by = [s \in Sessions |-> NoCode] /\ sent = {} /\ ended = {}
  /\ manner \in {"alone", "together"}

There(a) == mail[a] # NoMail
At(m) == {a \in Accounts : mail[a] = m}
NewCode == {c \in Codes : issued[c] = NoAccount}

Become(q, next) == asking' = [asking EXCEPT ![q] = next]
Arrive(q, next) ==
  /\ asking[q] = Free /\ (manner = "alone" => \A p \in Callers : asking[p] = Free)
  /\ Become(q, next)
  /\ UNCHANGED <<mail, code, valid, hash, owner, expired, rest>>
Read == UNCHANGED <<mail, code, valid, hash, owner, expired, rest>>

\* A call or a statement fails, or the process dies.
Leave(q) == asking[q] # Free /\ Become(q, Free) /\ Read

CodeExpires(a) ==
  /\ a \in valid
  /\ valid' = valid \ {a}
  /\ UNCHANGED <<mail, code, hash, owner, expired, asking, rest>>

SessionExpires(s) ==
  /\ hash[s] = "set"
  /\ expired' = expired \cup {s}
  /\ UNCHANGED <<mail, code, valid, hash, owner, asking, rest>>

-----------------------------------------------------------------------------
\* Codes, and what they and passwords open.

\* 'User already exists !!'.
SignUp(q, m) == At(m) = {} /\ Arrive(q, [op |-> "sign up", mail |-> m])

\* The address is unique.
InsertAccount(q) ==
  /\ asking[q].op = "sign up"
  /\ LET m == asking[q].mail
     IN \/ /\ At(m) = {}
           /\ \E a \in Accounts \ made, c \in NewCode :
                /\ mail' = [mail EXCEPT ![a] = m] /\ code' = [code EXCEPT ![a] = c]
                /\ valid' = valid \cup {a}
                /\ made' = made \cup {a} /\ issued' = [issued EXCEPT ![c] = a]
                /\ Become(q, [op |-> "open", account |-> a, code |-> NoCode])
           /\ UNCHANGED <<hash, owner, expired, by, sent, ended, manner>>
        \/ At(m) # {} /\ Become(q, Free) /\ Read

SignIn(q, a) ==
  There(a) /\ Arrive(q, [op |-> "open", account |-> a, code |-> NoCode])

RequestOtp(q, a) ==
  There(a) /\ Arrive(q, [op |-> "code", account |-> a])

WriteCode(q) ==
  /\ asking[q].op = "code"
  /\ LET a == asking[q].account
     IN \/ /\ There(a)
           /\ \E c \in NewCode : /\ code' = [code EXCEPT ![a] = c]
                                 /\ issued' = [issued EXCEPT ![c] = a]
           /\ valid' = valid \cup {a}
           /\ UNCHANGED <<mail, hash, owner, expired, made, by, sent, ended, manner>>
        \/ ~There(a) /\ Read
  /\ Become(q, Free)

\* 'Invalid OTP or expired'.  Found by its code and its address.
VerifyOtp(q, a, c) ==
  /\ There(a) /\ code[a] = c /\ a \in valid
  /\ Arrive(q, [op |-> "verified", account |-> a, code |-> c])

\* A mutant of ClearCode: the code stays.
KeepCode(q) ==
  /\ asking[q].op = "verified"
  /\ Become(q, IF There(asking[q].account) THEN [asking[q] EXCEPT !.op = "open"] ELSE Free)
  /\ Read

\* Whatever code the account has by now.
ClearCode(q) ==
  /\ asking[q].op = "verified"
  /\ LET a == asking[q].account
     IN \/ /\ There(a)
           /\ code' = [code EXCEPT ![a] = NoCode] /\ valid' = valid \ {a}
           /\ Become(q, [asking[q] EXCEPT !.op = "open"])
           /\ UNCHANGED <<mail, hash, owner, expired, rest>>
        \/ ~There(a) /\ Become(q, Free) /\ Read

-----------------------------------------------------------------------------
\* Sessions.

\* session.create; the account must be there (foreign key).
CreateSession(q) ==
  /\ asking[q].op = "open"
  /\ LET a == asking[q].account
     IN \/ /\ There(a)
           /\ \E s \in Sessions :
                /\ hash[s] = "none"
                /\ hash' = [hash EXCEPT ![s] = "empty"] /\ owner' = [owner EXCEPT ![s] = a]
                /\ by' = [by EXCEPT ![s] = asking[q].code]
                /\ Become(q, [op |-> "hash", session |-> s])
           /\ UNCHANGED <<mail, code, valid, expired, made, issued, sent, ended, manner>>
        \/ ~There(a) /\ Become(q, Free) /\ Read

\* session.update, and the tokens are sent.
KeepHash(q) ==
  /\ asking[q].op = "hash"
  /\ LET s == asking[q].session
     IN \/ /\ hash[s] = "empty"
           /\ hash' = [hash EXCEPT ![s] = "set"] /\ sent' = sent \cup {s}
           /\ UNCHANGED <<mail, code, valid, owner, expired, made, issued, by, ended, manner>>
        \/ hash[s] # "empty" /\ Read
  /\ Become(q, Free)

\* With a token that was sent: 'Invalid refresh token!!', or on to its session.
RefreshToken(q, s) ==
  /\ s \in sent /\ There(owner[s])
  /\ Arrive(q, [op |-> "session", session |-> s])

\* A mutant of CheckSession: its time is not looked at.
CheckRow(q) ==
  /\ asking[q].op = "session"
  /\ LET s == asking[q].session
     IN Become(q, IF hash[s] = "deleted" THEN Free ELSE [op |-> "issue", session |-> s])
  /\ Read

\* 'Session expired'; the token is compared with a hash that has been set.
CheckSession(q) ==
  /\ asking[q].op = "session"
  /\ LET s == asking[q].session
     IN Become(q, CASE hash[s] = "deleted" -> Free
                    [] hash[s] # "deleted" /\ s \in expired -> [op |-> "drop", session |-> s]
                    [] OTHER -> [op |-> "issue", session |-> s])
  /\ Read

\* session.delete; it fails if the row is gone.
DropSession(q) ==
  /\ asking[q].op = "drop"
  /\ hash' = [hash EXCEPT ![asking[q].session] = "deleted"]
  /\ Become(q, Free)
  /\ UNCHANGED <<mail, code, valid, owner, expired, rest>>

\* The access token: it names the account, and no session.
Issue(q) ==
  /\ asking[q].op = "issue"
  /\ Become(q, Free)
  /\ Read

\* The guard finds the account of the access token.  The two cookies need not be of
\* one sign-in.
Logout(q, a, s) ==
  /\ There(a) /\ s \in sent
  /\ Arrive(q, [op |-> "log out", account |-> a, session |-> s])

\* A mutant of DeleteSession: the sessions of the account.
DeleteSessions(q) ==
  /\ asking[q].op = "log out"
  /\ hash' = [s \in Sessions |-> IF owner[s] = asking[q].account THEN "deleted" ELSE hash[s]]
  /\ ended' = ended \cup {asking[q].session}
  /\ Become(q, Free)
  /\ UNCHANGED <<mail, code, valid, owner, expired, made, issued, by, sent, manner>>

\* session.deleteMany: only with the account that owns it.
DeleteSession(q) ==
  /\ asking[q].op = "log out"
  /\ LET s == asking[q].session
     IN \/ /\ owner[s] = asking[q].account
           /\ hash' = [hash EXCEPT ![s] = "deleted"] /\ ended' = ended \cup {s}
           /\ UNCHANGED <<mail, code, valid, owner, expired, made, issued, by, sent, manner>>
        \/ owner[s] # asking[q].account /\ Read
  /\ Become(q, Free)

-----------------------------------------------------------------------------
\* Accounts.

UpdateUserDetails(q, a, m) ==
  There(a) /\ Arrive(q, [op |-> "move", account |-> a, mail |-> m])

\* The address is unique, and the code stays.
WriteMail(q) ==
  /\ asking[q].op = "move"
  /\ LET a == asking[q].account
         m == asking[q].mail
     IN \/ /\ There(a) /\ At(m) \subseteq {a}
           /\ mail' = [mail EXCEPT ![a] = m]
           /\ UNCHANGED <<code, valid, hash, owner, expired, rest>>
        \/ ~(There(a) /\ At(m) \subseteq {a}) /\ Read
  /\ Become(q, Free)

DeleteUser(q, a) == There(a) /\ Arrive(q, [op |-> "delete", account |-> a])

\* With its sessions; it fails if the row is gone, and for the owner of an organization.
DeleteAccount(q) ==
  /\ asking[q].op = "delete"
  /\ LET a == asking[q].account
     IN /\ mail' = [mail EXCEPT ![a] = NoMail]
        /\ code' = [code EXCEPT ![a] = NoCode] /\ valid' = valid \ {a}
        /\ hash' = [s \in Sessions |-> IF owner[s] = a THEN "deleted" ELSE hash[s]]
  /\ Become(q, Free)
  /\ UNCHANGED <<owner, expired, rest>>

-----------------------------------------------------------------------------

Answer(q) ==
  \/ InsertAccount(q) \/ WriteCode(q) \/ ClearCode(q) \/ CreateSession(q) \/ KeepHash(q)
  \/ CheckSession(q) \/ DropSession(q) \/ Issue(q) \/ DeleteSession(q) \/ WriteMail(q)
  \/ DeleteAccount(q) \/ Leave(q)

Call(q) ==
  \/ \E m \in Mails : SignUp(q, m) \/ \E a \in Accounts : UpdateUserDetails(q, a, m)
  \/ \E a \in Accounts :
       \/ SignIn(q, a) \/ RequestOtp(q, a) \/ DeleteUser(q, a)
       \/ \E c \in Codes : VerifyOtp(q, a, c)
       \/ \E s \in Sessions : Logout(q, a, s)
  \/ \E s \in Sessions : RefreshToken(q, s)

SessNext ==
  \/ \E a \in Accounts : CodeExpires(a)
  \/ \E s \in Sessions : SessionExpires(s)
  \/ \E q \in Callers : Call(q) \/ Answer(q)

SessSpec == SessInit /\ [][SessNext]_sessVars

-----------------------------------------------------------------------------
\* Properties.

AskingType ==
  [op : {"none"}] \cup [op : {"sign up"}, mail : Mails]
  \cup [op : {"open", "verified"}, account : Accounts, code : Codes \cup {NoCode}]
  \cup [op : {"code", "delete"}, account : Accounts]
  \cup [op : {"hash", "session", "drop", "issue"}, session : Sessions]
  \cup [op : {"log out"}, account : Accounts, session : Sessions]
  \cup [op : {"move"}, account : Accounts, mail : Mails]

\* An address has one account, and a session is presented, and has its hash, exactly
\* when its token was sent.
SessTypeOK ==
  /\ mail \in [Accounts -> Mails \cup {NoMail}]
  /\ \A a, b \in Accounts : mail[a] = mail[b] /\ There(a) => a = b
  /\ code \in [Accounts -> Codes \cup {NoCode}] /\ valid \subseteq Accounts
  /\ hash \in [Sessions -> {"none", "empty", "set", "deleted"}]
  /\ owner \in [Sessions -> Accounts \cup {NoAccount}]
  /\ expired \subseteq Sessions /\ sent \subseteq Sessions /\ ended \subseteq Sessions
  /\ asking \in [Callers -> AskingType]
  /\ made \subseteq Accounts /\ issued \in [Codes -> Accounts \cup {NoAccount}]
  /\ by \in [Sessions -> Codes \cup {NoCode}]
  /\ \A s \in sent : hash[s] \in {"set", "deleted"}
  /\ \A s \in Sessions : hash[s] = "set" => s \in sent
  /\ \A q \in Callers : asking[q].op \in {"session", "drop", "issue", "log out"}
                          => asking[q].session \in sent

\* What the sessions promise, whatever requests overlap and fail: see Logins.
Life(s) ==
  CASE s \notin sent -> "none"
    [] s \in sent /\ hash[s] = "set" /\ s \notin expired -> "open"
    [] OTHER -> "ended"

Log == INSTANCE Logins WITH
  Requests <- Callers,
  life <- [s \in Sessions |-> Life(s)],
  admits <- [q \in Callers |-> IF asking[q].op = "issue" THEN asking[q].session
                               ELSE NoSession]

LoginSpec == Log!LogSpec

\* Who holds a refresh token can use it until its time is over, its own session is
\* logged out or its account deleted, whatever else happens to the sessions, codes and
\* addresses of the account.
SentCanRefresh ==
  \A s \in sent \ (expired \cup ended) : There(owner[s]) => hash[s] = "set"

\* A code opens sessions only of the account it was issued for, also when that moves or
\* another account takes its address meanwhile; and no more than one, unless two
\* requests with it overlap.
CodesOpenTheirs ==
  \A c \in Codes :
    LET opened == {s \in Sessions : by[s] = c}
    IN /\ \A s \in opened : owner[s] = issued[c]
       /\ manner = "alone" => \A s, t \in opened : s = t

-----------------------------------------------------------------------------
\* What the code does not keep.

\* A one-time code opens one session, also when two requests present it at once: both
\* find the account before either clears the code.
CodesOpenOnce == \A s, t \in Sessions : by[s] = by[t] /\ by[s] # NoCode => s = t
=============================================================================
