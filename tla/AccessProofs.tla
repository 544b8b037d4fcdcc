---------------------------- MODULE AccessProofs ----------------------------
(***************************************************************************)
(* What is proved of who may come in: of the sessions, for any number of   *)
(* accounts, addresses, codes, sessions and requests, and of the members   *)
(* of an organization, for any number of people, roles, permissions and    *)
(* requests.  The two share no state, and their proofs no lemma.           *)
(*                                                                         *)
(* A request writes on the strength of what it read before.  So each       *)
(* inductive invariant says what a request at each place still knows: in   *)
(* any case, that the code it presents was issued for its account, and the *)
(* invite it accepts is addressed to who accepts it; and as long as        *)
(* requests do not overlap, that nobody else has that code any more, and   *)
(* that what was looked for and not found is still not there.              *)
(***************************************************************************)
EXTENDS Sessions, Membership, SequenceTheorems, FiniteSetTheorems, TLAPS

-----------------------------------------------------------------------------
\* Sessions.

\* The owner of a session is an account that was made, one with an address was made
\* too, and what has expired had been sent.
OwnersKnown ==
  /\ \A s \in Sessions : IF hash[s] = "none" THEN owner[s] = NoAccount ELSE owner[s] \in made
  /\ \A a \in Accounts : There(a) => a \in made
  /\ expired \subseteq sent
  /\ \A q \in Callers : asking[q].op = "drop" => asking[q].session \in expired

\* A code that is kept, presented or was used is one that was issued for that account.
CodesKnown ==
  /\ \A a \in Accounts : code[a] # NoCode => issued[code[a]] = a
  /\ \A q \in Callers : asking[q].op \in {"open", "verified"} /\ asking[q].code # NoCode
                          => issued[asking[q].code] = asking[q].account
  /\ \A s \in Sessions : by[s] # NoCode => issued[by[s]] = owner[s] /\ owner[s] \in Accounts

\* One request at a time: a code that was used, or is about to be, is nobody's code any
\* more, and is not presented again.
CodesSpent ==
  manner = "alone" =>
    /\ \A p, q \in Callers : asking[p] # Free /\ asking[q] # Free => p = q
    /\ \A s, t \in Sessions : by[s] = by[t] /\ by[s] # NoCode => s = t
    /\ \A s \in Sessions, a \in Accounts : by[s] # NoCode => code[a] # by[s]
    /\ \A s \in Sessions, q \in Callers :
         by[s] # NoCode /\ asking[q].op \in {"open", "verified"} => asking[q].code # by[s]
    /\ \A a \in Accounts, q \in Callers :
         asking[q].op = "open" /\ asking[q].code # NoCode => code[a] # asking[q].code

\* The inductive invariant.
SessIInv == SessTypeOK /\ OwnersKnown /\ SentCanRefresh /\ CodesKnown /\ CodesSpent

\* A step that moves one request on, and writes nothing, keeps it.
LEMMA BecomeKeeps ==
  ASSUME SessIInv, NEW q \in Callers, NEW next \in AskingType, Become(q, next), Read,
         next.op \in {"session", "drop", "issue", "log out"} => next.session \in sent,
         next.op = "drop" => next.session \in expired,
         next.op \in {"open", "verified"} /\ next.code # NoCode
           => issued[next.code] = next.account,
         manner = "alone" => asking[q] # Free \/ next = Free \/ \A p \in Callers : asking[p] = Free,
         manner = "alone" /\ next.op \in {"open", "verified"}
           => \A s \in Sessions : by[s] # NoCode => next.code # by[s],
         manner = "alone" /\ next.op = "open" /\ next.code # NoCode
           => \A a \in Accounts : code[a] # next.code
  PROVE  SessIInv'
<1>1. asking' = [asking EXCEPT ![q] = next] /\ asking \in [Callers -> AskingType]
  BY DEF Become, SessIInv, SessTypeOK
<1>2. UNCHANGED <<mail, code, valid, hash, owner, expired, made, issued, by, sent, ended, manner>>
  BY DEF Read, rest, past
<1>3. SessTypeOK'
  <2>1. (asking \in [Callers -> AskingType])'
    BY <1>1
  <2>2. \A p \in Callers : asking'[p] = IF p = q THEN next ELSE asking[p]
    BY <1>1
  <2> QED BY <1>2, <2>1, <2>2 DEF SessIInv, SessTypeOK, There
<1>4. OwnersKnown'
  BY <1>1, <1>2 DEF SessIInv, OwnersKnown, There
<1>5. SentCanRefresh'
  BY <1>2 DEF SessIInv, SentCanRefresh, There
<1>6. CodesKnown'
  BY <1>1, <1>2 DEF SessIInv, CodesKnown
<1>7. CodesSpent'
  <2> SUFFICES ASSUME manner = "alone" PROVE CodesSpent'
    BY <1>2 DEF CodesSpent
  <2>2. \A p \in Callers : asking'[p] = IF p = q THEN next ELSE asking[p]
    BY <1>1
  <2>3. (\A p, r \in Callers : asking[p] # Free /\ asking[r] # Free => p = r)'
    BY <1>1, <2>2 DEF SessIInv, CodesSpent, Free
  <2>4. (\A s \in Sessions, p \in Callers :
           by[s] # NoCode /\ asking[p].op \in {"open", "verified"} => asking[p].code # by[s])'
    BY <1>2, <2>2, ZenonT(60) DEF SessIInv, CodesSpent
  <2>5. (\A a \in Accounts, p \in Callers :
           asking[p].op = "open" /\ asking[p].code # NoCode => code[a] # asking[p].code)'
    <3> SUFFICES ASSUME NEW a \in Accounts, NEW p \in Callers,
                        asking'[p].op = "open", asking'[p].code # NoCode
                 PROVE  code[a] # asking'[p].code
      BY <1>2
    <3>1. CASE p = q
      <4>1. asking'[p] = next
        BY <2>2, <3>1
      <4>2. next.op = "open" /\ next.code # NoCode
        BY <4>1
      <4>3. \A b \in Accounts : code[b] # next.code
        BY <4>2
      <4> QED BY <4>1, <4>3
    <3>2. CASE p # q
      <4>1. asking'[p] = asking[p]
        BY <2>2, <3>2
      <4>2. \A b \in Accounts, r \in Callers :
              asking[r].op = "open" /\ asking[r].code # NoCode => code[b] # asking[r].code
        BY DEF SessIInv, CodesSpent
      <4> QED BY <4>1, <4>2
    <3> QED BY <3>1, <3>2
  <2>6. /\ (\A s, t \in Sessions : by[s] = by[t] /\ by[s] # NoCode => s = t)'
        /\ (\A s \in Sessions, a \in Accounts : by[s] # NoCode => code[a] # by[s])'
    BY <1>2 DEF SessIInv, CodesSpent
  <2> QED BY <2>3, <2>4, <2>5, <2>6 DEF CodesSpent
<1> QED BY <1>3, <1>4, <1>5, <1>6, <1>7 DEF SessIInv

\* So does a new request, and the check of a session.
LEMMA ArriveKeeps ==
  ASSUME SessIInv, NEW q \in Callers, NEW next \in AskingType, Arrive(q, next),
         next.op \in {"session", "drop", "issue", "log out"} => next.session \in sent,
         next.op # "drop",
         next.op \in {"open", "verified"} /\ next.code # NoCode
           => /\ next.op = "verified" /\ issued[next.code] = next.account
              /\ next.account \in Accounts /\ code[next.account] = next.code
  PROVE  SessIInv'
<1>1. Become(q, next) /\ Read
  BY DEF Arrive, Read
<1>2. manner = "alone" => \A p \in Callers : asking[p] = Free
  BY DEF Arrive
<1>3. manner = "alone" /\ next.op \in {"open", "verified"}
        => \A s \in Sessions : by[s] # NoCode => next.code # by[s]
  BY DEF SessIInv, CodesSpent
<1>4. manner = "alone" /\ next.op = "open" /\ next.code # NoCode
        => \A a \in Accounts : code[a] # next.code
  OBVIOUS
<1> QED BY <1>1, <1>2, <1>3, <1>4, BecomeKeeps

\* A request that arrives keeps it: nothing is written yet.
LEMMA CallsKeep ==
  ASSUME SessIInv, NEW q \in Callers, Call(q)
  PROVE  SessIInv'
<1>1. ASSUME NEW m \in Mails, SignUp(q, m) PROVE SessIInv'
  <2>1. [op |-> "sign up", mail |-> m] \in AskingType
    BY DEF AskingType
  <2> QED BY <1>1, <2>1, ArriveKeeps DEF SignUp
<1>2. ASSUME NEW m \in Mails, NEW a \in Accounts, UpdateUserDetails(q, a, m) PROVE SessIInv'
  <2>1. [op |-> "move", account |-> a, mail |-> m] \in AskingType
    BY DEF AskingType
  <2> QED BY <1>2, <2>1, ArriveKeeps DEF UpdateUserDetails
<1>3. ASSUME NEW a \in Accounts, SignIn(q, a) PROVE SessIInv'
  <2>1. [op |-> "open", account |-> a, code |-> NoCode] \in AskingType
    BY DEF AskingType
  <2> QED BY <1>3, <2>1, ArriveKeeps DEF SignIn
<1>4. ASSUME NEW a \in Accounts, RequestOtp(q, a) PROVE SessIInv'
  <2>1. [op |-> "code", account |-> a] \in AskingType
    BY DEF AskingType
  <2> QED BY <1>4, <2>1, ArriveKeeps DEF RequestOtp
<1>5. ASSUME NEW a \in Accounts, DeleteUser(q, a) PROVE SessIInv'
  <2>1. [op |-> "delete", account |-> a] \in AskingType
    BY DEF AskingType
  <2> QED BY <1>5, <2>1, ArriveKeeps DEF DeleteUser
<1>6. ASSUME NEW a \in Accounts, NEW c \in Codes, VerifyOtp(q, a, c) PROVE SessIInv'
  <2>1. [op |-> "verified", account |-> a, code |-> c] \in AskingType
    BY DEF AskingType
  <2>2. code[a] = c /\ issued[c] = a
    BY <1>6, SessionsAssumption DEF VerifyOtp, SessIInv, CodesKnown
  <2> QED BY <1>6, <2>1, <2>2, ArriveKeeps DEF VerifyOtp
<1>7. ASSUME NEW a \in Accounts, NEW s \in Sessions, Logout(q, a, s) PROVE SessIInv'
  <2>1. [op |-> "log out", account |-> a, session |-> s] \in AskingType
    BY DEF AskingType
  <2> QED BY <1>7, <2>1, ArriveKeeps DEF Logout
<1>8. ASSUME NEW s \in Sessions, RefreshToken(q, s) PROVE SessIInv'
  <2>1. [op |-> "session", session |-> s] \in AskingType
    BY DEF AskingType
  <2> QED BY <1>8, <2>1, ArriveKeeps DEF RefreshToken
<1> QED BY <1>1, <1>2, <1>3, <1>4, <1>5, <1>6, <1>7, <1>8 DEF Call

\* A step that reads and goes on, or gives up, keeps it.
LEMMA ReadsKeep ==
  ASSUME SessIInv, NEW q \in Callers, CheckSession(q) \/ Issue(q) \/ Leave(q)
  PROVE  SessIInv'
<1>1. Free \in AskingType /\ Free.op = "none"
  BY DEF Free, AskingType
<1>2. CASE Issue(q) \/ Leave(q)
  BY <1>1, <1>2, BecomeKeeps DEF Issue, Leave
<1>3. CASE CheckSession(q)
  <2> DEFINE s == asking[q].session
  <2>1. asking[q].op = "session" /\ Read
    BY <1>3 DEF CheckSession
  <2>2. s \in sent /\ s \in Sessions /\ asking[q] # Free
    BY <2>1, <1>1 DEF SessIInv, SessTypeOK
  <2>3. CASE hash[s] = "deleted"
    <3>1. Become(q, Free)
      BY <1>3, <2>3 DEF CheckSession
    <3> QED BY <1>1, <2>1, <3>1, BecomeKeeps
  <2>4. CASE hash[s] # "deleted" /\ s \in expired
    <3>1. Become(q, [op |-> "drop", session |-> s])
      BY <1>3, <2>4 DEF CheckSession
    <3>2. [op |-> "drop", session |-> s] \in AskingType
      BY <2>2 DEF AskingType
    <3> QED BY <2>1, <2>2, <2>4, <3>1, <3>2, BecomeKeeps
  <2>5. CASE hash[s] # "deleted" /\ s \notin expired
    <3>1. Become(q, [op |-> "issue", session |-> s])
      BY <1>3, <2>5 DEF CheckSession
    <3>2. [op |-> "issue", session |-> s] \in AskingType
      BY <2>2 DEF AskingType
    <3> QED BY <2>1, <2>2, <3>1, <3>2, BecomeKeeps
  <2> QED BY <2>3, <2>4, <2>5
<1> QED BY <1>2, <1>3

\* The steps that write, one by one.  Where a step finds that it must not write, it is
\* one that only reads.
LEMMA KeepHashKeeps ==
  ASSUME SessIInv, NEW q \in Callers, KeepHash(q)
  PROVE  SessIInv'
<1> DEFINE s == asking[q].session
<1>1. asking[q].op = "hash" /\ s \in Sessions /\ Free \in AskingType /\ Free.op = "none"
  BY DEF KeepHash, SessIInv, SessTypeOK, AskingType, Free
<1>2. CASE hash[s] # "empty" /\ Read
  BY <1>1, <1>2, ReadsKeep DEF KeepHash, Leave
<1>3. CASE /\ hash[s] = "empty"
           /\ hash' = [hash EXCEPT ![s] = "set"] /\ sent' = sent \cup {s}
           /\ UNCHANGED <<mail, code, valid, owner, expired, made, issued, by, ended, manner>>
  <2>1. asking' = [asking EXCEPT ![q] = Free] /\ asking \in [Callers -> AskingType]
    BY DEF KeepHash, Become, SessIInv, SessTypeOK
  <2>2. \A r \in Callers : asking'[r] = IF r = q THEN Free ELSE asking[r]
    BY <2>1
  <2>3. SessTypeOK'
    <3>1. asking' \in [Callers -> AskingType]
      BY <1>1, <2>1
    <3> QED BY <1>1, <1>3, <2>2, <3>1 DEF SessIInv, SessTypeOK, There
  <2>4. OwnersKnown'
    BY <1>1, <1>3, <2>2 DEF SessIInv, SessTypeOK, OwnersKnown, There
  <2>5. SentCanRefresh'
    BY <1>1, <1>3, ZenonT(60) DEF SessIInv, SessTypeOK, SentCanRefresh, There
  <2>6. CodesKnown'
    BY <1>1, <1>3, <2>2 DEF SessIInv, CodesKnown
  <2>7. CodesSpent'
    BY <1>1, <1>3, <2>2 DEF SessIInv, CodesSpent
  <2> QED BY <2>3, <2>4, <2>5, <2>6, <2>7 DEF SessIInv
<1> QED BY <1>2, <1>3 DEF KeepHash

\* Codes stay spent when a request ends and codes are, at most, cleared.
LEMMA SpentStays ==
  ASSUME SessIInv, NEW q \in Callers,
         \A r \in Callers : asking'[r] = IF r = q THEN Free ELSE asking[r],
         \A a \in Accounts : code'[a] \in {code[a], NoCode},
         by' = by, manner' = manner
  PROVE  CodesSpent'
<1> SUFFICES ASSUME manner = "alone" PROVE CodesSpent'
  BY DEF CodesSpent
<1>1. Free.op = "none"
  BY DEF Free
<1>2. (\A p, r \in Callers : asking[p] # Free /\ asking[r] # Free => p = r)'
  BY DEF SessIInv, CodesSpent
<1>3. (\A t, s \in Sessions : by[s] = by[t] /\ by[s] # NoCode => s = t)'
  BY DEF SessIInv, CodesSpent
<1>4. (\A s \in Sessions, a \in Accounts : by[s] # NoCode => code[a] # by[s])'
  BY DEF SessIInv, CodesSpent
<1>5. (\A s \in Sessions, p \in Callers :
         by[s] # NoCode /\ asking[p].op \in {"open", "verified"} => asking[p].code # by[s])'
  BY <1>1 DEF SessIInv, CodesSpent
<1>6. (\A a \in Accounts, p \in Callers :
         asking[p].op = "open" /\ asking[p].code # NoCode => code[a] # asking[p].code)'
  <2>1. \A a \in Accounts, p \in Callers :
          asking[p].op = "open" /\ asking[p].code # NoCode => code[a] # asking[p].code
    BY DEF SessIInv, CodesSpent
  <2> QED BY <1>1, <2>1
<1> QED BY <1>2, <1>3, <1>4, <1>5, <1>6 DEF CodesSpent

\* An expired session is deleted: its owner could not use it any more.
LEMMA DropSessionKeeps ==
  ASSUME SessIInv, NEW q \in Callers, DropSession(q)
  PROVE  SessIInv'
<1> DEFINE s == asking[q].session
<1>1. asking[q].op = "drop" /\ Free \in AskingType /\ Free.op = "none" /\ s \in Sessions /\ s \in expired
  BY DEF DropSession, SessIInv, SessTypeOK, OwnersKnown, AskingType, Free
<1>3. CASE /\ hash' = [hash EXCEPT ![s] = "deleted"]
           /\ UNCHANGED <<mail, code, valid, owner, expired, made, issued, by, sent, ended, manner>>
  <2>1. asking' = [asking EXCEPT ![q] = Free] /\ asking \in [Callers -> AskingType]
    BY DEF DropSession, Become, SessIInv, SessTypeOK
  <2>2. \A r \in Callers : asking'[r] = IF r = q THEN Free ELSE asking[r]
    BY <2>1
  <2>3. SessTypeOK'
    <3>1. asking' \in [Callers -> AskingType]
      BY <1>1, <2>1
    <3> QED BY <1>1, <1>3, <2>2, <3>1 DEF SessIInv, SessTypeOK, There
  <2>4. OwnersKnown'
    BY <1>1, <1>3, <2>2 DEF SessIInv, SessTypeOK, OwnersKnown, There
  <2>5. SentCanRefresh'
    BY <1>1, <1>3 DEF SessIInv, SessTypeOK, OwnersKnown, SentCanRefresh, There
  <2>6. CodesKnown'
    BY <1>1, <1>3, <2>2 DEF SessIInv, SessTypeOK, CodesKnown
  <2>7. CodesSpent'
    <3>1. \A b \in Accounts : code'[b] \in {code[b], NoCode}
      BY <1>3 DEF SessIInv, SessTypeOK
    <3> QED BY <1>3, <2>2, <3>1, SpentStays
  <2> QED BY <2>3, <2>4, <2>5, <2>6, <2>7 DEF SessIInv
<1> QED BY <1>3 DEF DropSession, rest, past

\* A logout deletes the session it names, and only with the account that owns it.
LEMMA DeleteSessionKeeps ==
  ASSUME SessIInv, NEW q \in Callers, DeleteSession(q)
  PROVE  SessIInv'
<1> DEFINE s == asking[q].session
<1>1. asking[q].op = "log out" /\ Free \in AskingType /\ Free.op = "none" /\ s \in Sessions
  BY DEF DeleteSession, SessIInv, SessTypeOK, OwnersKnown, AskingType, Free
<1>2. CASE owner[s] # asking[q].account /\ Read
  BY <1>1, <1>2, ReadsKeep DEF DeleteSession, Leave
<1>3. CASE /\ owner[s] = asking[q].account
           /\ hash' = [hash EXCEPT ![s] = "deleted"] /\ ended' = ended \cup {s}
           /\ UNCHANGED <<mail, code, valid, owner, expired, made, issued, by, sent, manner>>
  <2>1. asking' = [asking EXCEPT ![q] = Free] /\ asking \in [Callers -> AskingType]
    BY DEF DeleteSession, Become, SessIInv, SessTypeOK
  <2>2. \A r \in Callers : asking'[r] = IF r = q THEN Free ELSE asking[r]
    BY <2>1
  <2>3. SessTypeOK'
    <3>1. asking' \in [Callers -> AskingType]
      BY <1>1, <2>1
    <3> QED BY <1>1, <1>3, <2>2, <3>1 DEF SessIInv, SessTypeOK, There
  <2>4. OwnersKnown'
    BY <1>1, <1>3, <2>2 DEF SessIInv, SessTypeOK, OwnersKnown, There
  <2>5. SentCanRefresh'
    BY <1>1, <1>3 DEF SessIInv, SessTypeOK, OwnersKnown, SentCanRefresh, There
  <2>6. CodesKnown'
    BY <1>1, <1>3, <2>2 DEF SessIInv, SessTypeOK, CodesKnown
  <2>7. CodesSpent'
    <3>1. \A b \in Accounts : code'[b] \in {code[b], NoCode}
      BY <1>3 DEF SessIInv, SessTypeOK
    <3> QED BY <1>3, <2>2, <3>1, SpentStays
  <2> QED BY <2>3, <2>4, <2>5, <2>6, <2>7 DEF SessIInv
<1> QED BY <1>2, <1>3 DEF DeleteSession

\* An account that moves to a free address leaves each address with one account.
LEMMA WriteMailKeeps ==
  ASSUME SessIInv, NEW q \in Callers, WriteMail(q)
  PROVE  SessIInv'
<1> DEFINE a == asking[q].account
           m == asking[q].mail
<1>1. asking[q].op = "move" /\ Free \in AskingType /\ Free.op = "none" /\ a \in Accounts /\ m \in Mails
  BY DEF WriteMail, SessIInv, SessTypeOK, OwnersKnown, AskingType, Free
<1>2. CASE ~(There(a) /\ At(m) \subseteq {a}) /\ Read
  BY <1>1, <1>2, ReadsKeep DEF WriteMail, Leave
<1>3. CASE /\ There(a) /\ At(m) \subseteq {a}
           /\ mail' = [mail EXCEPT ![a] = m]
           /\ UNCHANGED <<code, valid, hash, owner, expired, made, issued, by, sent, ended, manner>>
  <2>1. asking' = [asking EXCEPT ![q] = Free] /\ asking \in [Callers -> AskingType]
    BY DEF WriteMail, Become, SessIInv, SessTypeOK
  <2>2. \A r \in Callers : asking'[r] = IF r = q THEN Free ELSE asking[r]
    BY <2>1
  <2>3. SessTypeOK'
    <3>1. asking' \in [Callers -> AskingType]
      BY <1>1, <2>1
    <3> QED BY <1>1, <1>3, <2>2, <3>1, SessionsAssumption DEF SessIInv, SessTypeOK, There, At
  <2>4. OwnersKnown'
    BY <1>1, <1>3, <2>2, SessionsAssumption DEF SessIInv, SessTypeOK, OwnersKnown, There, At
  <2>5. SentCanRefresh'
    BY <1>1, <1>3, SessionsAssumption DEF SessIInv, SessTypeOK, OwnersKnown, SentCanRefresh, There, At
  <2>6. CodesKnown'
    BY <1>1, <1>3, <2>2, SessionsAssumption DEF SessIInv, SessTypeOK, CodesKnown, At
  <2>7. CodesSpent'
    <3>1. \A b \in Accounts : code'[b] \in {code[b], NoCode}
      BY <1>3 DEF SessIInv, SessTypeOK
    <3> QED BY <1>3, <2>2, <3>1, SpentStays
  <2> QED BY <2>3, <2>4, <2>5, <2>6, <2>7 DEF SessIInv
<1> QED BY <1>2, <1>3 DEF WriteMail, rest, past

\* A deletion takes the sessions of the account with it, and nobody else loses one.
LEMMA DeleteAccountKeeps ==
  ASSUME SessIInv, NEW q \in Callers, DeleteAccount(q)
  PROVE  SessIInv'
<1> DEFINE a == asking[q].account
<1>1. asking[q].op = "delete" /\ Free \in AskingType /\ Free.op = "none" /\ a \in Accounts
  BY DEF DeleteAccount, SessIInv, SessTypeOK, OwnersKnown, AskingType, Free
<1>3. CASE /\ mail' = [mail EXCEPT ![a] = NoMail]
           /\ code' = [code EXCEPT ![a] = NoCode] /\ valid' = valid \ {a}
           /\ hash' = [s \in Sessions |-> IF owner[s] = a THEN "deleted" ELSE hash[s]]
           /\ UNCHANGED <<owner, expired, made, issued, by, sent, ended, manner>>
  <2>1. asking' = [asking EXCEPT ![q] = Free] /\ asking \in [Callers -> AskingType]
    BY DEF DeleteAccount, Become, SessIInv, SessTypeOK
  <2>2. \A r \in Callers : asking'[r] = IF r = q THEN Free ELSE asking[r]
    BY <2>1
  <2>3. SessTypeOK'
    <3>1. asking' \in [Callers -> AskingType]
      BY <1>1, <2>1
    <3> QED BY <1>1, <1>3, <2>2, <3>1, SessionsAssumption DEF SessIInv, SessTypeOK, There
  <2>4. OwnersKnown'
    BY <1>1, <1>3, <2>2, SessionsAssumption DEF SessIInv, SessTypeOK, OwnersKnown, There
  <2>5. SentCanRefresh'
    BY <1>1, <1>3, SessionsAssumption, ZenonT(60) DEF SessIInv, SessTypeOK, OwnersKnown, SentCanRefresh, There
  <2>6. CodesKnown'
    BY <1>1, <1>3, <2>2, SessionsAssumption DEF SessIInv, SessTypeOK, CodesKnown
  <2>7. CodesSpent'
    <3>1. \A b \in Accounts : code'[b] \in {code[b], NoCode}
      BY <1>3 DEF SessIInv, SessTypeOK
    <3> QED BY <1>3, <2>2, <3>1, SpentStays
  <2> QED BY <2>3, <2>4, <2>5, <2>6, <2>7 DEF SessIInv
<1> QED BY <1>3 DEF DeleteAccount, rest, past

\* Time changes neither an account nor a request.
LEMMA TimeKeeps ==
  ASSUME SessIInv, (\E a \in Accounts : CodeExpires(a)) \/ \E s \in Sessions : SessionExpires(s)
  PROVE  SessIInv'
<1>1. ASSUME NEW a \in Accounts, CodeExpires(a) PROVE SessIInv'
  <2>1. UNCHANGED <<mail, code, hash, owner, expired, asking, made, issued, by, sent, ended, manner>>
    BY <1>1 DEF CodeExpires, rest, past
  <2>2. SessTypeOK'
    BY <1>1, <2>1 DEF CodeExpires, SessIInv, SessTypeOK, There
  <2> QED BY <2>1, <2>2 DEF SessIInv, OwnersKnown, SentCanRefresh, CodesKnown, CodesSpent, There
<1>2. ASSUME NEW s \in Sessions, SessionExpires(s) PROVE SessIInv'
  <2>1. UNCHANGED <<mail, code, valid, hash, owner, asking, made, issued, by, sent, ended, manner>>
    BY <1>2 DEF SessionExpires, rest, past
  <2>2. s \in sent /\ expired' = expired \cup {s}
    BY <1>2 DEF SessionExpires, SessIInv, SessTypeOK
  <2>3. SessTypeOK'
    BY <2>1, <2>2 DEF SessIInv, SessTypeOK, There
  <2> QED BY <2>1, <2>2, <2>3 DEF SessIInv, OwnersKnown, SentCanRefresh, CodesKnown, CodesSpent, There
<1> QED BY <1>1, <1>2

\* When requests come one at a time the others are free, so that only what becomes of
\* this one, and of the codes, has to be looked at.
LEMMA SpentMoves ==
  ASSUME SessIInv, NEW q \in Callers, NEW next, asking[q] # Free,
         \A r \in Callers : asking'[r] = IF r = q THEN next ELSE asking[r],
         manner' = manner,
         manner = "alone" =>
           /\ \A s \in Sessions : by'[s] # NoCode /\ next.op \in {"open", "verified"}
                                 => next.code # by'[s]
           /\ \A a \in Accounts : next.op = "open" /\ next.code # NoCode
                                 => code'[a] # next.code
           /\ \A s, t \in Sessions : by'[s] = by'[t] /\ by'[s] # NoCode => s = t
           /\ \A s \in Sessions, a \in Accounts : by'[s] # NoCode => code'[a] # by'[s]
  PROVE  CodesSpent'
<1> SUFFICES ASSUME manner = "alone" PROVE CodesSpent'
  BY DEF CodesSpent
<1>1. \A r \in Callers : r # q => asking'[r] = Free
  BY DEF SessIInv, CodesSpent
<1>2. Free.op = "none" /\ asking'[q] = next
  BY DEF Free
<1>3. (\A p, r \in Callers : asking[p] # Free /\ asking[r] # Free => p = r)'
  BY <1>1 DEF Free
<1>4. (\A s \in Sessions, p \in Callers :
         by[s] # NoCode /\ asking[p].op \in {"open", "verified"} => asking[p].code # by[s])'
  BY <1>1, <1>2
<1>5. (\A a \in Accounts, p \in Callers :
         asking[p].op = "open" /\ asking[p].code # NoCode => code[a] # asking[p].code)'
  <2> SUFFICES ASSUME NEW a \in Accounts, NEW p \in Callers,
                      asking'[p].op = "open", asking'[p].code # NoCode
               PROVE  code'[a] # asking'[p].code
    OBVIOUS
  <2>1. asking'[p] = next
    BY <1>1, <1>2
  <2>2. next.op = "open" /\ next.code # NoCode
    BY <2>1
  <2>3. \A b \in Accounts : code'[b] # next.code
    BY <2>2
  <2> QED BY <2>1, <2>3
<1> QED BY <1>3, <1>4, <1>5 DEF CodesSpent

\* A code that was not issued is nobody's, is not presented and opened nothing.
LEMMA FreshIsUnused ==
  ASSUME SessIInv, NEW c \in Codes, issued[c] = NoAccount
  PROVE  /\ c # NoCode
         /\ \A a \in Accounts : code[a] # c
         /\ \A s \in Sessions : by[s] # c
         /\ \A q \in Callers : asking[q].op \in {"open", "verified"} => asking[q].code # c
<1>1. c # NoCode
  BY SessionsAssumption
<1>2. \A a \in Accounts : code[a] # c
  BY <1>1, SessionsAssumption DEF SessIInv, CodesKnown
<1>3. \A s \in Sessions : by[s] # c
  BY <1>1, SessionsAssumption DEF SessIInv, CodesKnown
<1>4. ASSUME NEW q \in Callers, asking[q].op \in {"open", "verified"}
      PROVE  asking[q].code # c
  <2>1. asking[q].account \in Accounts
    BY <1>4 DEF SessIInv, SessTypeOK, AskingType
  <2> QED BY <1>1, <1>4, <2>1, SessionsAssumption DEF SessIInv, CodesKnown
<1> QED BY <1>1, <1>2, <1>3, <1>4

\* A code that is written was never issued: it has opened nothing yet.
LEMMA WriteCodeKeeps ==
  ASSUME SessIInv, NEW q \in Callers, WriteCode(q)
  PROVE  SessIInv'
<1> DEFINE a == asking[q].account
<1>1. asking[q].op = "code" /\ Free \in AskingType /\ Free.op = "none" /\ a \in Accounts
  BY DEF WriteCode, SessIInv, SessTypeOK, AskingType, Free
<1>2. CASE ~There(a) /\ Read
  BY <1>1, <1>2, ReadsKeep DEF WriteCode, Leave
<1>3. ASSUME NEW c \in NewCode,
             There(a), code' = [code EXCEPT ![a] = c], issued' = [issued EXCEPT ![c] = a],
             valid' = valid \cup {a},
             UNCHANGED <<mail, hash, owner, expired, made, by, sent, ended, manner>>
      PROVE  SessIInv'
  <2>1. asking' = [asking EXCEPT ![q] = Free] /\ asking \in [Callers -> AskingType]
    BY DEF WriteCode, Become, SessIInv, SessTypeOK
  <2>2. \A r \in Callers : asking'[r] = IF r = q THEN Free ELSE asking[r]
    BY <2>1
  <2>3. c \in Codes /\ issued[c] = NoAccount /\ c # NoCode
    BY SessionsAssumption DEF NewCode
  <2>4. SessTypeOK'
    <3>1. asking' \in [Callers -> AskingType]
      BY <1>1, <2>1
    <3> QED BY <1>1, <1>3, <2>2, <2>3, <3>1 DEF SessIInv, SessTypeOK, There
  <2>5. OwnersKnown'
    BY <1>1, <1>3, <2>2 DEF SessIInv, SessTypeOK, OwnersKnown, There
  <2>6. SentCanRefresh'
    BY <1>1, <1>3 DEF SessIInv, SentCanRefresh, There
  <2>7. CodesKnown'
    <3>1. (\A b \in Accounts : code[b] # NoCode => issued[code[b]] = b)'
      <4>1. \A b \in Accounts : code'[b] = (IF b = a THEN c ELSE code[b]) /\ code[b] # c
        BY <1>3, <2>3, FreshIsUnused DEF SessIInv, SessTypeOK
      <4>2. \A d \in Codes : issued'[d] = IF d = c THEN a ELSE issued[d]
        BY <1>3 DEF SessIInv, SessTypeOK
      <4>3. \A b \in Accounts : code[b] \in Codes \cup {NoCode}
        BY DEF SessIInv, SessTypeOK
      <4> QED BY <2>3, <4>1, <4>2, <4>3 DEF SessIInv, CodesKnown
    <3>2. (\A r \in Callers : asking[r].op \in {"open", "verified"} /\ asking[r].code # NoCode
                             => issued[asking[r].code] = asking[r].account)'
      <4> SUFFICES ASSUME NEW r \in Callers, asking'[r].op \in {"open", "verified"},
                          asking'[r].code # NoCode
                   PROVE  issued'[asking'[r].code] = asking'[r].account
        OBVIOUS
      <4>1. CASE r = q
        BY <1>1, <1>3, <2>2, <2>3, FreshIsUnused, <4>1 DEF SessIInv, CodesKnown
      <4>2. CASE r # q
        <5>1. /\ asking'[r] = asking[r] /\ asking[r].op \in {"open", "verified"}
              /\ asking[r].code # NoCode /\ issued[asking[r].code] = asking[r].account
          BY <2>2, <4>2 DEF SessIInv, CodesKnown
        <5>2. asking[r].code \in Codes
          BY <5>1 DEF SessIInv, SessTypeOK, AskingType
        <5>3. issued'[asking[r].code] = issued[asking[r].code]
          BY <1>1, <1>3, <2>2, <2>3, FreshIsUnused, <4>2, <5>1, <5>2 DEF SessIInv, SessTypeOK
        <5> QED BY <5>1, <5>3
      <4> QED BY <4>1, <4>2
    <3>3. (\A t \in Sessions : by[t] # NoCode => issued[by[t]] = owner[t] /\ owner[t] \in Accounts)'
      BY <1>3, <2>3, FreshIsUnused, ZenonT(60) DEF SessIInv, SessTypeOK, CodesKnown
    <3> QED BY <3>1, <3>2, <3>3 DEF CodesKnown
  <2>8. CodesSpent'
    <3>1. asking[q] # Free /\ manner' = manner
      BY <1>1, <1>3
    <3> SUFFICES ASSUME manner = "alone"
                 PROVE  /\ \A t \in Sessions : by'[t] # NoCode /\ Free.op \in {"open", "verified"}
                                              => Free.code # by'[t]
                        /\ \A b \in Accounts : Free.op = "open" /\ Free.code # NoCode
                                              => code'[b] # Free.code
                        /\ \A t, u \in Sessions : by'[t] = by'[u] /\ by'[t] # NoCode => t = u
                        /\ \A t \in Sessions, b \in Accounts :
                             by'[t] # NoCode => code'[b] # by'[t]
      BY <2>2, <3>1, SpentMoves
    <3>2. \A t \in Sessions : by'[t] # NoCode /\ Free.op \in {"open", "verified"}
                            => Free.code # by'[t]
      BY <1>1
    <3>3. \A b \in Accounts : Free.op = "open" /\ Free.code # NoCode => code'[b] # Free.code
      BY <1>1
    <3>4. \A t, u \in Sessions : by'[t] = by'[u] /\ by'[t] # NoCode => t = u
      BY <1>3 DEF SessIInv, SessTypeOK, CodesSpent
    <3>5. \A t \in Sessions, b \in Accounts : by'[t] # NoCode => code'[b] # by'[t]
      BY <1>3, <2>3, FreshIsUnused DEF SessIInv, SessTypeOK, CodesSpent
    <3> QED BY <3>2, <3>3, <3>4, <3>5
  <2> QED BY <2>4, <2>5, <2>6, <2>7, <2>8 DEF SessIInv
<1> QED BY <1>2, <1>3 DEF WriteCode

\* A code that is cleared was issued for the account whose session is opened next.
LEMMA ClearCodeKeeps ==
  ASSUME SessIInv, NEW q \in Callers, ClearCode(q)
  PROVE  SessIInv'
<1> DEFINE a == asking[q].account
           next == [asking[q] EXCEPT !.op = "open"]
<1>1. /\ asking[q].op = "verified" /\ Free \in AskingType /\ Free.op = "none"
      /\ a \in Accounts /\ asking[q].code \in Codes \cup {NoCode}
  BY DEF ClearCode, SessIInv, SessTypeOK, AskingType, Free
<1>2. CASE ~There(a) /\ Become(q, Free) /\ Read
  BY <1>1, <1>2, ReadsKeep DEF Leave
<1>3. CASE /\ There(a) /\ code' = [code EXCEPT ![a] = NoCode] /\ valid' = valid \ {a}
           /\ Become(q, next)
           /\ UNCHANGED <<mail, hash, owner, expired, made, issued, by, sent, ended, manner>>
  <2>1. asking' = [asking EXCEPT ![q] = next] /\ asking \in [Callers -> AskingType]
    BY <1>3 DEF Become, SessIInv, SessTypeOK
  <2>2. \A r \in Callers : asking'[r] = IF r = q THEN next ELSE asking[r]
    BY <2>1
  <2>3. /\ next \in AskingType /\ next.op = "open" /\ next.account = a
        /\ next.code = asking[q].code
    BY <1>1, <2>1 DEF AskingType
  <2>4. SessTypeOK'
    <3>1. asking' \in [Callers -> AskingType]
      BY <2>1, <2>3
    <3> QED BY <1>1, <1>3, <2>2, <2>3, <3>1 DEF SessIInv, SessTypeOK, There
  <2>5. OwnersKnown'
    BY <1>1, <1>3, <2>2, <2>3 DEF SessIInv, SessTypeOK, OwnersKnown, There
  <2>6. SentCanRefresh'
    BY <1>1, <1>3 DEF SessIInv, SentCanRefresh, There
  <2>7. CodesKnown'
    <3>1. (\A b \in Accounts : code[b] # NoCode => issued[code[b]] = b)'
      BY <1>1, <1>3 DEF SessIInv, SessTypeOK, CodesKnown
    <3>2. (\A r \in Callers : asking[r].op \in {"open", "verified"} /\ asking[r].code # NoCode
                             => issued[asking[r].code] = asking[r].account)'
      <4> SUFFICES ASSUME NEW r \in Callers, asking'[r].op \in {"open", "verified"},
                          asking'[r].code # NoCode
                   PROVE  issued'[asking'[r].code] = asking'[r].account
        OBVIOUS
      <4>1. CASE r = q
        <5>1. asking'[r] = next /\ next.code # NoCode
          BY <2>2, <4>1
        <5>2. issued[asking[q].code] = asking[q].account
          BY <1>1, <2>3, <5>1 DEF SessIInv, CodesKnown
        <5> QED BY <1>3, <2>3, <5>1, <5>2
      <4>2. CASE r # q
        <5>1. /\ asking'[r] = asking[r] /\ asking[r].op \in {"open", "verified"}
              /\ asking[r].code # NoCode /\ issued[asking[r].code] = asking[r].account
          BY <2>2, <4>2 DEF SessIInv, CodesKnown
        <5>2. asking[r].code \in Codes
          BY <5>1 DEF SessIInv, SessTypeOK, AskingType
        <5>3. issued'[asking[r].code] = issued[asking[r].code]
          BY <1>1, <1>3, <2>2, <2>3, <4>2, <5>1, <5>2 DEF SessIInv, SessTypeOK
        <5> QED BY <5>1, <5>3
      <4> QED BY <4>1, <4>2
    <3>3. (\A t \in Sessions : by[t] # NoCode => issued[by[t]] = owner[t] /\ owner[t] \in Accounts)'
      BY <1>3 DEF SessIInv, SessTypeOK, CodesKnown
    <3> QED BY <3>1, <3>2, <3>3 DEF CodesKnown
  <2>8. CodesSpent'
    <3>1. asking[q] # Free /\ manner' = manner
      BY <1>1, <1>3
    <3> SUFFICES ASSUME manner = "alone"
                 PROVE  /\ \A t \in Sessions : by'[t] # NoCode /\ next.op \in {"open", "verified"}
                                              => next.code # by'[t]
                        /\ \A b \in Accounts : next.op = "open" /\ next.code # NoCode
                                              => code'[b] # next.code
                        /\ \A t, u \in Sessions : by'[t] = by'[u] /\ by'[t] # NoCode => t = u
                        /\ \A t \in Sessions, b \in Accounts :
                             by'[t] # NoCode => code'[b] # by'[t]
      BY <2>2, <3>1, SpentMoves
    <3>2. \A t \in Sessions : by'[t] # NoCode /\ next.op \in {"open", "verified"}
                            => next.code # by'[t]
      BY <1>1, <1>3, <2>3, ZenonT(60) DEF SessIInv, SessTypeOK, CodesSpent
    <3>3. \A b \in Accounts : next.op = "open" /\ next.code # NoCode => code'[b] # next.code
      <4>1. next.code # NoCode => issued[next.code] = a
        BY <1>1, <2>3 DEF SessIInv, CodesKnown
      <4>2. \A b \in Accounts : code'[b] = IF b = a THEN NoCode ELSE code[b]
        BY <1>3 DEF SessIInv, SessTypeOK
      <4>3. \A b \in Accounts : code[b] # NoCode => issued[code[b]] = b
        BY DEF SessIInv, CodesKnown
      <4> QED BY <4>1, <4>2, <4>3
    <3>4. \A t, u \in Sessions : by'[t] = by'[u] /\ by'[t] # NoCode => t = u
      BY <1>3 DEF SessIInv, SessTypeOK, CodesSpent
    <3>5. \A t \in Sessions, b \in Accounts : by'[t] # NoCode => code'[b] # by'[t]
      BY <1>1, <1>3 DEF SessIInv, SessTypeOK, CodesSpent
    <3> QED BY <3>2, <3>3, <3>4, <3>5
  <2> QED BY <2>4, <2>5, <2>6, <2>7, <2>8 DEF SessIInv
<1> QED BY <1>2, <1>3 DEF ClearCode, rest, past

\* A session is made with the account and the code its request has in hand.
LEMMA CreateSessionKeeps ==
  ASSUME SessIInv, NEW q \in Callers, CreateSession(q)
  PROVE  SessIInv'
<1> DEFINE a == asking[q].account
<1>1. /\ asking[q].op = "open" /\ Free \in AskingType /\ Free.op = "none"
      /\ a \in Accounts /\ asking[q].code \in Codes \cup {NoCode}
  BY DEF CreateSession, SessIInv, SessTypeOK, AskingType, Free
<1>2. CASE ~There(a) /\ Become(q, Free) /\ Read
  BY <1>1, <1>2, ReadsKeep DEF Leave
<1>3. ASSUME NEW s \in Sessions, There(a), hash[s] = "none",
             hash' = [hash EXCEPT ![s] = "empty"], owner' = [owner EXCEPT ![s] = a],
             by' = [by EXCEPT ![s] = asking[q].code],
             Become(q, [op |-> "hash", session |-> s]),
             UNCHANGED <<mail, code, valid, expired, made, issued, sent, ended, manner>>
      PROVE  SessIInv'
  <2> DEFINE next == [op |-> "hash", session |-> s]
  <2>1. asking' = [asking EXCEPT ![q] = next] /\ asking \in [Callers -> AskingType]
    BY <1>3 DEF Become, SessIInv, SessTypeOK
  <2>2. \A r \in Callers : asking'[r] = IF r = q THEN next ELSE asking[r]
    BY <2>1
  <2>3. next \in AskingType /\ next.op = "hash" /\ a \in made /\ s \notin sent
    BY <1>1, <1>3 DEF AskingType, SessIInv, SessTypeOK, OwnersKnown
  <2>4. SessTypeOK'
    <3>1. asking' \in [Callers -> AskingType]
      BY <2>1, <2>3
    <3> QED BY <1>1, <1>3, <2>2, <2>3, <3>1 DEF SessIInv, SessTypeOK, There
  <2>5. OwnersKnown'
    BY <1>1, <1>3, <2>2, <2>3 DEF SessIInv, SessTypeOK, OwnersKnown, There
  <2>6. SentCanRefresh'
    BY <1>1, <1>3, <2>3 DEF SessIInv, SessTypeOK, SentCanRefresh, There
  <2>7. CodesKnown'
    <3>1. (\A b \in Accounts : code[b] # NoCode => issued[code[b]] = b)'
      BY <1>3 DEF SessIInv, SessTypeOK, CodesKnown
    <3>2. (\A r \in Callers : asking[r].op \in {"open", "verified"} /\ asking[r].code # NoCode
                             => issued[asking[r].code] = asking[r].account)'
      <4> SUFFICES ASSUME NEW r \in Callers, asking'[r].op \in {"open", "verified"},
                          asking'[r].code # NoCode
                   PROVE  issued'[asking'[r].code] = asking'[r].account
        OBVIOUS
      <4>1. CASE r = q
        BY <1>3, <2>2, <2>3, <4>1 DEF SessIInv, CodesKnown
      <4>2. CASE r # q
        <5>1. /\ asking'[r] = asking[r] /\ asking[r].op \in {"open", "verified"}
              /\ asking[r].code # NoCode /\ issued[asking[r].code] = asking[r].account
          BY <2>2, <4>2 DEF SessIInv, CodesKnown
        <5>2. asking[r].code \in Codes
          BY <5>1 DEF SessIInv, SessTypeOK, AskingType
        <5>3. issued'[asking[r].code] = issued[asking[r].code]
          BY <1>3, <2>2, <2>3, <4>2, <5>1, <5>2 DEF SessIInv, SessTypeOK
        <5> QED BY <5>1, <5>3
      <4> QED BY <4>1, <4>2
    <3>3. (\A t \in Sessions : by[t] # NoCode => issued[by[t]] = owner[t] /\ owner[t] \in Accounts)'
      BY <1>1, <1>3 DEF SessIInv, SessTypeOK, CodesKnown
    <3> QED BY <3>1, <3>2, <3>3 DEF CodesKnown
  <2>8. CodesSpent'
    <3>1. asking[q] # Free /\ manner' = manner
      BY <1>1, <1>3
    <3> SUFFICES ASSUME manner = "alone"
                 PROVE  /\ \A t \in Sessions : by'[t] # NoCode /\ next.op \in {"open", "verified"}
                                              => next.code # by'[t]
                        /\ \A b \in Accounts : next.op = "open" /\ next.code # NoCode
                                              => code'[b] # next.code
                        /\ \A t, u \in Sessions : by'[t] = by'[u] /\ by'[t] # NoCode => t = u
                        /\ \A t \in Sessions, b \in Accounts :
                             by'[t] # NoCode => code'[b] # by'[t]
      BY <2>2, <3>1, SpentMoves
    <3>2. \A t \in Sessions : by'[t] # NoCode /\ next.op \in {"open", "verified"}
                            => next.code # by'[t]
      BY <2>3
    <3>3. \A b \in Accounts : next.op = "open" /\ next.code # NoCode => code'[b] # next.code
      BY <2>3
    <3>4. \A t, u \in Sessions : by'[t] = by'[u] /\ by'[t] # NoCode => t = u
      BY <1>1, <1>3 DEF SessIInv, SessTypeOK, CodesSpent
    <3>5. \A t \in Sessions, b \in Accounts : by'[t] # NoCode => code'[b] # by'[t]
      BY <1>1, <1>3 DEF SessIInv, SessTypeOK, CodesSpent
    <3> QED BY <3>2, <3>3, <3>4, <3>5
  <2> QED BY <2>4, <2>5, <2>6, <2>7, <2>8 DEF SessIInv
<1> QED BY <1>2, <1>3 DEF CreateSession

\* A new account has an address of its own, a fresh code and no session.
LEMMA InsertAccountKeeps ==
  ASSUME SessIInv, NEW q \in Callers, InsertAccount(q)
  PROVE  SessIInv'
<1> DEFINE m == asking[q].mail
<1>1. /\ asking[q].op = "sign up" /\ Free \in AskingType /\ Free.op = "none" /\ m \in Mails
  BY DEF InsertAccount, SessIInv, SessTypeOK, AskingType, Free
<1>2. CASE Become(q, Free) /\ Read
  BY <1>1, <1>2, ReadsKeep DEF Leave
<1>3. ASSUME At(m) = {}, NEW a \in Accounts \ made, NEW c \in NewCode,
             mail' = [mail EXCEPT ![a] = m], code' = [code EXCEPT ![a] = c],
             valid' = valid \cup {a},
             made' = made \cup {a}, issued' = [issued EXCEPT ![c] = a],
             Become(q, [op |-> "open", account |-> a, code |-> NoCode]),
             UNCHANGED <<hash, owner, expired, by, sent, ended, manner>>
      PROVE  SessIInv'
  <2> DEFINE next == [op |-> "open", account |-> a, code |-> NoCode]
  <2>1. asking' = [asking EXCEPT ![q] = next] /\ asking \in [Callers -> AskingType]
    BY <1>3 DEF Become, SessIInv, SessTypeOK
  <2>2. \A r \in Callers : asking'[r] = IF r = q THEN next ELSE asking[r]
    BY <2>1
  <2>3. /\ next \in AskingType /\ next.op = "open" /\ next.code = NoCode
        /\ c \in Codes /\ issued[c] = NoAccount /\ c # NoCode /\ m # NoMail
    BY <1>1, SessionsAssumption DEF AskingType, NewCode
  <2>4. SessTypeOK'
    <3>1. asking' \in [Callers -> AskingType]
      BY <2>1, <2>3
    <3>2. \A b \in Accounts : mail[b] # m
      BY <1>3 DEF At
    <3> QED BY <1>1, <1>3, <2>2, <2>3, <3>1, <3>2 DEF SessIInv, SessTypeOK, There
  <2>5. OwnersKnown'
    BY <1>1, <1>3, <2>2, <2>3 DEF SessIInv, SessTypeOK, OwnersKnown, There
  <2>6. SentCanRefresh'
    BY <1>1, <1>3, <2>3, ZenonT(60) DEF SessIInv, SessTypeOK, OwnersKnown, SentCanRefresh, There
  <2>7. CodesKnown'
    <3>1. (\A b \in Accounts : code[b] # NoCode => issued[code[b]] = b)'
      <4>1. \A b \in Accounts : code'[b] = (IF b = a THEN c ELSE code[b]) /\ code[b] # c
        BY <1>3, <2>3, FreshIsUnused DEF SessIInv, SessTypeOK
      <4>2. \A d \in Codes : issued'[d] = IF d = c THEN a ELSE issued[d]
        BY <1>3 DEF SessIInv, SessTypeOK
      <4>3. \A b \in Accounts : code[b] \in Codes \cup {NoCode}
        BY DEF SessIInv, SessTypeOK
      <4> QED BY <2>3, <4>1, <4>2, <4>3 DEF SessIInv, CodesKnown
    <3>2. (\A r \in Callers : asking[r].op \in {"open", "verified"} /\ asking[r].code # NoCode
                             => issued[asking[r].code] = asking[r].account)'
      <4> SUFFICES ASSUME NEW r \in Callers, asking'[r].op \in {"open", "verified"},
                          asking'[r].code # NoCode
                   PROVE  issued'[asking'[r].code] = asking'[r].account
        OBVIOUS
      <4>1. CASE r = q
        BY <1>3, <2>2, <2>3, FreshIsUnused, <4>1 DEF SessIInv, CodesKnown
      <4>2. CASE r # q
        <5>1. /\ asking'[r] = asking[r] /\ asking[r].op \in {"open", "verified"}
              /\ asking[r].code # NoCode /\ issued[asking[r].code] = asking[r].account
          BY <2>2, <4>2 DEF SessIInv, CodesKnown
        <5>2. asking[r].code \in Codes
          BY <5>1 DEF SessIInv, SessTypeOK, AskingType
        <5>3. issued'[asking[r].code] = issued[asking[r].code]
          BY <1>3, <2>2, <2>3, FreshIsUnused, <4>2, <5>1, <5>2 DEF SessIInv, SessTypeOK
        <5> QED BY <5>1, <5>3
      <4> QED BY <4>1, <4>2
    <3>3. (\A t \in Sessions : by[t] # NoCode => issued[by[t]] = owner[t] /\ owner[t] \in Accounts)'
      BY <1>3, <2>3, FreshIsUnused, ZenonT(60) DEF SessIInv, SessTypeOK, CodesKnown
    <3> QED BY <3>1, <3>2, <3>3 DEF CodesKnown
  <2>8. CodesSpent'
    <3>1. asking[q] # Free /\ manner' = manner
      BY <1>1, <1>3
    <3> SUFFICES ASSUME manner = "alone"
                 PROVE  /\ \A t \in Sessions : by'[t] # NoCode /\ next.op \in {"open", "verified"}
                                              => next.code # by'[t]
                        /\ \A b \in Accounts : next.op = "open" /\ next.code # NoCode
                                              => code'[b] # next.code
                        /\ \A t, u \in Sessions : by'[t] = by'[u] /\ by'[t] # NoCode => t = u
                        /\ \A t \in Sessions, b \in Accounts :
                             by'[t] # NoCode => code'[b] # by'[t]
      BY <2>2, <3>1, SpentMoves
    <3>2. \A t \in Sessions : by'[t] # NoCode /\ next.op \in {"open", "verified"}
                            => next.code # by'[t]
      BY <2>3
    <3>3. \A b \in Accounts : next.op = "open" /\ next.code # NoCode => code'[b] # next.code
      BY <2>3
    <3>4. \A t, u \in Sessions : by'[t] = by'[u] /\ by'[t] # NoCode => t = u
      BY <1>3 DEF SessIInv, SessTypeOK, CodesSpent
    <3>5. \A t \in Sessions, b \in Accounts : by'[t] # NoCode => code'[b] # by'[t]
      BY <1>3, <2>3, FreshIsUnused DEF SessIInv, SessTypeOK, CodesSpent
    <3> QED BY <3>2, <3>3, <3>4, <3>5
  <2> QED BY <2>4, <2>5, <2>6, <2>7, <2>8 DEF SessIInv
<1> QED BY <1>2, <1>3 DEF InsertAccount

\* Nothing is there at first.
LEMMA SessInitHolds == ASSUME SessInit PROVE SessIInv
<1>1. SessTypeOK
  BY SessionsAssumption DEF SessInit, SessTypeOK, There, Free, AskingType
<1>2. OwnersKnown /\ SentCanRefresh /\ CodesKnown
  BY DEF SessInit, OwnersKnown, SentCanRefresh, CodesKnown, There, Free
<1>3. CodesSpent
  BY DEF SessInit, CodesSpent, Free
<1> QED BY <1>1, <1>2, <1>3 DEF SessIInv

\* Every step keeps it.
LEMMA SessNextKeeps == ASSUME SessIInv, [SessNext]_sessVars PROVE SessIInv'
<1>1. CASE UNCHANGED sessVars
  <2>1. UNCHANGED <<mail, code, valid, hash, owner, expired, asking>>
        /\ UNCHANGED <<made, issued, by, sent, ended, manner>>
    BY <1>1 DEF sessVars, rest, past
  <2>2. SessTypeOK' /\ OwnersKnown'
    BY <2>1 DEF SessIInv, SessTypeOK, OwnersKnown, There
  <2>3. SentCanRefresh' /\ CodesKnown' /\ CodesSpent'
    BY <2>1 DEF SessIInv, SentCanRefresh, CodesKnown, CodesSpent, There
  <2> QED BY <2>2, <2>3 DEF SessIInv
<1>2. CASE (\E a \in Accounts : CodeExpires(a)) \/ \E s \in Sessions : SessionExpires(s)
  BY <1>2, TimeKeeps
<1>3. ASSUME NEW q \in Callers, Call(q) PROVE SessIInv'
  BY <1>3, CallsKeep
<1>4. ASSUME NEW q \in Callers, Answer(q) PROVE SessIInv'
  BY <1>4, ReadsKeep, InsertAccountKeeps, WriteCodeKeeps, ClearCodeKeeps, CreateSessionKeeps,
     KeepHashKeeps, DropSessionKeeps, DeleteSessionKeeps, WriteMailKeeps, DeleteAccountKeeps
     DEF Answer
<1> QED BY <1>1, <1>2, <1>3, <1>4 DEF SessNext

\* The inductive invariant holds in every behaviour: types, owners, usable sessions, and
\* codes that belong to the account they were issued for and are spent once.
THEOREM SessInvariant == SessSpec => []SessIInv
<1> QED BY SessInitHolds, SessNextKeeps, PTL DEF SessSpec

-----------------------------------------------------------------------------

\* The types; an address has one account, and a session is presented exactly when its
\* token was sent.
THEOREM SessTypeCorrect == SessSpec => []SessTypeOK
<1>1. SessIInv => SessTypeOK
  BY DEF SessIInv
<1> QED BY <1>1, SessInvariant, PTL

\* Nothing but its time, its own logout and the deletion of its account takes a session
\* from who holds its refresh token.
THEOREM SessionsStayUsable == SessSpec => []SentCanRefresh
<1>1. SessIInv => SentCanRefresh
  BY DEF SessIInv
<1> QED BY <1>1, SessInvariant, PTL

\* A code opens sessions of the account it was issued for only, and one at most when
\* requests come one at a time.
THEOREM CodesOpenOwn == SessSpec => []CodesOpenTheirs
<1>1. SessIInv => CodesOpenTheirs
  BY SessionsAssumption DEF SessIInv, CodesKnown, CodesSpent, CodesOpenTheirs
<1> QED BY <1>1, SessInvariant, PTL

\* The sessions implement Logins: one that has ended never opens again, and a refresh is
\* answered only for one that was open when it was looked at.
THEOREM SessionsImplementLogins == SessSpec => LoginSpec
<1> DEFINE life == [s \in Sessions |-> Life(s)]
           admits == [q \in Callers |-> IF asking[q].op = "issue" THEN asking[q].session
                                        ELSE NoSession]
<1>1. SessInit => Log!LogInit
  <2> SUFFICES ASSUME SessInit PROVE Log!LogInit
    OBVIOUS
  <2>1. \A s \in Sessions : Life(s) = "none"
    BY DEF SessInit, Life
  <2>2. \A q \in Callers : asking[q].op # "issue"
    BY DEF SessInit, Free
  <2> QED BY <2>1, <2>2 DEF Log!LogInit
<1>2. ASSUME SessIInv, [SessNext]_sessVars PROVE [Log!LogNext]_<<life, admits>>
  <2>1. UNCHANGED <<hash, expired, sent>> => UNCHANGED life
    BY DEF Life
  <2>2. ASSUME NEW q \in Callers, NEW next, Become(q, next), asking[q].op # "issue",
               next.op # "issue"
        PROVE  UNCHANGED admits
    BY <1>2, <2>2 DEF Become, SessIInv, SessTypeOK
  <2>3. ASSUME NEW some \in SUBSET Sessions, UNCHANGED admits,
               \A s \in some : Life(s) = "open",
               \A s \in Sessions : Life(s)' = IF s \in some THEN "ended" ELSE Life(s)
        PROVE  Log!LogNext
    <3>1. Log!End(some)
      BY <2>3 DEF Log!End
    <3> QED BY <3>1 DEF Log!LogNext
  <2>4. Free.op = "none" /\ asking \in [Callers -> AskingType]
    BY <1>2 DEF Free, SessIInv, SessTypeOK
  <2>5. CASE UNCHANGED sessVars
    BY <2>5 DEF sessVars, rest, past, Life
  <2>6. ASSUME NEW a \in Accounts, CodeExpires(a) PROVE UNCHANGED <<life, admits>>
    BY <2>1, <2>6 DEF CodeExpires, rest, past
  <2>7. ASSUME NEW s \in Sessions, SessionExpires(s) PROVE [Log!LogNext]_<<life, admits>>
    <3> DEFINE some == {t \in {s} : Life(t) = "open"}
    <3>1. UNCHANGED <<hash, sent, asking>> /\ expired' = expired \cup {s}
      BY <2>7 DEF SessionExpires, rest, past
    <3>2. \A t \in Sessions : Life(t)' = IF t \in some THEN "ended" ELSE Life(t)
      BY <3>1 DEF Life
    <3> QED BY <2>3, <3>1, <3>2
  <2>8. ASSUME NEW q \in Callers, Call(q) PROVE UNCHANGED <<life, admits>>
    <3>1. ASSUME NEW next, Arrive(q, next), next.op # "issue" PROVE UNCHANGED <<life, admits>>
      BY <2>1, <2>2, <2>4, <3>1 DEF Arrive, rest, past
    <3> QED BY <2>8, <3>1 DEF Call, SignUp, UpdateUserDetails, SignIn, RequestOtp, DeleteUser,
               VerifyOtp, Logout, RefreshToken
  <2>9. ASSUME NEW q \in Callers, Answer(q) PROVE [Log!LogNext]_<<life, admits>>
    <3>1. CASE InsertAccount(q)
      <4>1. asking[q].op # "issue" /\ UNCHANGED <<hash, expired, sent>>
        BY <3>1 DEF InsertAccount, Read, rest, past
      <4>2. \A a : [op |-> "open", account |-> a, code |-> NoCode].op # "issue"
        OBVIOUS
      <4>3. Become(q, Free) \/ \E a : Become(q, [op |-> "open", account |-> a, code |-> NoCode])
        BY <3>1 DEF InsertAccount
      <4> QED BY <2>1, <2>2, <2>4, <4>1, <4>2, <4>3
    <3>2. CASE WriteCode(q) \/ WriteMail(q)
      <4>1. asking[q].op # "issue" /\ UNCHANGED <<hash, expired, sent>> /\ Become(q, Free)
        BY <3>2 DEF WriteCode, WriteMail, Read, rest, past
      <4> QED BY <2>1, <2>2, <2>4, <4>1
    <3>3. CASE ClearCode(q)
      <4>1. asking[q].op = "verified" /\ UNCHANGED <<hash, expired, sent>>
        BY <3>3 DEF ClearCode, Read, rest, past
      <4>2. [asking[q] EXCEPT !.op = "open"].op = "open"
        BY <2>4, <4>1 DEF AskingType
      <4>3. Become(q, Free) \/ Become(q, [asking[q] EXCEPT !.op = "open"])
        BY <3>3 DEF ClearCode
      <4> QED BY <2>1, <2>2, <2>4, <4>1, <4>2, <4>3
    <3>4. CASE CreateSession(q)
      <4>1. CASE Become(q, Free) /\ Read
        BY <2>1, <2>2, <2>4, <3>4, <4>1 DEF CreateSession, Read, rest, past
      <4>2. ASSUME NEW s \in Sessions, hash[s] = "none", hash' = [hash EXCEPT ![s] = "empty"],
                   Become(q, [op |-> "hash", session |-> s]), UNCHANGED <<expired, sent>>
            PROVE  UNCHANGED <<life, admits>>
        <5>1. UNCHANGED life
          BY <1>2, <4>2 DEF Life, SessIInv, SessTypeOK
        <5> QED BY <2>2, <3>4, <4>2, <5>1 DEF CreateSession
      <4> QED BY <3>4, <4>1, <4>2 DEF CreateSession
    <3>5. CASE KeepHash(q)
      <4> DEFINE s == asking[q].session
      <4>1. s \in Sessions /\ asking[q].op = "hash" /\ UNCHANGED admits
        BY <2>2, <2>4, <3>5 DEF KeepHash, AskingType
      <4>2. CASE Read
        BY <2>1, <4>1, <4>2 DEF Read, rest, past
      <4>3. CASE /\ hash[s] = "empty" /\ hash' = [hash EXCEPT ![s] = "set"]
                 /\ sent' = sent \cup {s} /\ UNCHANGED expired
        <5>1. s \notin sent /\ s \notin expired
          BY <1>2, <4>1, <4>3 DEF SessIInv, SessTypeOK, OwnersKnown
        <5>2. life[s] = "none" /\ life' = [life EXCEPT ![s] = "open"]
          BY <1>2, <4>1, <4>3, <5>1 DEF Life, SessIInv, SessTypeOK
        <5>3. Log!Open(s)
          BY <4>1, <5>2 DEF Log!Open
        <5> QED BY <4>1, <5>3 DEF Log!LogNext
      <4> QED BY <3>5, <4>2, <4>3 DEF KeepHash
    <3>6. CASE CheckSession(q)
      <4> DEFINE s == asking[q].session
      <4>1. /\ s \in sent /\ s \in Sessions /\ asking[q].op = "session"
            /\ UNCHANGED life
        BY <1>2, <2>1, <2>4, <3>6 DEF CheckSession, Read, rest, past, SessIInv, SessTypeOK
      <4>2. CASE hash[s] = "deleted" \/ s \in expired
        <5>1. Become(q, Free) \/ Become(q, [op |-> "drop", session |-> s])
          BY <3>6, <4>2 DEF CheckSession
        <5> QED BY <2>2, <2>4, <4>1, <5>1
      <4>3. CASE hash[s] # "deleted" /\ s \notin expired
        <5>1. Become(q, [op |-> "issue", session |-> s])
          BY <3>6, <4>3 DEF CheckSession
        <5>2. admits[q] = NoSession /\ admits' = [admits EXCEPT ![q] = s]
          BY <2>4, <4>1, <5>1 DEF Become
        <5>3. life[s] = "open"
          BY <1>2, <4>1, <4>3 DEF Life, SessIInv, SessTypeOK
        <5>4. \E t \in Sessions : Log!Admit(q, t)
          BY <4>1, <5>2, <5>3 DEF Log!Admit
        <5> QED BY <5>4 DEF Log!LogNext
      <4> QED BY <4>2, <4>3
    <3>7. CASE DropSession(q) \/ DeleteSession(q)
      <4> DEFINE s == asking[q].session
                 some == {t \in {s} : Life(t) = "open"}
      <4>1. /\ s \in Sessions /\ s \in sent /\ asking[q].op \in {"drop", "log out"}
            /\ Become(q, Free) /\ UNCHANGED <<expired, sent>>
        BY <1>2, <2>4, <3>7
           DEF DropSession, DeleteSession, Read, rest, past, SessIInv, SessTypeOK, AskingType
      <4>2. UNCHANGED admits
        BY <2>2, <2>4, <4>1
      <4>3. CASE UNCHANGED hash
        BY <2>1, <4>1, <4>2, <4>3
      <4>4. CASE hash' = [hash EXCEPT ![s] = "deleted"]
        <5>1. \A t \in Sessions : Life(t)' = IF t \in some THEN "ended" ELSE Life(t)
          BY <1>2, <4>1, <4>4 DEF Life, SessIInv, SessTypeOK
        <5> QED BY <2>3, <4>1, <4>2, <5>1
      <4> QED BY <3>7, <4>3, <4>4 DEF DropSession, DeleteSession, Read
    <3>8. CASE DeleteAccount(q)
      <4> DEFINE some == {t \in Sessions : owner[t] = asking[q].account /\ Life(t) = "open"}
      <4>1. UNCHANGED admits
        BY <2>2, <2>4, <3>8 DEF DeleteAccount
      <4>2. \A t \in Sessions : Life(t)' = IF t \in some THEN "ended" ELSE Life(t)
        BY <3>8 DEF DeleteAccount, Life, rest, past
      <4> QED BY <2>3, <4>1, <4>2
    <3>9. CASE Issue(q) \/ Leave(q)
      <4>1. Become(q, Free) /\ UNCHANGED life
        BY <2>1, <3>9 DEF Issue, Leave, Read, rest, past
      <4>2. admits' = [admits EXCEPT ![q] = NoSession]
        BY <2>4, <4>1 DEF Become
      <4>3. Log!Leave(q)
        BY <4>1, <4>2 DEF Log!Leave
      <4> QED BY <4>3 DEF Log!LogNext
    <3> QED BY <2>9, <3>1, <3>2, <3>3, <3>4, <3>5, <3>6, <3>7, <3>8, <3>9 DEF Answer
  <2> QED BY <1>2, <2>5, <2>6, <2>7, <2>8, <2>9 DEF SessNext
<1> QED BY <1>1, <1>2, SessInvariant, PTL DEF SessSpec, LoginSpec, Log!LogSpec, Log!logVars

-----------------------------------------------------------------------------
\* Membership.

PredefinedOrNone == Predefined \cup {NoPredefined}

RequestType ==
  [op : {"none"}]
  \cup [op : {"invite", "check invite", "create invite"}, email : Addresses,
        user : Users \cup {NoOne}, predefined : PredefinedOrNone, role : Roles \cup {NoRole}]
  \cup [op : {"accept", "check member", "join"}, user : Users, invite : 1 .. MaxInvites,
        row : InviteType]
  \cup [op : {"update"}, member : 1 .. MaxMembers, predefined : PredefinedOrNone,
        role : Roles \cup {NoRole}]
  \cup [op : {"remove"}, member : 1 .. MaxMembers]
  \cup [op : {"create role", "delete role"}, role : Roles]
  \cup [op : {"assign permissions", "remove permissions"}, role : Roles,
        set : SUBSET Permissions]
  \cup [op : {"replace"}, role : Roles, set : SUBSET Permissions, old : SUBSET Permissions]
  \cup [op : {"assign role"}, member : 1 .. MaxMembers, role : Roles]

\* What a request knows of the rows it is about, whatever the others do.
Known(r) ==
  /\ r \in RequestType
  /\ r.op \in {"accept", "check member", "join"} =>
       r.invite \in DOMAIN invites /\ invites[r.invite].email = r.row.email
  /\ r.op \in {"check member", "join"} => <<r.user, r.row.email>> \in held
  /\ r.op \in {"update", "remove", "assign role"} => r.member \in DOMAIN members

\* And what it knows besides while it is the only one.
KnownAlone(r) ==
  /\ r.op = "invite" => \A u \in Users : email[u] = r.email => r.user = u
  /\ r.op \in {"check invite", "create invite"} =>
       \A u \in Users : email[u] = r.email => RowsOf(u) = {}
  /\ r.op = "create invite" => Pending(r.email) = {}
  /\ r.op \in {"accept", "check member", "join"} => invites[r.invite].status = "PENDING"
  /\ r.op \in {"check member", "join"} => email[r.user] = r.row.email
  /\ r.op = "join" => RowsOf(r.user) = {}
  /\ r.op = "delete role" => HasRole(r.role) = {}
  /\ r.op = "replace" => r.old = permits[r.role]

RequestsKnown ==
  /\ request \in [Requests -> RequestType]
  /\ \A q \in Requests : Known(request[q])
  /\ course = "alone" =>
       /\ \A p, q \in Requests : request[p] # Idle /\ request[q] # Idle => p = q
       /\ \A q \in Requests : KnownAlone(request[q])

HistoryType ==
  /\ joined \in [1 .. MaxInvites -> Nat]
  /\ \A i \in (1 .. MaxInvites) \ DOMAIN invites : joined[i] = 0
  /\ given \in [1 .. MaxMembers -> Roles \cup {NoRole}]
  /\ meant \in [Roles -> SUBSET Permissions]

\* No two accounts have one address, and what they have is held.
MailKnown ==
  /\ \A u, v \in Users : email[u] = email[v] => u = v \/ email[u] = NoAddress
  /\ \A u \in Users : <<u, email[u]>> \in held

\* Every row but the owner's was made from an invite to the person.
RowsAreInvited ==
  \A m \in DOMAIN members :
    members[m].user \in Users \ {Owner} =>
      \E i \in DOMAIN invites :
        <<members[m].user, invites[i].email>> \in held /\ invites[i].status = "ACCEPTED"

\* OneWayIn, without numbers.
OneWay ==
  course = "alone" =>
    /\ \A u \in Users : /\ \A m, n \in RowsOf(u) : m = n
                        /\ RowsOf(u) \subseteq moved \/ Pending(email[u]) \subseteq unchecked
    /\ \A a \in Addresses :
         (\A i, j \in Pending(a) : i = j) \/ Pending(a) \subseteq unchecked

\* The inductive invariant.
MemIInv ==
  /\ MemTypeOK /\ HistoryType /\ RequestsKnown /\ MailKnown
  /\ RowsAreInvited /\ AcceptedMadeMember /\ OneWay /\ GivenIsKept

Rows == <<members, invites, rolesVars, history, mailVars, course>>

-----------------------------------------------------------------------------
\* Lemmas.

\* The operations a request may be at.
LEMMA OpsOfRequests == \A r \in RequestType : r.op \in Ops
BY DEF RequestType, Ops

\* The rows and their places.
LEMMA RowTypes ==
  ASSUME MemTypeOK
  PROVE  /\ Len(members) \in Nat /\ DOMAIN members = 1 .. Len(members)
         /\ Len(members) <= MaxMembers
         /\ Len(invites) \in Nat /\ DOMAIN invites = 1 .. Len(invites)
         /\ Len(invites) <= MaxInvites
         /\ \A m \in DOMAIN members : members[m] \in RowType
         /\ \A i \in DOMAIN invites : invites[i] \in InviteType
         /\ DOMAIN members \subseteq 1 .. MaxMembers /\ DOMAIN invites \subseteq 1 .. MaxInvites
<1>1. /\ Len(members) \in Nat /\ DOMAIN members = 1 .. Len(members)
      /\ Len(invites) \in Nat /\ DOMAIN invites = 1 .. Len(invites)
      /\ Len(members) <= MaxMembers /\ Len(invites) <= MaxInvites
  BY LenProperties DEF MemTypeOK
<1>2. /\ \A m \in DOMAIN members : members[m] \in RowType
      /\ \A i \in DOMAIN invites : invites[i] \in InviteType
  BY <1>1, ElementOfSeq DEF MemTypeOK
<1> QED BY <1>1, <1>2, MembershipAssumption

\* A row that is added.
LEMMA Appended ==
  ASSUME NEW S, NEW rows \in Seq(S), NEW new \in S
  PROVE  /\ Append(rows, new) \in Seq(S) /\ Len(Append(rows, new)) = Len(rows) + 1
         /\ DOMAIN Append(rows, new) = DOMAIN rows \cup {Len(rows) + 1}
         /\ Len(rows) \in Nat /\ Len(rows) + 1 \notin DOMAIN rows
         /\ \A i \in DOMAIN rows : Append(rows, new)[i] = rows[i]
         /\ Append(rows, new)[Len(rows) + 1] = new
<1>1. DOMAIN Append(rows, new) = 1 .. Len(rows) + 1
  BY AppendProperties, LenProperties
<1>2. DOMAIN rows = 1 .. Len(rows) /\ Len(rows) \in Nat
  BY LenProperties
<1>3. 1 .. Len(rows) + 1 = (1 .. Len(rows)) \cup {Len(rows) + 1}
  BY <1>2
<1> QED BY <1>1, <1>2, <1>3, AppendProperties

\* A request that moves on and writes nothing keeps the invariant, if it knows what it
\* should where it is then.
LEMMA GoesOn ==
  ASSUME MemIInv, NEW q \in Requests, NEW next, request' = [request EXCEPT ![q] = next],
         UNCHANGED Rows, Known(next),
         course = "alone" =>
           /\ next = Idle \/ \A p \in Requests \ {q} : request[p] = Idle
           /\ KnownAlone(next)
  PROVE  MemIInv'
<1>1. /\ members' = members /\ invites' = invites /\ roles' = roles /\ permits' = permits
      /\ joined' = joined /\ given' = given /\ meant' = meant /\ course' = course
      /\ email' = email /\ held' = held /\ moved' = moved /\ unchecked' = unchecked
  BY DEF Rows, rolesVars, history, mailVars
<1>2. request' \in [Requests -> RequestType]
  BY DEF MemIInv, RequestsKnown, Known
<1>3. MemTypeOK'
  BY <1>1, <1>2, OpsOfRequests DEF MemIInv, MemTypeOK, Present
<1>4. HistoryType' /\ MailKnown' /\ RowsAreInvited' /\ AcceptedMadeMember' /\ GivenIsKept'
  BY <1>1 DEF MemIInv, HistoryType, MailKnown, RowsAreInvited, AcceptedMadeMember, GivenIsKept
<1>5. OneWay'
  BY <1>1 DEF MemIInv, OneWay, RowsOf, Pending
<1>6. ASSUME NEW p \in Requests PROVE request'[p] = IF p = q THEN next ELSE request[p]
  BY DEF MemIInv, RequestsKnown
<1>7. ASSUME NEW p \in Requests
      PROVE  Known(request[p])' /\ (course = "alone" => KnownAlone(request[p])')
  <2>1. Known(request'[p]) /\ (course = "alone" => KnownAlone(request'[p]))
    BY <1>6 DEF MemIInv, RequestsKnown
  <2>2. PICK r : r = request'[p]
    OBVIOUS
  <2>3. Known(r) => Known(r)'
    BY <1>1 DEF Known
  <2>4. KnownAlone(r) => KnownAlone(r)'
    BY <1>1 DEF KnownAlone, RowsOf, Pending, HasRole
  <2> QED BY <1>1, <2>1, <2>2, <2>3, <2>4
<1>8. course = "alone" =>
        \A p, r \in Requests : request'[p] # Idle /\ request'[r] # Idle => p = r
  BY <1>6 DEF MemIInv, RequestsKnown
<1>9. RequestsKnown'
  BY <1>1, <1>2, <1>7, <1>8 DEF RequestsKnown, Idle
<1> QED BY <1>3, <1>4, <1>5, <1>9 DEF MemIInv

\* One that is over knows nothing.
LEMMA IdleType == Idle \in RequestType /\ Idle.op = "none"
BY DEF Idle, RequestType

LEMMA IdleKnows == Known(Idle) /\ KnownAlone(Idle)
BY IdleType DEF Known, KnownAlone

\* What a step that writes leaves of the requests.
LEMMA RequestsStay ==
  ASSUME RequestsKnown, NEW q \in Requests, request' = [request EXCEPT ![q] = Idle],
         request[q] # Idle, course' = course, held' = held,
         DOMAIN members \subseteq DOMAIN members', DOMAIN invites \subseteq DOMAIN invites',
         \A i \in DOMAIN invites : invites'[i].email = invites[i].email
  PROVE  RequestsKnown'
<1>1. request' \in [Requests -> RequestType]
  BY IdleKnows DEF RequestsKnown, Known
<1>2. ASSUME NEW p \in Requests PROVE request'[p] = IF p = q THEN Idle ELSE request[p]
  BY DEF RequestsKnown
<1>3. ASSUME NEW p \in Requests PROVE Known(request[p])'
  <2>1. CASE p = q
    BY <1>2, <2>1, IdleType DEF Known
  <2>2. CASE p # q
    BY <1>2, <2>2 DEF RequestsKnown, Known
  <2> QED BY <2>1, <2>2
<1>4. course = "alone" => \A p \in Requests : request'[p] = Idle
  BY <1>2 DEF RequestsKnown
<1>5. course = "alone" => \A p \in Requests : KnownAlone(request[p])'
  BY <1>4, IdleType DEF KnownAlone
<1> QED BY <1>1, <1>3, <1>4, <1>5 DEF RequestsKnown, Idle

\* Rows that lose or keep their person, and invites that keep theirs, let nobody in.
LEMMA NobodyComes ==
  ASSUME MemIInv, joined' = joined, course' = course, UNCHANGED mailVars,
         DOMAIN members' = DOMAIN members, DOMAIN invites' = DOMAIN invites,
         \A m \in DOMAIN members : members'[m].user \in {members[m].user, NoOne},
         \A i \in DOMAIN invites : /\ invites'[i].email = invites[i].email
                                   /\ invites'[i].status = invites[i].status
  PROVE  MailKnown' /\ RowsAreInvited' /\ AcceptedMadeMember' /\ OneWay'
<1>0. email' = email /\ held' = held /\ moved' = moved /\ unchecked' = unchecked
  BY DEF mailVars
<1>1. MailKnown' /\ RowsAreInvited'
  <2>1. MailKnown'
    BY <1>0 DEF MemIInv, MailKnown
  <2> SUFFICES ASSUME NEW m \in DOMAIN members, members'[m].user \in Users \ {Owner}
               PROVE  \E i \in DOMAIN invites :
                        /\ <<members'[m].user, invites'[i].email>> \in held
                        /\ invites'[i].status = "ACCEPTED"
    BY <1>0, <2>1 DEF RowsAreInvited
  <2>2. members'[m].user = members[m].user
    BY MembershipAssumption
  <2>3. PICK i \in DOMAIN invites : /\ <<members[m].user, invites[i].email>> \in held
                                    /\ invites[i].status = "ACCEPTED"
    BY <2>2 DEF MemIInv, RowsAreInvited
  <2> QED BY <2>2, <2>3
<1>2. AcceptedMadeMember'
  BY DEF MemIInv, AcceptedMadeMember
<1>3. \A u \in Users : (RowsOf(u))' \subseteq RowsOf(u)
  BY MembershipAssumption DEF RowsOf
<1>4. \A a : Pending(a)' = Pending(a)
  BY DEF Pending
<1>5. \A u \in Users : (Pending(email[u]))' = Pending(email[u])
  BY <1>0 DEF Pending
<1>6. OneWay'
  BY <1>0, <1>3, <1>4, <1>5 DEF MemIInv, OneWay
<1> QED BY <1>1, <1>2, <1>6

-----------------------------------------------------------------------------
\* What is true at first.
LEMMA MemInitHolds == MemInit => MemIInv
<1> SUFFICES ASSUME MemInit PROVE MemIInv
  OBVIOUS
<1>1. members = <<Row(Owner, "OWNER", NoRole)>>
  BY DEF MemInit
<1>2. Row(Owner, "OWNER", NoRole) \in RowType
  BY MembershipAssumption DEF Row, RowType, Predefined
<1>3. Len(members) = 1 /\ DOMAIN members = {1} /\ members[1] = Row(Owner, "OWNER", NoRole)
  BY <1>1
<1>4. members \in Seq(RowType)
  BY <1>1, <1>2
<1>0. PICK n \in 0 .. MaxFounding : \E to \in [1 .. n -> Addresses] :
        /\ invites = [i \in 1 .. n |-> Invite(to[i], "ADMIN", NoRole)]
        /\ unchecked = {i \in 1 .. n : to[i] = email[Owner]
                                        \/ \E j \in 1 .. n : j # i /\ to[j] = to[i]}
  BY DEF MemInit
<1>5. PICK to \in [1 .. n -> Addresses] :
        /\ invites = [i \in 1 .. n |-> Invite(to[i], "ADMIN", NoRole)]
        /\ unchecked = {i \in 1 .. n : to[i] = email[Owner]
                                        \/ \E j \in 1 .. n : j # i /\ to[j] = to[i]}
  BY <1>0
<1>6. n \in Nat /\ n <= MaxInvites
  BY MembershipAssumption
<1>7. /\ invites \in Seq(InviteType) /\ Len(invites) = n /\ DOMAIN invites = 1 .. n
      /\ \A i \in 1 .. n : /\ invites[i].email = to[i] /\ invites[i].roleId = NoRole
                           /\ invites[i].status = "PENDING"
  <2>1. ASSUME NEW a \in Addresses
        PROVE  /\ Invite(a, "ADMIN", NoRole) \in InviteType
               /\ Invite(a, "ADMIN", NoRole).email = a
               /\ Invite(a, "ADMIN", NoRole).roleId = NoRole
               /\ Invite(a, "ADMIN", NoRole).status = "PENDING"
    BY DEF Invite, InviteType, Predefined
  <2>2. invites \in [1 .. n -> InviteType]
    BY <1>5, <2>1
  <2>3. invites \in Seq(InviteType)
    BY <1>6, <2>2, SeqDef
  <2>4. \A i \in 1 .. n : invites[i] = Invite(to[i], "ADMIN", NoRole) /\ to[i] \in Addresses
    BY <1>5
  <2>5. DOMAIN invites = 1 .. n /\ DOMAIN invites = 1 .. Len(invites) /\ Len(invites) \in Nat
    BY <2>2, <2>3, LenProperties
  <2> QED BY <1>6, <2>1, <2>3, <2>4, <2>5
<1>8. members[1].user = Owner /\ members[1].roleId = NoRole
  BY <1>3 DEF Row
<1>9. \A q \in Requests : request[q] = Idle
  BY DEF MemInit
<1>10. MemTypeOK
  <2>1. Len(members) <= MaxMembers
    BY <1>3, MembershipAssumption
  <2>2. /\ \A m \in DOMAIN members : members[m].roleId \in Present \cup {NoRole}
        /\ \A i \in DOMAIN invites : invites[i].roleId \in Present \cup {NoRole}
    BY <1>3, <1>7, <1>8
  <2>3. \A q \in Requests : request[q].op \in Ops
    BY <1>9, IdleType DEF Ops
  <2>4. /\ roles \in [Roles -> {"unmade", "made", "deleted"}]
        /\ permits \in [Roles -> SUBSET Permissions]
        /\ \A r \in Roles \ Present : permits[r] = {}
        /\ email \in [Users -> Addresses \cup {NoAddress}]
    BY DEF MemInit
  <2> QED BY <1>4, <1>6, <1>7, <2>1, <2>2, <2>3, <2>4 DEF MemTypeOK
<1>11. HistoryType /\ MailKnown
  BY DEF HistoryType, MailKnown, MemInit
<1>12. RequestsKnown
  BY <1>9, IdleType, IdleKnows DEF RequestsKnown, MemInit
<1>13. RowsAreInvited
  BY <1>3, <1>8 DEF RowsAreInvited
<1>14. AcceptedMadeMember
  BY <1>6, <1>7, MembershipAssumption DEF AcceptedMadeMember, MemInit
<1>15. OneWay
  <2>1. \A u \in Users : RowsOf(u) = IF u = Owner THEN {1} ELSE {}
    BY <1>3, <1>8 DEF RowsOf
  <2>2. \A a : Pending(a) = {i \in 1 .. n : to[i] = a}
    BY <1>7 DEF Pending
  <2>3. Pending(email[Owner]) \subseteq unchecked
    BY <1>5, <2>2
  <2>4. ASSUME NEW a \in Addresses, NEW i \in Pending(a), NEW j \in Pending(a), i # j
        PROVE  Pending(a) \subseteq unchecked
    BY <1>5, <2>2, <2>4
  <2> QED BY <2>1, <2>3, <2>4 DEF OneWay
<1>16. GivenIsKept
  BY <1>3, <1>8, MembershipAssumption DEF GivenIsKept, MemInit
<1> QED BY <1>10, <1>11, <1>12, <1>13, <1>14, <1>15, <1>16 DEF MemIInv

-----------------------------------------------------------------------------
\* The steps that only read and move on.

\* A request arrives.
LEMMA AskKeeps ==
  ASSUME MemIInv, NEW q \in Requests, Ask(q)
  PROVE  MemIInv'
<1>1. ASSUME NEW next, Begin(q, next), UNCHANGED Rows, Known(next),
             course = "alone" => KnownAlone(next)
      PROVE  MemIInv'
  BY <1>1, GoesOn DEF Begin
<1>2. ASSUME NEW a \in Addresses, NEW offer \in Offers,
             InviteMember(q, a, offer[1], offer[2])
      PROVE  MemIInv'
  <2> DEFINE next == [op |-> "invite", email |-> a, user |-> AccountAt(a),
                      predefined |-> offer[1], role |-> offer[2]]
  <2>1. /\ AccountAt(a) \in Users \cup {NoOne}
        /\ \A u \in Users : email[u] = a => AccountAt(a) = u
    BY MembershipAssumption DEF AccountAt, MemIInv, MailKnown
  <2> HIDE DEF AccountAt
  <2>2. next \in RequestType
    BY <2>1, MembershipAssumption DEF RequestType, PredefinedOrNone
  <2>3. Known(next) /\ KnownAlone(next)
    BY <2>1, <2>2 DEF Known, KnownAlone
  <2> QED BY <1>1, <1>2, <2>3 DEF InviteMember, Rows
<1>3. ASSUME NEW u \in Users, NEW i \in 1 .. MaxInvites, AcceptInvite(q, u, i)
      PROVE  MemIInv'
  <2> DEFINE next == [op |-> "accept", user |-> u, invite |-> i, row |-> invites[i]]
  <2>1. next \in RequestType
    BY <1>3, RowTypes DEF AcceptInvite, RequestType, MemIInv
  <2>2. Known(next) /\ KnownAlone(next)
    BY <1>3, <2>1 DEF AcceptInvite, Known, KnownAlone
  <2> QED BY <1>1, <1>3, <2>2 DEF AcceptInvite, Rows
<1>4. ASSUME NEW m \in 1 .. MaxMembers, RemoveMember(q, m)
      PROVE  MemIInv'
  <2> DEFINE next == [op |-> "remove", member |-> m]
  <2>1. Known(next) /\ KnownAlone(next)
    BY <1>4 DEF RemoveMember, NotOwner, Member, RequestType, Known, KnownAlone
  <2> QED BY <1>1, <1>4, <2>1 DEF RemoveMember, Rows
<1>5. ASSUME NEW m \in 1 .. MaxMembers, NEW offer \in Offers,
             UpdateMemberRole(q, m, offer[1], offer[2])
      PROVE  MemIInv'
  <2> DEFINE next == [op |-> "update", member |-> m, predefined |-> offer[1], role |-> offer[2]]
  <2>1. next \in RequestType
    BY MembershipAssumption DEF RequestType, PredefinedOrNone
  <2>2. Known(next) /\ KnownAlone(next)
    BY <1>5, <2>1 DEF UpdateMemberRole, NotOwner, Member, Known, KnownAlone
  <2> QED BY <1>1, <1>5, <2>2 DEF UpdateMemberRole, Rows
<1>6. ASSUME NEW m \in 1 .. MaxMembers, NEW r \in Roles, AssignRoleToMember(q, m, r)
      PROVE  MemIInv'
  <2> DEFINE next == [op |-> "assign role", member |-> m, role |-> r]
  <2>1. Known(next) /\ KnownAlone(next)
    BY <1>6 DEF AssignRoleToMember, Member, RequestType, Known, KnownAlone
  <2> QED BY <1>1, <1>6, <2>1 DEF AssignRoleToMember, Rows
<1>7. ASSUME NEW r \in Roles, CreateRoleTemplate(q, r) \/ DeleteRoleTemplate(q, r)
      PROVE  MemIInv'
  <2>1. ASSUME NEW op \in {"create role", "delete role"}, op = "delete role" => HasRole(r) = {}
        PROVE  Known([op |-> op, role |-> r]) /\ KnownAlone([op |-> op, role |-> r])
    BY <2>1 DEF RequestType, Known, KnownAlone
  <2> QED BY <1>1, <1>7, <2>1 DEF CreateRoleTemplate, DeleteRoleTemplate, Rows
<1>8. ASSUME NEW r \in Roles, NEW set \in SUBSET Permissions,
             AssignPermissionsToRole(q, r, set) \/ RemovePermissionsFromRole(q, r, set)
      PROVE  MemIInv'
  <2>1. ASSUME NEW op \in {"assign permissions", "remove permissions"}
        PROVE  /\ Known([op |-> op, role |-> r, set |-> set])
               /\ KnownAlone([op |-> op, role |-> r, set |-> set])
    BY DEF RequestType, Known, KnownAlone
  <2> QED BY <1>1, <1>8, <2>1 DEF AssignPermissionsToRole, RemovePermissionsFromRole, Rows
<1> QED BY <1>2, <1>3, <1>4, <1>5, <1>6, <1>7, <1>8 DEF Ask

\* A request looks at something, or is given up.
LEMMA LooksKeep ==
  ASSUME MemIInv, NEW q \in Requests,
         \/ CheckInvitee(q) \/ CheckInvite(q) \/ CheckEmail(q) \/ CheckMember(q)
         \/ StartReplace(q) \/ Abandon(q)
  PROVE  MemIInv'
<1>1. Known(request[q]) /\ (course = "alone" => KnownAlone(request[q]))
  BY DEF MemIInv, RequestsKnown
<1>2. request[q] # Idle
  BY IdleType DEF CheckInvitee, CheckInvite, CheckEmail, CheckMember, StartReplace, Abandon
<1>3. ASSUME NEW next, request' = [request EXCEPT ![q] = next], UNCHANGED Rows, Known(next),
             course = "alone" => KnownAlone(next)
      PROVE  MemIInv'
  <2>1. course = "alone" => \A p \in Requests \ {q} : request[p] = Idle
    BY <1>2 DEF MemIInv, RequestsKnown
  <2> QED BY <1>3, <2>1, GoesOn
<1>4. ASSUME End(q), UNCHANGED Rows PROVE MemIInv'
  BY <1>3, <1>4, IdleKnows DEF End
<1>5. CASE CheckInvite(q) /\ ~End(q)
  <2> DEFINE next == [request[q] EXCEPT !.op = "create invite"]
  <2>1. request[q].op = "check invite" /\ Pending(request[q].email) = {}
    BY <1>5 DEF CheckInvite
  <2>2. Known(next) /\ (course = "alone" => KnownAlone(next))
    BY <1>1, <2>1 DEF Known, KnownAlone, RequestType
  <2>3. request' = [request EXCEPT ![q] = next]
    BY <1>5, <2>1 DEF CheckInvite, MemIInv, RequestsKnown
  <2> QED BY <1>3, <1>5, <2>2, <2>3 DEF CheckInvite, Rows
<1>6. CASE CheckMember(q) /\ ~End(q)
  <2> DEFINE next == [request[q] EXCEPT !.op = "join"]
  <2>1. request[q].op = "check member" /\ RowsOf(request[q].user) = {}
    BY <1>6 DEF CheckMember
  <2>2. Known(next) /\ (course = "alone" => KnownAlone(next))
    BY <1>1, <2>1 DEF Known, KnownAlone, RequestType
  <2>3. request' = [request EXCEPT ![q] = next]
    BY <1>6, <2>1 DEF CheckMember, MemIInv, RequestsKnown
  <2> QED BY <1>3, <1>6, <2>2, <2>3 DEF CheckMember, Rows
<1>7. CASE StartReplace(q)
  <2> DEFINE r == request[q]
             next == [op |-> "replace", role |-> r.role, set |-> r.set, old |-> permits[r.role]]
  <2>1. r.op = "assign permissions" /\ r.role \in Roles /\ r.set \in SUBSET Permissions
    BY <1>1, <1>7 DEF StartReplace, Known, RequestType
  <2>2. permits[r.role] \in SUBSET Permissions
    BY <2>1 DEF MemIInv, MemTypeOK
  <2>3. Known(next) /\ KnownAlone(next)
    BY <2>1, <2>2 DEF Known, KnownAlone, RequestType
  <2>4. request' = [request EXCEPT ![q] = next]
    BY <1>7 DEF StartReplace
  <2> QED BY <1>3, <1>7, <2>3, <2>4 DEF StartReplace, Rows
<1>8. CASE CheckInvitee(q) /\ ~End(q)
  <2> DEFINE next == [request[q] EXCEPT !.op = "check invite"]
  <2>1. /\ request[q].op = "invite"
        /\ request[q].user = NoOne \/ RowsOf(request[q].user) = {}
    BY <1>8 DEF CheckInvitee
  <2>2. /\ next \in RequestType /\ next.op = "check invite"
        /\ next.email = request[q].email /\ next.user = request[q].user
    BY <1>1, <2>1 DEF Known, RequestType
  <2> HIDE DEF next
  <2>4. ASSUME course = "alone", NEW u \in Users, email[u] = next.email PROVE RowsOf(u) = {}
    BY <1>1, <2>1, <2>2, <2>4, MembershipAssumption DEF KnownAlone
  <2>5. Known(next) /\ (course = "alone" => KnownAlone(next))
    BY <2>2, <2>4 DEF Known, KnownAlone
  <2>3. request' = [request EXCEPT ![q] = next]
    BY <1>8, <2>1 DEF CheckInvitee, MemIInv, RequestsKnown, next
  <2> QED BY <1>3, <1>8, <2>5, <2>3 DEF CheckInvitee, Rows
<1>9. CASE CheckEmail(q) /\ ~End(q)
  <2> DEFINE next == [request[q] EXCEPT !.op = "check member"]
  <2>1. request[q].op = "accept" /\ email[request[q].user] = request[q].row.email
    BY <1>9 DEF CheckEmail
  <2>2. <<request[q].user, request[q].row.email>> \in held
    BY <1>1, <2>1 DEF Known, RequestType, MemIInv, MailKnown
  <2>3. Known(next) /\ (course = "alone" => KnownAlone(next))
    BY <1>1, <2>1, <2>2 DEF Known, KnownAlone, RequestType
  <2>4. request' = [request EXCEPT ![q] = next]
    BY <1>9, <2>1 DEF CheckEmail, MemIInv, RequestsKnown
  <2> QED BY <1>3, <1>9, <2>3, <2>4 DEF CheckEmail, Rows
<1> QED BY <1>4, <1>5, <1>6, <1>7, <1>8, <1>9
        DEF CheckInvitee, CheckInvite, CheckEmail, CheckMember, StartReplace, Abandon, Rows

\* An account changes its address.
LEMMA AddressKeeps ==
  ASSUME MemIInv, NEW w \in Users, NEW a \in Addresses, ChangeEmail(w, a)
  PROVE  MemIInv'
<1>1. /\ members' = members /\ invites' = invites /\ roles' = roles /\ permits' = permits
      /\ request' = request /\ joined' = joined /\ given' = given /\ meant' = meant
      /\ course' = course /\ unchecked' = unchecked
      /\ email' = [email EXCEPT ![w] = a] /\ \A v \in Users : email[v] # a
      /\ held' = held \cup {<<w, a>>} /\ moved' = moved \cup RowsOf(w)
      /\ course = "alone" => \A q \in Requests : request[q] = Idle
  BY DEF ChangeEmail, rolesVars, history
<1>2. email \in [Users -> Addresses \cup {NoAddress}]
  BY DEF MemIInv, MemTypeOK
<1>3. MemTypeOK'
  BY <1>1, <1>2 DEF MemIInv, MemTypeOK, Present
<1>4. HistoryType' /\ RowsAreInvited' /\ AcceptedMadeMember' /\ GivenIsKept'
  BY <1>1 DEF MemIInv, HistoryType, RowsAreInvited, AcceptedMadeMember, GivenIsKept
<1>5. MailKnown'
  BY <1>1, <1>2 DEF MemIInv, MailKnown
<1>6. RequestsKnown'
  <2>1. \A q \in Requests : Known(request[q])'
    BY <1>1 DEF MemIInv, RequestsKnown, Known
  <2>2. course = "alone" => \A q \in Requests : KnownAlone(request[q])'
    BY <1>1, IdleType DEF KnownAlone
  <2> QED BY <1>1, <2>1, <2>2 DEF MemIInv, RequestsKnown, Idle
<1>7. OneWay'
  <2>1. /\ \A u \in Users : RowsOf(u)' = RowsOf(u)
        /\ \A b : Pending(b)' = Pending(b)
    BY <1>1 DEF RowsOf, Pending
  <2>2. \A u \in Users \ {w} : (Pending(email[u]))' = Pending(email[u])
    BY <1>1, <1>2 DEF Pending
  <2> QED BY <1>1, <2>1, <2>2 DEF MemIInv, OneWay
<1> QED BY <1>3, <1>4, <1>5, <1>6, <1>7 DEF MemIInv

-----------------------------------------------------------------------------
\* The steps that write.

\* An invite is made.
LEMMA CreateInviteKeeps ==
  ASSUME MemIInv, NEW q \in Requests, CreateInvite(q)
  PROVE  MemIInv'
<1> DEFINE r == request[q]
           new == Invite(r.email, r.predefined, r.role)
           n == Len(invites) + 1
<1>1. /\ members' = members /\ roles' = roles /\ permits' = permits
      /\ joined' = joined /\ given' = given /\ meant' = meant /\ course' = course
      /\ request' = [request EXCEPT ![q] = Idle] /\ UNCHANGED mailVars
  BY DEF CreateInvite, rolesVars, history, End
<1>0. email' = email /\ held' = held /\ moved' = moved /\ unchecked' = unchecked
  BY <1>1 DEF mailVars
<1>2. /\ MemTypeOK /\ HistoryType /\ RequestsKnown /\ MailKnown /\ RowsAreInvited
      /\ AcceptedMadeMember /\ OneWay /\ GivenIsKept
  BY DEF MemIInv
<1>3. CASE invites' = invites
  BY <1>1, <1>3, IdleKnows, GoesOn DEF Rows, rolesVars, history
<1>4. CASE /\ r.role \in Present \cup {NoRole} /\ Len(invites) < MaxInvites
           /\ invites' = Append(invites, new)
  <2>1. /\ r.op = "create invite" /\ r.email \in Addresses /\ new \in InviteType
        /\ new.email = r.email /\ new.status = "PENDING" /\ new.roleId = r.role
    BY <1>2 DEF CreateInvite, RequestsKnown, Known, RequestType, InviteType, Invite,
                PredefinedOrNone
  <2> HIDE DEF new
  <2>2. /\ invites' \in Seq(InviteType) /\ Len(invites') = n
        /\ DOMAIN invites' = DOMAIN invites \cup {n} /\ n \notin DOMAIN invites
        /\ \A i \in DOMAIN invites : invites'[i] = invites[i]
        /\ invites'[n] = new
    <3>1. new \in InviteType /\ invites \in Seq(InviteType) /\ invites' = Append(invites, new)
      BY <1>2, <1>4, <2>1 DEF MemTypeOK
    <3> QED BY <3>1, Appended
  <2>3. n <= MaxInvites /\ n \in 1 .. MaxInvites
    BY <1>2, <1>4, LenProperties, MembershipAssumption DEF MemTypeOK
  <2>4. r.role \in Present \cup {NoRole} /\ request[q] # Idle
    BY <1>4, <2>1, IdleType
  <2> HIDE DEF n
  <2>5. RequestsKnown'
    <3>1. /\ DOMAIN members \subseteq DOMAIN members' /\ DOMAIN invites \subseteq DOMAIN invites'
          /\ \A i \in DOMAIN invites : invites'[i].email = invites[i].email
      BY <1>1, <2>2
    <3> QED BY <1>0, <1>1, <1>2, <2>4, <3>1, RequestsStay
  <2>6. MemTypeOK'
    <3>1. \A i \in DOMAIN invites' : invites'[i].roleId \in Present \cup {NoRole}
      BY <1>2, <2>1, <2>2, <2>4 DEF MemTypeOK
    <3>2. \A p \in Requests : request'[p].op \in Ops
      BY <2>5, OpsOfRequests DEF RequestsKnown
    <3> QED BY <1>0, <1>1, <1>2, <2>2, <2>3, <3>1, <3>2 DEF MemTypeOK, Present
  <2>7. HistoryType' /\ GivenIsKept'
    BY <1>1, <1>2, <2>2 DEF HistoryType, GivenIsKept
  <2>8. MailKnown' /\ RowsAreInvited'
    <3>1. MailKnown'
      BY <1>0, <1>2 DEF MailKnown
    <3>2. ASSUME NEW m \in DOMAIN members, members[m].user \in Users \ {Owner}
          PROVE  \E i \in DOMAIN invites' : /\ <<members[m].user, invites'[i].email>> \in held
                                            /\ invites'[i].status = "ACCEPTED"
      BY <1>2, <2>2, <3>2 DEF RowsAreInvited
    <3> QED BY <1>0, <1>1, <3>1, <3>2 DEF RowsAreInvited
  <2>9. AcceptedMadeMember'
    <3>1. joined[n] = 0 /\ invites'[n].status = "PENDING"
      BY <1>2, <2>1, <2>2, <2>3 DEF HistoryType
    <3> QED BY <1>1, <1>2, <2>2, <3>1 DEF AcceptedMadeMember
  <2>10. OneWay'
    <3> SUFFICES ASSUME course = "alone" PROVE OneWay'
      BY <1>1 DEF OneWay
    <3>1. /\ \A u \in Users : email[u] = r.email => RowsOf(u) = {}
          /\ Pending(r.email) = {}
      BY <1>2, <2>1 DEF RequestsKnown, KnownAlone
    <3>2. \A u \in Users : RowsOf(u)' = RowsOf(u)
      BY <1>1 DEF RowsOf
    <3>3. ASSUME NEW a PROVE Pending(a)' = IF a = r.email THEN {n} ELSE Pending(a)
      <4>1. \A i \in DOMAIN invites' : i \in Pending(a)' <=>
              IF i = n THEN a = r.email ELSE i \in Pending(a)
        BY <2>1, <2>2 DEF Pending
      <4> QED BY <2>2, <3>1, <4>1 DEF Pending
    <3>4. \A u \in Users :
            (Pending(email[u]))' = IF email[u] = r.email THEN {n} ELSE Pending(email[u])
      BY <1>0, <3>3 DEF Pending
    <3> HIDE DEF r
    <3> QED BY <1>0, <1>2, <3>1, <3>2, <3>3, <3>4 DEF OneWay
  <2> QED BY <2>5, <2>6, <2>7, <2>8, <2>9, <2>10 DEF MemIInv
<1> QED BY <1>3, <1>4 DEF CreateInvite

\* A person joins.
LEMMA JoinKeeps ==
  ASSUME MemIInv, NEW q \in Requests, Join(q)
  PROVE  MemIInv'
<1> DEFINE r == request[q]
           new == Row(r.user, r.row.predefinedRole, r.row.roleId)
           n == Len(members) + 1
<1>1. /\ roles' = roles /\ permits' = permits /\ meant' = meant /\ course' = course
      /\ request' = [request EXCEPT ![q] = Idle] /\ UNCHANGED mailVars
  BY DEF Join, rolesVars, End
<1>0. email' = email /\ held' = held /\ moved' = moved /\ unchecked' = unchecked
  BY <1>1 DEF mailVars
<1>2. /\ MemTypeOK /\ HistoryType /\ RequestsKnown /\ MailKnown /\ RowsAreInvited
      /\ AcceptedMadeMember /\ OneWay /\ GivenIsKept
  BY DEF MemIInv
<1>3. CASE UNCHANGED <<members, invites, joined, given>>
  BY <1>1, <1>3, IdleKnows, GoesOn DEF Rows, rolesVars, history
<1>4. CASE /\ r.row.roleId \in Present \cup {NoRole} /\ Len(members) < MaxMembers
           /\ members' = Append(members, new)
           /\ invites' = [invites EXCEPT ![r.invite].status = "ACCEPTED"]
           /\ joined' = [joined EXCEPT ![r.invite] = @ + 1]
           /\ given' = [given EXCEPT ![n] = r.row.roleId]
  <2>1. /\ r.op = "join" /\ r.user \in Users /\ r.invite \in DOMAIN invites
        /\ r.invite \in 1 .. MaxInvites
        /\ invites[r.invite].email = r.row.email /\ r.row.email \in Addresses
        /\ <<r.user, r.row.email>> \in held /\ new \in RowType
        /\ new.user = r.user /\ new.roleId = r.row.roleId
    BY <1>2 DEF Join, RequestsKnown, Known, RequestType, InviteType, Row, RowType
  <2> HIDE DEF new
  <2>2. /\ members' \in Seq(RowType) /\ Len(members') = n
        /\ DOMAIN members' = DOMAIN members \cup {n} /\ n \notin DOMAIN members
        /\ \A m \in DOMAIN members : members'[m] = members[m]
        /\ members'[n] = new
    <3>1. new \in RowType /\ members \in Seq(RowType) /\ members' = Append(members, new)
      BY <1>2, <1>4, <2>1 DEF MemTypeOK
    <3> QED BY <3>1, Appended
  <2>3. n <= MaxMembers /\ n \in 1 .. MaxMembers
    BY <1>2, <1>4, LenProperties, MembershipAssumption DEF MemTypeOK
  <2>4. /\ r.row.roleId \in Present \cup {NoRole} /\ request[q] # Idle
        /\ joined' = [joined EXCEPT ![r.invite] = @ + 1]
        /\ given' = [given EXCEPT ![n] = r.row.roleId]
    BY <1>4, <2>1, IdleType
  <2> HIDE DEF n
  <2>5. /\ invites' \in Seq(InviteType) /\ Len(invites') = Len(invites)
        /\ DOMAIN invites' = DOMAIN invites
        /\ \A i \in DOMAIN invites :
             /\ invites'[i].email = invites[i].email
             /\ invites'[i].roleId = invites[i].roleId
             /\ invites'[i].status = IF i = r.invite THEN "ACCEPTED" ELSE invites[i].status
    <3>1. /\ invites \in Seq(InviteType) /\ r.invite \in 1 .. Len(invites)
          /\ DOMAIN invites = 1 .. Len(invites) /\ invites[r.invite] \in InviteType
      BY <1>2, <2>1, ElementOfSeq, LenProperties DEF MemTypeOK
    <3> DEFINE accepted == [invites[r.invite] EXCEPT !.status = "ACCEPTED"]
    <3>2. /\ accepted \in InviteType /\ accepted.email = invites[r.invite].email
          /\ accepted.roleId = invites[r.invite].roleId /\ accepted.status = "ACCEPTED"
      BY <3>1 DEF InviteType
    <3>3. invites' = [invites EXCEPT ![r.invite] = accepted]
      BY <1>4
    <3> HIDE DEF accepted
    <3> QED BY <3>1, <3>2, <3>3, ExceptSeq, LenProperties
  <2>6. RequestsKnown'
    <3>1. /\ DOMAIN members \subseteq DOMAIN members' /\ DOMAIN invites \subseteq DOMAIN invites'
          /\ \A i \in DOMAIN invites : invites'[i].email = invites[i].email
      BY <2>2, <2>5
    <3> QED BY <1>0, <1>1, <1>2, <2>4, <3>1, RequestsStay
  <2>7. MemTypeOK'
    <3>1. \A i \in DOMAIN invites' : invites'[i].roleId \in Present \cup {NoRole}
      BY <1>2, <2>5 DEF MemTypeOK
    <3>2. \A m \in DOMAIN members' : members'[m].roleId \in Present \cup {NoRole}
      BY <1>2, <2>1, <2>2, <2>4 DEF MemTypeOK
    <3>3. \A p \in Requests : request'[p].op \in Ops
      BY <2>6, OpsOfRequests DEF RequestsKnown
    <3> QED BY <1>0, <1>1, <1>2, <2>2, <2>3, <2>5, <3>1, <3>2, <3>3 DEF MemTypeOK, Present
  <2>8. HistoryType'
    <3>1. joined' \in [1 .. MaxInvites -> Nat]
      BY <1>2, <2>1, <2>4 DEF HistoryType
    <3>2. r.row.roleId \in Roles \cup {NoRole}
      BY <2>4 DEF Present
    <3>3. given' \in [1 .. MaxMembers -> Roles \cup {NoRole}]
      BY <1>2, <2>4, <3>2 DEF HistoryType
    <3>4. \A i \in (1 .. MaxInvites) \ DOMAIN invites' : joined'[i] = 0
      BY <1>2, <2>1, <2>4, <2>5 DEF HistoryType
    <3> QED BY <1>1, <1>2, <3>1, <3>3, <3>4 DEF HistoryType
  <2>9. MailKnown' /\ RowsAreInvited'
    <3>1. \A i \in DOMAIN invites :
            invites[i].status = "ACCEPTED" => invites'[i].status = "ACCEPTED"
      BY <2>5
    <3>2. /\ <<r.user, invites'[r.invite].email>> \in held
          /\ invites'[r.invite].status = "ACCEPTED"
      BY <2>1, <2>5
    <3>3. ASSUME NEW m \in DOMAIN members', members'[m].user \in Users \ {Owner}
          PROVE  \E i \in DOMAIN invites' :
                   /\ <<members'[m].user, invites'[i].email>> \in held
                   /\ invites'[i].status = "ACCEPTED"
      <4>1. CASE m = n
        BY <2>1, <2>2, <2>5, <3>2, <4>1
      <4>2. CASE m \in DOMAIN members
        BY <1>2, <2>2, <2>5, <3>1, <3>3, <4>2 DEF RowsAreInvited
      <4> QED BY <2>2, <4>1, <4>2
    <3> QED BY <1>0, <1>2, <3>3 DEF MailKnown, RowsAreInvited
  <2>10. AcceptedMadeMember'
    <3>1. joined \in [1 .. MaxInvites -> Nat] /\ DOMAIN invites \subseteq 1 .. MaxInvites
      BY <1>2, RowTypes DEF HistoryType
    <3>2. \A i \in DOMAIN invites :
            joined'[i] = IF i = r.invite THEN joined[i] + 1 ELSE joined[i]
      BY <2>4, <3>1
    <3>3. course = "alone" => joined[r.invite] = 0
      <4>1. joined[r.invite] \in Nat /\ r.invite \in DOMAIN invites
        BY <2>1, <3>1
      <4>2. course = "alone" => invites[r.invite].status = "PENDING"
        BY <1>2, <2>1 DEF RequestsKnown, KnownAlone
      <4> QED BY <1>2, <4>1, <4>2 DEF AcceptedMadeMember
    <3> QED BY <1>1, <1>2, <2>1, <2>5, <3>1, <3>2, <3>3 DEF AcceptedMadeMember
  <2>11. OneWay'
    <3> SUFFICES ASSUME course = "alone" PROVE OneWay'
      BY <1>1 DEF OneWay
    <3>1. RowsOf(r.user) = {} /\ email[r.user] = r.row.email
      BY <1>2, <2>1 DEF RequestsKnown, KnownAlone
    <3>2. r.invite \in Pending(r.row.email)
      BY <1>2, <2>1 DEF RequestsKnown, KnownAlone, Pending
    <3>3. ASSUME NEW u \in Users
          PROVE  RowsOf(u)' = IF u = r.user THEN {n} ELSE RowsOf(u)
      <4>1. \A m \in DOMAIN members' : m \in RowsOf(u)' <=>
              IF m = n THEN u = r.user ELSE m \in RowsOf(u)
        BY <2>1, <2>2 DEF RowsOf
      <4> QED BY <2>2, <3>1, <4>1 DEF RowsOf
    <3>4. \A a : Pending(a)' = Pending(a) \ {r.invite}
      BY <2>5 DEF Pending
    <3>5. \A u \in Users : (Pending(email[u]))' = Pending(email[u]) \ {r.invite}
      BY <1>0, <2>5 DEF Pending
    <3>6. ASSUME NEW u \in Users, u = r.user PROVE (Pending(email[u]))' \subseteq unchecked
      <4>1. \/ \A i, j \in Pending(r.row.email) : i = j
            \/ Pending(r.row.email) \subseteq unchecked
        BY <1>2, <2>1 DEF OneWay
      <4>2. (Pending(email[u]))' = Pending(r.row.email) \ {r.invite}
        BY <3>1, <3>5, <3>6
      <4> QED BY <3>2, <4>1, <4>2
    <3>7. ASSUME NEW u \in Users
          PROVE  /\ \A m, k \in RowsOf(u)' : m = k
                 /\ RowsOf(u)' \subseteq moved \/ (Pending(email[u]))' \subseteq unchecked
      <4>1. CASE u = r.user
        BY <3>3, <3>6, <4>1
      <4>2. CASE u # r.user
        <5>1. /\ \A m, k \in RowsOf(u) : m = k
              /\ RowsOf(u) \subseteq moved \/ Pending(email[u]) \subseteq unchecked
          BY <1>2 DEF OneWay
        <5> QED BY <3>3, <3>5, <4>2, <5>1
      <4> QED BY <4>1, <4>2
    <3>8. ASSUME NEW a \in Addresses
          PROVE  (\A i, j \in Pending(a)' : i = j) \/ Pending(a)' \subseteq unchecked
      <4>1. (\A i, j \in Pending(a) : i = j) \/ Pending(a) \subseteq unchecked
        BY <1>2 DEF OneWay
      <4> QED BY <3>4, <4>1
    <3> QED BY <1>0, <3>7, <3>8 DEF OneWay
  <2>12. GivenIsKept'
    <3> SUFFICES ASSUME course = "alone" PROVE GivenIsKept'
      BY <1>1 DEF GivenIsKept
    <3>1. \A m \in DOMAIN members :
            m \in 1 .. MaxMembers /\ given'[m] = given[m] /\ members'[m].roleId = given[m]
      BY <1>2, <2>2, <2>4, RowTypes DEF GivenIsKept, HistoryType
    <3>2. members'[n].roleId = given'[n]
      BY <1>2, <2>1, <2>2, <2>3, <2>4 DEF HistoryType
    <3> QED BY <1>1, <1>2, <2>2, <3>1, <3>2 DEF GivenIsKept
  <2> QED BY <2>6, <2>7, <2>8, <2>9, <2>10, <2>11, <2>12 DEF MemIInv
<1> QED BY <1>3, <1>4 DEF Join

\* Rows and invites that lose or keep a role, and roles and permissions that change, with
\* nobody coming: what is left to show is that of the roles.
LEMMA RolesKeep ==
  ASSUME MemIInv, NEW q \in Requests, request' = [request EXCEPT ![q] = Idle],
         request[q] # Idle, course' = course, joined' = joined, UNCHANGED mailVars,
         members' \in Seq(RowType), DOMAIN members' = DOMAIN members,
         invites' \in Seq(InviteType), DOMAIN invites' = DOMAIN invites,
         \A m \in DOMAIN members : members'[m].user \in {members[m].user, NoOne},
         \A i \in DOMAIN invites : /\ invites'[i].email = invites[i].email
                                   /\ invites'[i].status = invites[i].status,
         \A m \in DOMAIN members : members'[m].roleId \in Present' \cup {NoRole},
         \A i \in DOMAIN invites : invites'[i].roleId \in Present' \cup {NoRole},
         roles' \in [Roles -> {"unmade", "made", "deleted"}],
         permits' \in [Roles -> SUBSET Permissions],
         \A r \in Roles \ Present' : permits'[r] = {},
         given' \in [1 .. MaxMembers -> Roles \cup {NoRole}],
         meant' \in [Roles -> SUBSET Permissions],
         GivenIsKept'
  PROVE  MemIInv'
<1>0. email' = email /\ held' = held
  BY DEF mailVars
<1>1. RequestsKnown'
  BY <1>0, RequestsStay DEF MemIInv
<1>2. MailKnown' /\ RowsAreInvited' /\ AcceptedMadeMember' /\ OneWay'
  BY NobodyComes
<1>3. HistoryType'
  BY DEF MemIInv, HistoryType
<1>4. Len(members') = Len(members) /\ Len(invites') = Len(invites)
  <2>1. /\ Len(members) \in Nat /\ Len(members') \in Nat
        /\ DOMAIN members = 1 .. Len(members) /\ DOMAIN members' = 1 .. Len(members')
    BY LenProperties, RowTypes DEF MemIInv
  <2>2. /\ Len(invites) \in Nat /\ Len(invites') \in Nat
        /\ DOMAIN invites = 1 .. Len(invites) /\ DOMAIN invites' = 1 .. Len(invites')
    BY LenProperties, RowTypes DEF MemIInv
  <2> QED BY <2>1, <2>2
<1>5. \A p \in Requests : request'[p].op \in Ops
  BY <1>1, OpsOfRequests DEF RequestsKnown
<1>6. MemTypeOK'
  BY <1>0, <1>4, <1>5 DEF MemIInv, MemTypeOK
<1> QED BY <1>1, <1>2, <1>3, <1>6 DEF MemIInv

\* A row of the members that is written over.
LEMMA RowWritten ==
  ASSUME MemIInv, NEW m \in DOMAIN members, NEW row \in RowType,
         row.user \in {members[m].user, NoOne}, row.roleId \in Present \cup {NoRole},
         members' = [members EXCEPT ![m] = row]
  PROVE  /\ members' \in Seq(RowType) /\ DOMAIN members' = DOMAIN members
         /\ \A k \in DOMAIN members :
              /\ members'[k] = IF k = m THEN row ELSE members[k]
              /\ members'[k].user \in {members[k].user, NoOne}
              /\ members'[k].roleId \in Present \cup {NoRole}
<1>1. /\ members \in Seq(RowType) /\ m \in 1 .. Len(members)
      /\ DOMAIN members = 1 .. Len(members)
      /\ \A k \in DOMAIN members : members[k].roleId \in Present \cup {NoRole}
  BY RowTypes DEF MemIInv, MemTypeOK
<1>2. /\ members' \in Seq(RowType) /\ DOMAIN members' = DOMAIN members
      /\ \A k \in DOMAIN members : members'[k] = IF k = m THEN row ELSE members[k]
  BY <1>1, ExceptSeq, LenProperties
<1> QED BY <1>1, <1>2

\* A member's row is written, with the role he was given.
RowBecomes(q, m, row) ==
  /\ request[q] # Idle /\ request' = [request EXCEPT ![q] = Idle]
  /\ members' = [members EXCEPT ![m] = row]
  /\ row.user \in {members[m].user, NoOne} /\ row.roleId \in Present \cup {NoRole}
  /\ \/ given' = [given EXCEPT ![m] = row.roleId]
     \/ given' = given /\ row.roleId = members[m].roleId
  /\ UNCHANGED <<invites, rolesVars, joined, meant, mailVars, course>>

LEMMA RowKeeps ==
  ASSUME MemIInv, NEW q \in Requests, NEW m \in DOMAIN members, NEW row \in RowType,
         RowBecomes(q, m, row)
  PROVE  MemIInv'
<1> USE DEF RowBecomes
<1>1. /\ invites' = invites /\ roles' = roles /\ permits' = permits /\ joined' = joined
      /\ meant' = meant /\ course' = course /\ UNCHANGED mailVars
  BY DEF rolesVars
<1>2. /\ members' \in Seq(RowType) /\ DOMAIN members' = DOMAIN members
      /\ \A k \in DOMAIN members :
           /\ members'[k] = IF k = m THEN row ELSE members[k]
           /\ members'[k].user \in {members[k].user, NoOne}
           /\ members'[k].roleId \in Present \cup {NoRole}
  BY RowWritten
<1>3. m \in 1 .. MaxMembers /\ DOMAIN members \subseteq 1 .. MaxMembers
  BY RowTypes DEF MemIInv
<1>4. given' \in [1 .. MaxMembers -> Roles \cup {NoRole}]
  BY <1>3 DEF MemIInv, HistoryType, Present
<1>5. GivenIsKept'
  BY <1>1, <1>2, <1>3 DEF MemIInv, GivenIsKept, HistoryType
<1>6. Present' = Present /\ invites \in Seq(InviteType)
      /\ \A i \in DOMAIN invites : invites[i].roleId \in Present \cup {NoRole}
  BY <1>1 DEF Present, MemIInv, MemTypeOK
<1>7. /\ roles \in [Roles -> {"unmade", "made", "deleted"}]
      /\ permits \in [Roles -> SUBSET Permissions]
      /\ \A r \in Roles \ Present : permits[r] = {}
      /\ meant \in [Roles -> SUBSET Permissions]
  BY DEF MemIInv, MemTypeOK, HistoryType
<1> QED BY <1>1, <1>2, <1>4, <1>5, <1>6, <1>7, RolesKeep

\* Roles and permissions are written, and no row.
LEMMA PermitsKeep ==
  ASSUME MemIInv, NEW q \in Requests, request' = [request EXCEPT ![q] = Idle],
         request[q] # Idle, UNCHANGED <<members, invites, joined, given, mailVars, course>>,
         roles' \in [Roles -> {"unmade", "made", "deleted"}], Present \subseteq Present',
         permits' \in [Roles -> SUBSET Permissions],
         \A r \in Roles \ Present' : permits'[r] = {},
         meant' \in [Roles -> SUBSET Permissions],
         course = "alone" => permits' = meant'
  PROVE  MemIInv'
<1>1. /\ invites' = invites /\ members' = members /\ joined' = joined
      /\ given' = given /\ course' = course /\ UNCHANGED mailVars
  OBVIOUS
<1>2. /\ members \in Seq(RowType) /\ invites \in Seq(InviteType)
      /\ \A m \in DOMAIN members : members[m].roleId \in Present \cup {NoRole}
      /\ \A i \in DOMAIN invites : invites[i].roleId \in Present \cup {NoRole}
      /\ given \in [1 .. MaxMembers -> Roles \cup {NoRole}]
  BY DEF MemIInv, MemTypeOK, HistoryType
<1>3. GivenIsKept'
  BY <1>1 DEF MemIInv, GivenIsKept
<1> QED BY <1>1, <1>2, <1>3, RolesKeep

\* A role is written to a member, or he is removed.
LEMMA MembersKeep ==
  ASSUME MemIInv, NEW q \in Requests, WriteRole(q) \/ WriteAssignment(q) \/ DeleteMember(q)
  PROVE  MemIInv'
<1> DEFINE r == request[q]
           m == r.member
<1>1. /\ request' = [request EXCEPT ![q] = Idle]
      /\ UNCHANGED <<invites, rolesVars, joined, meant, mailVars, course>>
  BY DEF WriteRole, WriteAssignment, DeleteMember, End
<1>2. /\ r.op \in {"update", "assign role", "remove"} /\ request[q] # Idle
      /\ m \in DOMAIN members /\ members[m] \in RowType
      /\ r \in RequestType
  BY RowTypes, IdleType
  DEF WriteRole, WriteAssignment, DeleteMember, MemIInv, RequestsKnown, Known
<1>3. CASE UNCHANGED <<members, given>>
  BY <1>1, <1>3, IdleKnows, GoesOn DEF Rows, rolesVars, history
<1>4. CASE DeleteMember(q)
  <2>1. /\ Removed \in RowType /\ Removed.user = NoOne /\ Removed.roleId = NoRole
        /\ members' = [members EXCEPT ![m] = Removed]
        /\ given' = [given EXCEPT ![m] = Removed.roleId]
    BY <1>4 DEF DeleteMember, Removed, Row, RowType
  <2>2. RowBecomes(q, m, Removed)
    BY <1>1, <1>2, <2>1 DEF RowBecomes
  <2> QED BY <1>2, <2>1, <2>2, RowKeeps
<1>5. CASE WriteAssignment(q) /\ ~UNCHANGED <<members, given>>
  <2> DEFINE row == [members[m] EXCEPT !.predefinedRole = NoPredefined, !.roleId = r.role]
  <2>1. /\ members' = [members EXCEPT ![m] = row] /\ given' = [given EXCEPT ![m] = r.role]
        /\ r.role \in Present
    BY <1>5 DEF WriteAssignment
  <2>2. /\ row \in RowType /\ row.user = members[m].user /\ row.roleId = r.role
    BY <1>2, <2>1 DEF RowType, Present
  <2> HIDE DEF row
  <2>3. RowBecomes(q, m, row)
    BY <1>1, <1>2, <2>1, <2>2 DEF RowBecomes
  <2> QED BY <1>2, <2>2, <2>3, RowKeeps
<1>6. CASE WriteRole(q) /\ ~UNCHANGED <<members, given>>
  <2> DEFINE row == [members[m] EXCEPT
                       !.predefinedRole = IF r.predefined = NoPredefined THEN @ ELSE r.predefined,
                       !.roleId = IF r.role = NoRole THEN @ ELSE r.role]
  <2>1. /\ members' = [members EXCEPT ![m] = row]
        /\ given' = [given EXCEPT ![m] = IF r.role = NoRole THEN @ ELSE r.role]
        /\ r.role \in Present \cup {NoRole} /\ r.op = "update"
    BY <1>6 DEF WriteRole
  <2>2. r.predefined \in PredefinedOrNone
    BY <1>2, <2>1 DEF RequestType
  <2>3. /\ row \in RowType /\ row.user = members[m].user
        /\ row.roleId = IF r.role = NoRole THEN members[m].roleId ELSE r.role
    BY <1>2, <2>1, <2>2 DEF RowType, Present, PredefinedOrNone
  <2>4. members[m].roleId \in Present \cup {NoRole}
    BY <1>2 DEF MemIInv, MemTypeOK
  <2> HIDE DEF row
  <2>5. CASE r.role = NoRole
    <3>1. given' = given /\ row.roleId = members[m].roleId
      BY <2>1, <2>3, <2>5 DEF MemIInv, HistoryType
    <3>2. RowBecomes(q, m, row)
      BY <1>1, <1>2, <2>1, <2>3, <2>4, <3>1 DEF RowBecomes
    <3> QED BY <1>2, <2>3, <3>2, RowKeeps
  <2>6. CASE r.role # NoRole
    <3>1. given' = [given EXCEPT ![m] = row.roleId]
      BY <2>1, <2>3, <2>6
    <3>2. RowBecomes(q, m, row)
      BY <1>1, <1>2, <2>1, <2>3, <2>4, <3>1 DEF RowBecomes
    <3> QED BY <1>2, <2>3, <3>2, RowKeeps
  <2> QED BY <2>5, <2>6
<1> QED BY <1>3, <1>4, <1>5, <1>6

\* A role is made, or permissions are taken from one.
LEMMA RolesAndPermissionsKeep ==
  ASSUME MemIInv, NEW q \in Requests, InsertRole(q) \/ DeletePermissions(q)
  PROVE  MemIInv'
<1> DEFINE r == request[q]
<1>1. /\ request' = [request EXCEPT ![q] = Idle]
      /\ UNCHANGED <<members, invites, joined, given, mailVars, course>>
      /\ r # Idle /\ r.role \in Roles
  BY IdleType
  DEF InsertRole, DeletePermissions, End, history, MemIInv, RequestsKnown, Known, RequestType
<1>2. /\ roles \in [Roles -> {"unmade", "made", "deleted"}]
      /\ permits \in [Roles -> SUBSET Permissions] /\ meant \in [Roles -> SUBSET Permissions]
      /\ \A role \in Roles \ Present : permits[role] = {}
      /\ course = "alone" => permits = meant
  BY DEF MemIInv, MemTypeOK, HistoryType, GivenIsKept
<1>3. CASE InsertRole(q)
  <2>1. /\ roles' = [roles EXCEPT ![r.role] = IF @ = "unmade" THEN "made" ELSE @]
        /\ permits' = permits /\ meant' = meant
    BY <1>3 DEF InsertRole, history
  <2>2. Present \subseteq Present' /\ roles' \in [Roles -> {"unmade", "made", "deleted"}]
    BY <1>2, <2>1 DEF Present
  <2> QED BY <1>1, <1>2, <2>1, <2>2, PermitsKeep
<1>4. CASE DeletePermissions(q)
  <2>1. /\ permits' = [permits EXCEPT ![r.role] = @ \ r.set]
        /\ meant' = [meant EXCEPT ![r.role] = @ \ r.set] /\ roles' = roles
    BY <1>4 DEF DeletePermissions
  <2>2. /\ permits' \in [Roles -> SUBSET Permissions] /\ meant' \in [Roles -> SUBSET Permissions]
        /\ \A role \in Roles \ Present : permits'[role] = {}
    BY <1>1, <1>2, <2>1
  <2>3. Present' = Present
    BY <2>1 DEF Present
  <2>4. course = "alone" => permits' = meant'
    BY <1>2, <2>1
  <2> QED BY <1>1, <1>2, <2>1, <2>2, <2>3, <2>4, PermitsKeep
<1> QED BY <1>3, <1>4

\* A role is deleted, and taken from whoever has it.
LEMMA DropRoleKeeps ==
  ASSUME MemIInv, NEW q \in Requests, DropRole(q)
  PROVE  MemIInv'
<1> DEFINE r == request[q].role
<1>1. /\ request' = [request EXCEPT ![q] = Idle]
      /\ joined' = joined /\ given' = given /\ course' = course /\ UNCHANGED mailVars
      /\ request[q] # Idle /\ request[q].op = "delete role" /\ r \in Roles
  BY IdleType DEF DropRole, End, MemIInv, RequestsKnown, Known, RequestType
<1>2. /\ roles' = [roles EXCEPT ![r] = "deleted"]
      /\ permits' = [permits EXCEPT ![r] = {}] /\ meant' = [meant EXCEPT ![r] = {}]
      /\ members' = [m \in DOMAIN members |-> Without(members[m], r)]
      /\ invites' = [i \in DOMAIN invites |-> Without(invites[i], r)]
  BY DEF DropRole
<1> HIDE DEF r
<1>3. /\ roles \in [Roles -> {"unmade", "made", "deleted"}]
      /\ permits \in [Roles -> SUBSET Permissions] /\ meant \in [Roles -> SUBSET Permissions]
      /\ \A role \in Roles \ Present : permits[role] = {}
      /\ given \in [1 .. MaxMembers -> Roles \cup {NoRole}]
      /\ \A m \in DOMAIN members : members[m].roleId \in Present \cup {NoRole}
      /\ \A i \in DOMAIN invites : invites[i].roleId \in Present \cup {NoRole}
  BY DEF MemIInv, MemTypeOK, HistoryType
<1>4. /\ roles' \in [Roles -> {"unmade", "made", "deleted"}]
      /\ permits' \in [Roles -> SUBSET Permissions] /\ meant' \in [Roles -> SUBSET Permissions]
      /\ Present' = Present \ {r}
      /\ \A role \in Roles \ Present' : permits'[role] = {}
  BY <1>1, <1>2, <1>3 DEF Present
<1>5. ASSUME NEW row \in RowType
      PROVE  /\ Without(row, r) \in RowType /\ Without(row, r).user = row.user
             /\ Without(row, r).roleId = IF row.roleId = r THEN NoRole ELSE row.roleId
  BY DEF Without, RowType
<1>6. ASSUME NEW row \in InviteType
      PROVE  /\ Without(row, r) \in InviteType /\ Without(row, r).email = row.email
             /\ Without(row, r).status = row.status
             /\ Without(row, r).roleId = IF row.roleId = r THEN NoRole ELSE row.roleId
  BY DEF Without, InviteType
<1>7. /\ members' \in Seq(RowType) /\ DOMAIN members' = DOMAIN members
      /\ \A m \in DOMAIN members :
           /\ members'[m].user = members[m].user
           /\ members'[m].roleId = IF members[m].roleId = r THEN NoRole ELSE members[m].roleId
  <2>1. /\ Len(members) \in Nat /\ DOMAIN members = 1 .. Len(members)
        /\ \A m \in DOMAIN members : members[m] \in RowType
    BY RowTypes DEF MemIInv
  <2>2. members' \in [1 .. Len(members) -> RowType]
    BY <1>2, <1>5, <2>1
  <2>3. members' \in Seq(RowType)
    BY <2>1, <2>2, SeqDef
  <2> QED BY <1>2, <1>5, <2>1, <2>3
<1>8. /\ invites' \in Seq(InviteType) /\ DOMAIN invites' = DOMAIN invites
      /\ \A i \in DOMAIN invites :
           /\ invites'[i].email = invites[i].email
           /\ invites'[i].status = invites[i].status
           /\ invites'[i].roleId = IF invites[i].roleId = r THEN NoRole ELSE invites[i].roleId
  <2>1. /\ Len(invites) \in Nat /\ DOMAIN invites = 1 .. Len(invites)
        /\ \A i \in DOMAIN invites : invites[i] \in InviteType
    BY RowTypes DEF MemIInv
  <2>2. invites' \in [1 .. Len(invites) -> InviteType]
    BY <1>2, <1>6, <2>1
  <2>3. invites' \in Seq(InviteType)
    BY <2>1, <2>2, SeqDef
  <2> QED BY <1>2, <1>6, <2>1, <2>3
<1>9. GivenIsKept'
  <2> SUFFICES ASSUME course = "alone" PROVE GivenIsKept'
    BY <1>1 DEF GivenIsKept
  <2>1. HasRole(r) = {}
    BY <1>1 DEF MemIInv, RequestsKnown, KnownAlone, r
  <2>2. \A m \in DOMAIN members : members'[m].roleId = members[m].roleId
    BY <1>7, <2>1 DEF HasRole
  <2>3. permits' = meant'
    BY <1>2 DEF MemIInv, GivenIsKept
  <2> QED BY <1>1, <1>7, <2>2, <2>3 DEF MemIInv, GivenIsKept
<1>10. /\ \A m \in DOMAIN members : members'[m].roleId \in Present' \cup {NoRole}
       /\ \A i \in DOMAIN invites : invites'[i].roleId \in Present' \cup {NoRole}
  BY <1>3, <1>4, <1>7, <1>8
<1>11. \A m \in DOMAIN members : members'[m].user \in {members[m].user, NoOne}
  BY <1>7
<1> QED BY <1>1, <1>3, <1>4, <1>7, <1>8, <1>9, <1>10, <1>11, RolesKeep

\* A replacement of permissions ends.
LEMMA ReplaceKeeps ==
  ASSUME MemIInv, NEW q \in Requests, CommitReplace(q)
  PROVE  MemIInv'
<1> DEFINE r == request[q].role
           set == request[q].set
           kept == permits[r] \ request[q].old
<1>1. /\ members' = members /\ invites' = invites /\ roles' = roles /\ joined' = joined
      /\ given' = given /\ course' = course /\ UNCHANGED mailVars
      /\ request[q].op = "replace" /\ request[q] # Idle
      /\ r \in Roles /\ set \in SUBSET Permissions
  BY IdleType DEF CommitReplace, MemIInv, RequestsKnown, Known, RequestType
<1>0. email' = email /\ held' = held /\ moved' = moved /\ unchecked' = unchecked
  BY <1>1 DEF mailVars
<1>2. CASE End(q) /\ UNCHANGED <<permits, meant>>
  BY <1>1, <1>2, IdleKnows, GoesOn DEF End, Rows, rolesVars, history
<1>3. CASE /\ r \in Present
           /\ permits' = [permits EXCEPT ![r] = kept \cup set]
           /\ meant' = [meant EXCEPT ![r] = set]
           /\ request' = [p \in Requests |->
                IF p = q THEN Idle
                ELSE IF request[p].op = "replace" /\ request[p].role = r
                THEN [request[p] EXCEPT !.old = {}] ELSE request[p]]
  <2>1. /\ permits \in [Roles -> SUBSET Permissions] /\ meant \in [Roles -> SUBSET Permissions]
        /\ \A role \in Roles \ Present : permits[role] = {}
    BY DEF MemIInv, MemTypeOK, HistoryType
  <2>2. /\ permits' \in [Roles -> SUBSET Permissions] /\ meant' \in [Roles -> SUBSET Permissions]
        /\ \A role \in Roles \ Present : permits'[role] = {}
    BY <1>1, <1>3, <2>1 DEF Present
  <2>3. course = "alone" => kept = {}
    BY <1>1 DEF MemIInv, RequestsKnown, KnownAlone
  <2>4. course = "alone" => permits' = meant'
    BY <1>3, <2>3 DEF MemIInv, GivenIsKept
  <2>5. CASE course = "alone"
    <3>1. \A p \in Requests \ {q} : request[p] = Idle
      BY <1>1, <2>5 DEF MemIInv, RequestsKnown
    <3>2. request' = [request EXCEPT ![q] = Idle]
      BY <1>3, <3>1, IdleType DEF MemIInv, RequestsKnown
    <3>3. Present' = Present /\ roles \in [Roles -> {"unmade", "made", "deleted"}]
      BY <1>1 DEF Present, MemIInv, MemTypeOK
    <3> HIDE DEF r, set, kept
    <3> QED BY <1>1, <2>2, <2>4, <2>5, <3>2, <3>3, PermitsKeep
  <2>6. CASE course # "alone"
    <3>1. ASSUME NEW p \in Requests PROVE Known(request[p])'
      <4>1. CASE p = q
        BY <1>3, <4>1, IdleType DEF Known
      <4>2. CASE p # q /\ request[p].op = "replace" /\ request[p].role = r
        <5>1. request'[p] = [request[p] EXCEPT !.old = {}]
          BY <1>3, <4>2
        <5>2. request[p] \in RequestType
          BY DEF MemIInv, RequestsKnown
        <5>3. request'[p] \in RequestType /\ request'[p].op = "replace"
          BY <4>2, <5>1, <5>2 DEF RequestType
        <5> QED BY <5>3 DEF Known
      <4>3. CASE p # q /\ ~ (request[p].op = "replace" /\ request[p].role = r)
        <5>1. request'[p] = request[p]
          BY <1>3, <4>3
        <5> QED BY <1>0, <1>1, <5>1 DEF MemIInv, RequestsKnown, Known
      <4> QED BY <4>1, <4>2, <4>3
    <3>2. request' \in [Requests -> RequestType]
      BY <1>3, <3>1 DEF Known
    <3>3. RequestsKnown'
      BY <1>1, <2>6, <3>1, <3>2 DEF RequestsKnown
    <3>4. HistoryType' /\ GivenIsKept'
      BY <1>1, <2>2, <2>6 DEF MemIInv, HistoryType, GivenIsKept
    <3>5. MemTypeOK'
      <4>1. \A p \in Requests : request'[p].op \in Ops
        BY <3>2, OpsOfRequests
      <4> QED BY <1>0, <1>1, <2>2, <4>1 DEF MemIInv, MemTypeOK, Present
    <3>6. MailKnown' /\ RowsAreInvited' /\ AcceptedMadeMember' /\ OneWay'
      BY <1>0, <1>1, <2>6 DEF MemIInv, MailKnown, RowsAreInvited, AcceptedMadeMember, OneWay
    <3> QED BY <3>3, <3>4, <3>5, <3>6 DEF MemIInv
  <2> QED BY <2>5, <2>6
<1> QED BY <1>2, <1>3 DEF CommitReplace

-----------------------------------------------------------------------------
\* Every step.
LEMMA MemStepKeeps == MemIInv /\ [MemNext]_memVars => MemIInv'
<1> SUFFICES ASSUME MemIInv, [MemNext]_memVars PROVE MemIInv'
  OBVIOUS
<1>1. CASE UNCHANGED memVars
  <2>1. /\ members' = members /\ invites' = invites /\ roles' = roles /\ permits' = permits
        /\ request' = request /\ joined' = joined /\ given' = given /\ meant' = meant
        /\ course' = course
        /\ email' = email /\ held' = held /\ moved' = moved /\ unchecked' = unchecked
    BY <1>1 DEF memVars, rolesVars, history, mailVars
  <2>2. /\ MemTypeOK' /\ HistoryType' /\ MailKnown' /\ RowsAreInvited' /\ AcceptedMadeMember'
        /\ GivenIsKept'
    BY <2>1 DEF MemIInv, MemTypeOK, HistoryType, MailKnown, RowsAreInvited,
                AcceptedMadeMember, GivenIsKept, Present
  <2>3. OneWay'
    BY <2>1 DEF MemIInv, OneWay, RowsOf, Pending
  <2>4. ASSUME NEW q \in Requests
        PROVE  Known(request[q])' = Known(request[q])
               /\ KnownAlone(request[q])' = KnownAlone(request[q])
    BY <2>1 DEF Known, KnownAlone, RowsOf, Pending, HasRole
  <2>5. RequestsKnown'
    BY <2>1, <2>4 DEF MemIInv, RequestsKnown, Idle
  <2> QED BY <2>2, <2>3, <2>5 DEF MemIInv
<1>2. ASSUME NEW q \in Requests, Ask(q) PROVE MemIInv'
  BY <1>2, AskKeeps
<1>3. ASSUME NEW q \in Requests, Step(q) PROVE MemIInv'
  BY <1>3, LooksKeep, CreateInviteKeeps, JoinKeeps, MembersKeep, RolesAndPermissionsKeep,
     DropRoleKeeps, ReplaceKeeps DEF Step
<1>4. ASSUME NEW u \in Users, NEW a \in Addresses, ChangeEmail(u, a) PROVE MemIInv'
  BY <1>4, AddressKeeps
<1> QED BY <1>1, <1>2, <1>3, <1>4 DEF MemNext

\* The invariant holds always.
THEOREM MemInvariant == MemSpec => []MemIInv
BY MemInitHolds, MemStepKeeps, PTL DEF MemSpec

\* Types, and the keys of the schema: no member and no invite has a role that is gone.
THEOREM MemTypeCorrect == MemSpec => []MemTypeOK
<1>1. MemIInv => MemTypeOK
  BY DEF MemIInv
<1> QED BY <1>1, MemInvariant, PTL

\* Who may do anything here is the owner, or has accepted an invite to an
\* address that his account had.
THEOREM AccessNeedsInvite == MemSpec => []AccessIsInvited
<1>1. MemIInv => AccessIsInvited
  BY DEF MemIInv, RowsAreInvited, AccessIsInvited, MayAct, RowsOf
<1> QED BY <1>1, MemInvariant, PTL

\* An invite is ACCEPTED when it has made a member, and only then.
THEOREM AcceptedIsJoined == MemSpec => []AcceptedMadeMember
<1>1. MemIInv => AcceptedMadeMember
  BY DEF MemIInv
<1> QED BY <1>1, MemInvariant, PTL

\* One request at a time, an account has one row, and no pending invite beside it if it has
\* kept its address since it joined; an address has one pending invite.  The invites that
\* createOrg sent unchecked are left out of both.
THEOREM OneWayInOnly == MemSpec => []OneWayIn
<1>1. MemIInv => OneWayIn
  <2> SUFFICES ASSUME MemIInv, course = "alone" PROVE OneWayIn
    BY DEF OneWayIn
  <2>1. ASSUME NEW S, \A x, y \in S : x = y
        PROVE  Cardinality(S) <= 1
    <3>1. CASE S = {}
      BY <3>1, FS_EmptySet
    <3>2. ASSUME NEW x \in S PROVE Cardinality(S) <= 1
      <4>1. S = {x}
        BY <2>1, <3>2
      <4>2. Cardinality(S) = 1
        BY <4>1, FS_Singleton
      <4> QED BY <4>2
    <3> QED BY <3>1, <3>2
  <2>2. /\ \A u \in Users :
             /\ \A m, n \in RowsOf(u) : m = n
             /\ RowsOf(u) \subseteq moved \/ Pending(email[u]) \subseteq unchecked
        /\ \A a \in Addresses :
             (\A i, j \in Pending(a) : i = j) \/ Pending(a) \subseteq unchecked
    BY DEF MemIInv, OneWay
  <2>3. ASSUME NEW u \in Users PROVE Cardinality(RowsOf(u)) <= 1
    <3>1. \A m, n \in RowsOf(u) : m = n
      BY <2>2
    <3> QED BY ONLY <2>1, <3>1, Zenon
  <2>4. ASSUME NEW a \in Addresses, ~ (Pending(a) \subseteq unchecked)
        PROVE  Cardinality(Pending(a)) <= 1
    <3>1. \A i, j \in Pending(a) : i = j
      BY <2>2, <2>4
    <3> QED BY ONLY <2>1, <3>1, Zenon
  <2> QED BY <2>2, <2>3, <2>4 DEF OneWayIn
<1> QED BY <1>1, MemInvariant, PTL

\* One request at a time, no role and no permission that was given is lost.
THEOREM RolesAreKept == MemSpec => []GivenIsKept
<1>1. MemIInv => GivenIsKept
  BY DEF MemIInv
<1> QED BY <1>1, MemInvariant, PTL
=============================================================================
