--------------------------- MODULE AccountsProofs ---------------------------
(* Sessions, tokens and administrators, for any number of accounts.        *)
EXTENDS Accounts, TLAPS

SessionRow == [state : {"live", "verified"}, user : User, knows : BOOLEAN]
TokenRow == [state : {"open", "used", "over"}, user : User,
             purpose : {"invitation", "password_reset"}]

\* A live session is one of a user.
LEMMA LiveRow ==
  ASSUME TypeOK, NEW s \in Session, Live(s)
  PROVE  session[s] \in SessionRow /\ session[s].user \in User
  BY DEF TypeOK, None, Over, Live, SessionRow

\* The same for tokens.
LEMMA OpenRow ==
  ASSUME TypeOK, NEW t \in Token, token[t].state # "none"
  PROVE  token[t] \in TokenRow /\ token[t].user \in User
  BY DEF TypeOK, None, TokenRow

\* What the end of a user's sessions does to each of them.
LEMMA Revoking ==
  ASSUME TypeOK, NEW u \in User
  PROVE  /\ RevokedSessions(u) \in [Session -> {None, Over} \cup SessionRow]
         /\ \A s \in Session :
              IF Live(s) /\ session[s].user = u
              THEN RevokedSessions(u)[s].state = "over"
              ELSE RevokedSessions(u)[s] = session[s]
<1>1. Over.state = "over"
  BY DEF Over
<1> QED
  BY <1>1 DEF TypeOK, RevokedSessions, SessionRow

\* A new password means nothing to sessions that have ended.
LEMMA Renewing ==
  ASSUME TypeOK, NEW u \in User
  PROVE  NewPassword(u, RevokedSessions(u)) = RevokedSessions(u)
<1>1. \A s \in Session : ~(RevokedSessions(u)[s].state \in {"live", "verified"}
                            /\ RevokedSessions(u)[s].user = u)
  BY DEF RevokedSessions, Over, Live
<1>2. RevokedSessions(u) = [s \in Session |-> RevokedSessions(u)[s]]
  BY DEF RevokedSessions
<1> QED
  BY <1>1, <1>2 DEF NewPassword

\* What the end of a user's open tokens does to each of them.
LEMMA RevokingTokens ==
  ASSUME TypeOK, NEW u \in User
  PROVE  /\ RevokedTokens(u) \in [Token -> {None} \cup TokenRow]
         /\ \A t \in Token :
              IF token[t].state = "open" /\ token[t].user = u
              THEN RevokedTokens(u)[t].state = "over"
              ELSE RevokedTokens(u)[t] = token[t]
<1>1. ASSUME NEW t \in Token, token[t].state = "open"
      PROVE  /\ [token[t] EXCEPT !.state = "over"] \in TokenRow
             /\ [token[t] EXCEPT !.state = "over"].state = "over"
  <2>1. token[t] \in TokenRow
    BY <1>1, OpenRow
  <2> QED
    BY <2>1 DEF TokenRow
<1> QED
  BY <1>1 DEF TypeOK, RevokedTokens, TokenRow

\* A challenge is of a live session of an active account that nobody holds.
LEMMA Challenged ==
  ASSUME TypeOK, NEW s \in Session, Challenge(s)
  PROVE  /\ Live(s) /\ session[s] \in SessionRow /\ session[s].user \in User
         /\ account[session[s].user] = "active" /\ Unlocked(session[s].user)
         /\ failed[session[s].user] < MaxWrong
  BY LiveRow DEF Challenge, Live

\* What a right code does to the rows.
LEMMA VerifiedRows ==
  ASSUME TypeOK, NEW s \in Session, Challenge(s), NEW n \in 0..MaxCodes, Verified(s, n)
  PROVE  /\ session' \in [Session -> {None, Over} \cup SessionRow]
         /\ session'[s].state = "verified" /\ session'[s].user = session[s].user
         /\ session'[s].knows = session[s].knows
         /\ \A r \in Session \ {s} : session'[r] = session[r]
         /\ codes' \in [User -> 0..MaxCodes] /\ failed' \in [User -> 0..MaxWrong]
         /\ UNCHANGED <<account, password, token, requests, work>>
<1>1. session[s] \in SessionRow /\ session[s].user \in User
  BY Challenged
<1>2. [session[s] EXCEPT !.state = "verified"] \in SessionRow
  BY <1>1 DEF SessionRow
<1>3. session' = [session EXCEPT ![s] = [session[s] EXCEPT !.state = "verified"]]
  BY DEF Verified
<1>4. session' \in [Session -> {None, Over} \cup SessionRow]
  BY <1>2, <1>3 DEF TypeOK, SessionRow
<1> QED
  BY <1>1, <1>3, <1>4, AccountsAssumption DEF TypeOK, Verified, SessionRow

\* A token is issued: the open ones of the user end.
LEMMA Issuing ==
  ASSUME TypeOK, NEW v \in User, NEW p \in {"invitation", "password_reset"}, Issue(v, p)
  PROVE  \E t \in Token :
           /\ token[t] = None /\ token'[t] = Issued(v, p)
           /\ \A r \in Token \ {t} : token'[r] = RevokedTokens(v)[r]
           /\ token' \in [Token -> {None} \cup TokenRow]
<1>1. PICK t \in Token : token[t] = None /\ token' = [RevokedTokens(v) EXCEPT ![t] = Issued(v, p)]
  BY DEF Issue
<1>2. Issued(v, p) \in TokenRow
  BY DEF Issued, TokenRow
<1> QED
  BY <1>1, <1>2, RevokingTokens

\* What an administrator is let through for.
LEMMA Working ==
  ASSUME TypeOK, NEW u \in User, work[u] # Idle
  PROVE  /\ work[u] \in [does : Lifecycle \cup {"reset"}, target : User]
         /\ work[u].target \in User
  BY DEF TypeOK

-----------------------------------------------------------------------------
LEMMA TypeInit == Init => TypeOK
  BY AccountsAssumption DEF Init, TypeOK, None, Idle

\* The requests of the owner of a session.
LEMMA SessionTypes ==
  ASSUME TypeOK, NEW s \in Session
  PROVE  /\ \A u \in User : Login(u, s) => TypeOK'
         /\ EndSession(s) \/ UseFactor(s) => TypeOK'
<1> USE DEF credential, requests
<1>1. ASSUME NEW u \in User, Login(u, s) PROVE TypeOK'
  <2>1. Opened(u) \in SessionRow
    BY DEF Opened, SessionRow
  <2> QED
    BY <1>1, <2>1, Revoking DEF Login, TypeOK, SessionRow
<1>2. ASSUME EndSession(s) PROVE TypeOK'
  BY <1>2 DEF EndSession, TypeOK, SessionRow
<1>3. ASSUME FailChallenge(s) PROVE TypeOK'
  BY <1>3, Challenged, AccountsAssumption DEF FailChallenge, TypeOK
<1>4. ASSUME Enroll(s) PROVE TypeOK'
  BY <1>4, Challenged, AccountsAssumption DEF Enroll, TypeOK
<1>5. ASSUME Confirm(s) PROVE TypeOK'
  <2>1. MaxCodes \in 0..MaxCodes
    BY AccountsAssumption
  <2> QED
    BY <1>5, <2>1, VerifiedRows, Challenged DEF Confirm, TypeOK, SessionRow
<1>6. ASSUME Verify(s) PROVE TypeOK'
  <2>1. codes[session[s].user] \in 0..MaxCodes
    BY <1>6, Challenged DEF Verify, TypeOK
  <2> QED
    BY <1>6, <2>1, VerifiedRows DEF Verify, TypeOK, SessionRow
<1>7. ASSUME Recover(s) PROVE TypeOK'
  <2>1. codes[session[s].user] \in 0..MaxCodes
    BY <1>7, Challenged DEF Recover, TypeOK
  <2>2. codes[session[s].user] - 1 \in 0..MaxCodes
    BY <1>7, <2>1, AccountsAssumption DEF Recover
  <2> QED
    BY <1>7, <2>2, VerifiedRows DEF Recover, TypeOK, SessionRow
<1>8. ASSUME Regenerate(s) PROVE TypeOK'
  <2>1. MaxCodes \in 0..MaxCodes
    BY AccountsAssumption
  <2> QED
    BY <1>8, <2>1, VerifiedRows DEF Regenerate, TypeOK, SessionRow
<1> QED
  BY <1>1, <1>2, <1>3, <1>4, <1>5, <1>6, <1>7, <1>8 DEF UseFactor

\* What administrators do, and the script.
LEMMA AdministrationTypes ==
  ASSUME TypeOK, NEW u \in User
  PROVE  /\ EnrollmentEnds(u) \/ LockEnds(u) \/ Administer(u) \/ ResetAdminPassword(u) => TypeOK'
         /\ \A v \in User, s \in Session, does \in Lifecycle \cup {"reset"} :
              Authorize(u, s, does, v) => TypeOK'
<1> USE DEF credential, requests
<1>1. ASSUME EnrollmentEnds(u) \/ LockEnds(u) PROVE TypeOK'
  BY <1>1, AccountsAssumption DEF EnrollmentEnds, LockEnds, TypeOK
<1>2. ASSUME NEW v \in User, NEW s \in Session, NEW does \in Lifecycle \cup {"reset"},
             Authorize(u, s, does, v)
      PROVE  TypeOK'
  BY <1>2 DEF Authorize, TypeOK
<1>3. ASSUME ResetAdminPassword(u) PROVE TypeOK'
  BY <1>3, Revoking, Renewing DEF ResetAdminPassword, TypeOK, SessionRow
<1>4. ASSUME Abort(u) PROVE TypeOK'
  BY <1>4 DEF Abort, TypeOK
<1>5. ASSUME work[u] # Idle, NEW v, v = work[u].target, Finish(u)
      PROVE  /\ v \in User /\ UNCHANGED requests
             /\ work' \in [User -> {Idle} \cup [does : Lifecycle \cup {"reset"}, target : User]]
  BY <1>5, Working DEF Finish, TypeOK
<1>6. ASSUME Invite(u) PROVE TypeOK'
  <2> DEFINE v == work[u].target
  <2>1. Finish(u) /\ work[u] # Idle
    BY <1>6 DEF Invite, Finish
  <2>2. v \in User /\ Issue(v, "invitation")
    BY <1>6, <2>1, <1>5 DEF Invite
  <2> QED
    BY <1>6, <2>1, <2>2, <1>5, Issuing DEF Invite, TypeOK, TokenRow
<1>7. ASSUME Reissue(u) PROVE TypeOK'
  <2> DEFINE v == work[u].target
             p == IF password[v] THEN "password_reset" ELSE "invitation"
  <2>1. Finish(u) /\ work[u] # Idle
    BY <1>7 DEF Reissue, Finish
  <2>2. v \in User /\ Issue(v, p)
    BY <1>7, <2>1, <1>5 DEF Reissue
  <2>3. token' \in [Token -> {None} \cup TokenRow]
    BY <2>2, Issuing
  <2> QED
    BY <1>7, <2>1, <2>3, <1>5 DEF Reissue, TypeOK, TokenRow
<1>8. ASSUME Activate(u) PROVE TypeOK'
  <2>1. Finish(u) /\ work[u] # Idle
    BY <1>8 DEF Activate, Finish
  <2> QED
    BY <1>8, <2>1, <1>5 DEF Activate, TypeOK
<1>9. ASSUME Deactivate(u) PROVE TypeOK'
  <2>1. Finish(u) /\ work[u] # Idle
    BY <1>9 DEF Deactivate, Finish
  <2> QED
    BY <1>9, <2>1, <1>5, Revoking, RevokingTokens DEF Deactivate, TypeOK, SessionRow, TokenRow
<1>10. ASSUME ResetFactor(u) PROVE TypeOK'
  <2>1. Finish(u) /\ work[u] # Idle
    BY <1>10 DEF ResetFactor, Finish
  <2> QED
    BY <1>10, <2>1, <1>5, Revoking, AccountsAssumption DEF ResetFactor, TypeOK, SessionRow
<1> QED
  BY <1>1, <1>2, <1>3, <1>4, <1>6, <1>7, <1>8, <1>9, <1>10 DEF Administer

\* The completion of a token consumes it.
LEMMA Completing ==
  ASSUME TypeOK, NEW t \in Token, Complete(t)
  PROVE  /\ token[t].user \in User /\ token[t].state = "open"
         /\ token' \in [Token -> {None} \cup TokenRow]
         /\ token'[t].state = "used"
         /\ \A r \in Token \ {t} : token'[r] = RevokedTokens(token[t].user)[r]
<1>1. token[t] \in TokenRow /\ token[t].user \in User /\ token[t].state = "open"
  BY OpenRow DEF Complete
<1>2. RevokedTokens(token[t].user)[t] \in TokenRow
  BY <1>1 DEF RevokedTokens, TokenRow
<1> DEFINE row == [RevokedTokens(token[t].user)[t] EXCEPT !.state = "used"]
<1>3. row \in TokenRow /\ row.state = "used"
  BY <1>2 DEF TokenRow
<1>4. token' = [RevokedTokens(token[t].user) EXCEPT ![t] = row]
  BY DEF Complete
<1> QED
  BY <1>1, <1>3, <1>4, RevokingTokens

LEMMA TokenTypes ==
  ASSUME TypeOK, NEW t \in Token
  PROVE  Check(t) \/ Complete(t) \/ GiveUp(t) \/ TokenEnds(t) => TypeOK'
<1> USE DEF credential, requests
<1>1. ASSUME Check(t) \/ GiveUp(t) PROVE TypeOK'
  BY <1>1, AccountsAssumption DEF Check, GiveUp, TypeOK
<1>2. ASSUME TokenEnds(t) PROVE TypeOK'
  <2>1. token[t] \in TokenRow
    BY <1>2, OpenRow DEF TokenEnds
  <2>2. [token[t] EXCEPT !.state = "over"] \in TokenRow
    BY <2>1 DEF TokenRow
  <2>3. token' = [token EXCEPT ![t] = [token[t] EXCEPT !.state = "over"]]
    BY <1>2 DEF TokenEnds
  <2> QED
    BY <1>2, <2>2, <2>3 DEF TokenEnds, TypeOK, TokenRow
<1>3. ASSUME Complete(t) PROVE TypeOK'
  <2>1. hashing' \in [Token -> 0..MaxHashing] /\ completed' \in [Token -> Nat]
    BY <1>3, AccountsAssumption DEF Complete, TypeOK
  <2>2. session' \in [Session -> {None, Over} \cup SessionRow]
    <3>1. token[t].user \in User
      BY <1>3, Completing
    <3>2. session' = RevokedSessions(token[t].user)
      BY <1>3, <3>1, Renewing DEF Complete
    <3> QED
      BY <3>1, <3>2, Revoking
  <2>3. token' \in [Token -> {None} \cup TokenRow]
    BY <1>3, Completing
  <2> QED
    BY <1>3, <2>1, <2>2, <2>3 DEF Complete, TypeOK, SessionRow, TokenRow
<1> QED
  BY <1>1, <1>2, <1>3

\* Every step keeps the types.
LEMMA TypeStep == TypeOK /\ [Next]_vars => TypeOK'
<1> SUFFICES ASSUME TypeOK, [Next]_vars PROVE TypeOK'
  OBVIOUS
<1>1. CASE Next
  BY <1>1, SessionTypes, AdministrationTypes, TokenTypes DEF Next
<1>2. CASE UNCHANGED vars
  BY <1>2 DEF vars, credential, requests, TypeOK
<1> QED
  BY <1>1, <1>2

\* The rows of accounts, sessions, tokens and factors keep their types; the
\* recovery codes and the wrong codes of an account stay within their limits.
THEOREM AccountsTypes == Spec => []TypeOK
  BY TypeInit, TypeStep, PTL DEF Spec

-----------------------------------------------------------------------------
\* What the steps rely on: live sessions were opened with a password, who acts
\* as an administrator is able to, and not on the own account.
KnownPassword == \A s \in Session : Live(s) => password[session[s].user]

WorkersAble ==
  \A u \in User : work[u] # Idle =>
    u \in Able /\ (work[u].does \in {"activate", "deactivate", "reset"} => work[u].target # u)

Sound == SessionsAreCurrent /\ KnownPassword

\* The sessions that stay live are untouched, and so are their accounts.
SessionsFramed ==
  \A s \in Session : Live(s)' =>
    /\ Live(s) /\ session'[s] = session[s]
    /\ account'[session[s].user] = account[session[s].user]
    /\ password[session[s].user] => password'[session[s].user]
    /\ factor[session[s].user] = "on" => factor'[session[s].user] = "on"

TokensFramed ==
  \A t \in Token : token'[t].state = "open" =>
    token'[t] = token[t] /\ account'[token[t].user] = account[token[t].user]

WorkFramed ==
  \A u \in User : work'[u] # Idle => work'[u] = work[u] /\ (u \in Able => u \in Able')

LEMMA SessionsFrame == Sound /\ SessionsFramed => Sound'
  BY DEF Sound, SessionsFramed, SessionsAreCurrent, KnownPassword

LEMMA TokensFrame == TokensAreCurrent /\ TokensFramed => TokensAreCurrent'
  BY DEF TokensFramed, TokensAreCurrent

LEMMA WorkFrame == WorkersAble /\ WorkFramed => WorkersAble'
  BY DEF WorkFramed, WorkersAble

\* The end of the sessions of one user frames all others.
LEMMA RevokedFrame ==
  ASSUME TypeOK, NEW u \in User, session' = RevokedSessions(u)
  PROVE  \A s \in Session : Live(s)' =>
           Live(s) /\ session'[s] = session[s] /\ session[s].user # u /\ session[s].user \in User
<1> SUFFICES ASSUME NEW s \in Session, Live(s)'
             PROVE  Live(s) /\ session'[s] = session[s] /\ session[s].user # u /\ session[s].user \in User
  OBVIOUS
<1>1. ~(Live(s) /\ session[s].user = u)
  BY Revoking DEF Live
<1>2. session'[s] = session[s] /\ Live(s)
  BY <1>1, Revoking DEF Live
<1> QED
  BY <1>1, <1>2, LiveRow DEF Live

LEMMA RevokedTokensFrame ==
  ASSUME TypeOK, NEW u \in User, NEW t \in Token, RevokedTokens(u)[t].state = "open"
  PROVE  RevokedTokens(u)[t] = token[t] /\ token[t].user # u /\ token[t].user \in User
<1>1. ~(token[t].state = "open" /\ token[t].user = u)
  BY RevokingTokens
<1>2. RevokedTokens(u)[t] = token[t]
  BY <1>1, RevokingTokens
<1> QED
  BY <1>1, <1>2, OpenRow

\* A right code given on a session leaves the sessions as they should be.
LEMMA VerifiedSound ==
  ASSUME TypeOK, Sound, NEW s \in Session, Challenge(s), NEW n \in 0..MaxCodes, Verified(s, n),
         \A u \in User : factor[u] = "on" => factor'[u] = "on",
         factor'[session[s].user] = "on"
  PROVE  Sound'
<1>1. /\ Live(s) /\ session'[s].user = session[s].user /\ session'[s].knows = session[s].knows
      /\ \A r \in Session \ {s} : session'[r] = session[r]
      /\ account' = account /\ password' = password
  BY VerifiedRows, Challenged
<1>2. \A r \in Session : Live(r)' =>
        /\ Live(r) /\ session'[r].user = session[r].user /\ session'[r].knows = session[r].knows
        /\ session[r].user \in User
  BY <1>1, LiveRow DEF Live
<1>3. SessionsAreCurrent'
  <2> SUFFICES ASSUME NEW r \in Session, Live(r)'
               PROVE  /\ account'[session'[r].user] = "active" /\ session'[r].knows
                      /\ session'[r].state = "verified" => factor'[session'[r].user] = "on"
                      /\ \A q \in Session : Live(q)' /\ session'[q].user = session'[r].user => q = r
    BY DEF SessionsAreCurrent
  <2>1. account'[session'[r].user] = "active" /\ session'[r].knows
    BY <1>1, <1>2 DEF Sound, SessionsAreCurrent
  <2>2. \A q \in Session : Live(q)' /\ session'[q].user = session'[r].user => q = r
    BY <1>2 DEF Sound, SessionsAreCurrent
  <2>3. session'[r].state = "verified" => factor'[session'[r].user] = "on"
    <3>1. CASE r = s
      BY <3>1, <1>1
    <3>2. CASE r # s
      BY <3>2, <1>1, <1>2 DEF Sound, SessionsAreCurrent
    <3> QED
      BY <3>1, <3>2
  <2> QED
    BY <2>1, <2>2, <2>3
<1>4. KnownPassword'
  BY <1>1, <1>2 DEF Sound, KnownPassword
<1> QED
  BY <1>3, <1>4 DEF Sound

\* A login leaves one live session of its user.
LEMMA LoginSound ==
  ASSUME TypeOK, Sound, NEW u \in User, NEW s \in Session, Login(u, s)
  PROVE  Sound'
<1>1. /\ session'[s] = Opened(u) /\ account' = account /\ password' = password /\ factor' = factor
      /\ account[u] = "active" /\ password[u]
  BY Revoking DEF Login, credential
<1>2. ASSUME NEW r \in Session \ {s}, Live(r)'
      PROVE  Live(r) /\ session'[r] = session[r] /\ session[r].user # u
  <2>1. session'[r] = RevokedSessions(u)[r]
    BY Revoking DEF Login
  <2>2. ~(Live(r) /\ session[r].user = u)
    BY <1>2, <2>1, Revoking DEF Live
  <2> QED
    BY <1>2, <2>1, <2>2, Revoking DEF Live
<1> QED
  BY <1>1, <1>2 DEF Sound, SessionsAreCurrent, KnownPassword, Opened

-----------------------------------------------------------------------------
Current == TypeOK /\ Sound /\ TokensAreCurrent /\ WorkersAble

\* Able accounts stay able.
AbleStay == \A u \in User : u \in Able => u \in Able'

LEMMA CurrentInit == Init => Current
<1>1. Init => TypeOK
  BY TypeInit
<1>2. Init => Sound
  BY DEF Init, Sound, SessionsAreCurrent, KnownPassword, Live, None
<1>3. Init => TokensAreCurrent
  BY DEF Init, TokensAreCurrent, None
<1>4. Init => WorkersAble
  BY DEF Init, WorkersAble
<1> QED
  BY <1>1, <1>2, <1>3, <1>4 DEF Current

\* The requests of the owner of a session.
LEMMA SessionStep ==
  ASSUME Current, NEW s \in Session
  PROVE  /\ \A u \in User : Login(u, s) => Sound' /\ TokensFramed /\ WorkFramed /\ AbleStay
         /\ EndSession(s) \/ UseFactor(s) => Sound' /\ TokensFramed /\ WorkFramed /\ AbleStay
<1> USE DEF Current, credential, requests
<1>0. Able = {u \in User : account[u] = "active" /\ password[u] /\ factor[u] = "on"}
  BY DEF Able
<1>1. ASSUME NEW u \in User, Login(u, s)
      PROVE  Sound' /\ TokensFramed /\ WorkFramed /\ AbleStay
  <2>1. Sound'
    BY <1>1, LoginSound
  <2> QED
    BY <1>1, <2>1 DEF Login, TokensFramed, WorkFramed, AbleStay, Able
<1>2. ASSUME EndSession(s) PROVE Sound' /\ TokensFramed /\ WorkFramed /\ AbleStay
  <2>1. SessionsFramed
    BY <1>2 DEF EndSession, SessionsFramed, Live, Over, TypeOK
  <2> QED
    BY <1>2, <2>1, SessionsFrame DEF EndSession, TokensFramed, WorkFramed, AbleStay, Able
<1>3. ASSUME FailChallenge(s) PROVE Sound' /\ TokensFramed /\ WorkFramed /\ AbleStay
  <2>1. SessionsFramed
    BY <1>3 DEF FailChallenge, SessionsFramed, Live
  <2> QED
    BY <1>3, <2>1, SessionsFrame DEF FailChallenge, TokensFramed, WorkFramed, AbleStay, Able
<1>4. ASSUME Enroll(s) PROVE Sound' /\ TokensFramed /\ WorkFramed /\ AbleStay
  <2>1. \A u \in User : factor[u] = "on" => factor'[u] = "on"
    BY <1>4 DEF Enroll, TypeOK
  <2>2. SessionsFramed
    BY <1>4, <2>1, LiveRow DEF Enroll, SessionsFramed, Live
  <2> QED
    BY <1>4, <2>1, <2>2, SessionsFrame DEF Enroll, TokensFramed, WorkFramed, AbleStay, Able
<1>5. ASSUME NEW n \in 0..MaxCodes, Challenge(s), Verified(s, n),
             \A u \in User : factor[u] = "on" => factor'[u] = "on",
             factor'[session[s].user] = "on"
      PROVE  Sound' /\ TokensFramed /\ WorkFramed /\ AbleStay
  <2>1. Sound'
    BY <1>5, VerifiedSound
  <2> QED
    BY <1>5, <2>1 DEF Verified, TokensFramed, WorkFramed, AbleStay, Able
<1>6. ASSUME Confirm(s) PROVE Sound' /\ TokensFramed /\ WorkFramed /\ AbleStay
  <2>1. /\ MaxCodes \in 0..MaxCodes /\ Challenge(s) /\ Verified(s, MaxCodes)
        /\ session[s].user \in User /\ factor' = [factor EXCEPT ![session[s].user] = "on"]
    BY <1>6, Challenged, AccountsAssumption DEF Confirm
  <2>2. /\ \A u \in User : factor[u] = "on" => factor'[u] = "on"
        /\ factor'[session[s].user] = "on"
    BY <2>1 DEF TypeOK
  <2> QED
    BY <2>1, <2>2, <1>5
<1>7. ASSUME Verify(s) PROVE Sound' /\ TokensFramed /\ WorkFramed /\ AbleStay
  <2>1. codes[session[s].user] \in 0..MaxCodes
    BY <1>7, Challenged DEF Verify, TypeOK
  <2> QED
    BY <1>7, <2>1, <1>5 DEF Verify
<1>8. ASSUME Recover(s) PROVE Sound' /\ TokensFramed /\ WorkFramed /\ AbleStay
  <2>1. codes[session[s].user] \in 0..MaxCodes
    BY <1>8, Challenged DEF Recover, TypeOK
  <2>2. codes[session[s].user] - 1 \in 0..MaxCodes
    BY <1>8, <2>1, AccountsAssumption DEF Recover
  <2> QED
    BY <1>8, <2>2, <1>5 DEF Recover
<1>9. ASSUME Regenerate(s) PROVE Sound' /\ TokensFramed /\ WorkFramed /\ AbleStay
  <2>1. MaxCodes \in 0..MaxCodes
    BY AccountsAssumption
  <2> QED
    BY <1>9, <2>1, <1>5 DEF Regenerate
<1> QED
  BY <1>1, <1>2, <1>3, <1>4, <1>6, <1>7, <1>8, <1>9 DEF UseFactor

\* The transaction of an administrator ends: nobody else's does, and the row of
\* the account it is about is not another administrator's.
LEMMA Finishing ==
  ASSUME Current, NEW u \in User, work[u] # Idle, Finish(u), NEW v, v = work[u].target
  PROVE  /\ v \in User /\ u \in Able
         /\ work[u].does \in {"deactivate", "reset"} => v # u
         /\ \A w \in User : work'[w] # Idle => work'[w] = work[w] /\ w # v /\ w # u
<1>1. v \in User /\ u \in Able
  BY Working DEF Current, WorkersAble
<1>2. \A w \in User : work'[w] # Idle => work'[w] = work[w] /\ w # v /\ w # u
  BY Working DEF Finish, Unlocked, Current, TypeOK
<1> QED
  BY <1>1, <1>2 DEF Finish, Current, WorkersAble

\* A new token leaves one open token of its user.
LEMMA IssueCurrent ==
  ASSUME Current, NEW v \in User, NEW p \in {"invitation", "password_reset"}, Issue(v, p),
         \A w \in User : account[w] = "active" => account'[w] = "active", account'[v] = "active"
  PROVE  TokensAreCurrent'
<1>1. PICK t \in Token :
        /\ token'[t] = Issued(v, p)
        /\ \A r \in Token \ {t} : token'[r] = RevokedTokens(v)[r]
  BY Issuing DEF Current
<1>2. ASSUME NEW r \in Token \ {t}, token'[r].state = "open"
      PROVE  token'[r] = token[r] /\ token[r].user # v /\ token[r].user \in User
  BY <1>1, <1>2, RevokedTokensFrame DEF Current
<1>3. token'[t].user = v
  BY <1>1 DEF Issued
<1> SUFFICES ASSUME NEW r \in Token, token'[r].state = "open"
             PROVE  /\ account'[token'[r].user] = "active"
                    /\ \A q \in Token : token'[q].state = "open" /\ token'[q].user = token'[r].user => q = r
  BY DEF TokensAreCurrent
<1>4. account'[token'[r].user] = "active"
  BY <1>2, <1>3 DEF Current, TokensAreCurrent
<1>5. ASSUME NEW q \in Token, token'[q].state = "open", token'[q].user = token'[r].user
      PROVE  q = r
  <2>1. CASE r = t
    BY <2>1, <1>2, <1>3, <1>5
  <2>2. CASE r # t
    <3>1. q # t
      BY <2>2, <1>2, <1>3, <1>5
    <3> QED
      BY <2>2, <3>1, <1>2, <1>5 DEF Current, TokensAreCurrent
  <2> QED
    BY <2>1, <2>2
<1> QED
  BY <1>4, <1>5

\* What administrators, the script and time do.
LEMMA AdministrationStep ==
  ASSUME Current, NEW u \in User
  PROVE  /\ EnrollmentEnds(u) \/ LockEnds(u) \/ Administer(u) \/ ResetAdminPassword(u) =>
              Sound' /\ TokensAreCurrent' /\ WorkersAble' /\ (Able # {} => Able' # {})
         /\ \A v \in User, s \in Session, does \in Lifecycle \cup {"reset"} :
              Authorize(u, s, does, v) =>
                Sound' /\ TokensAreCurrent' /\ WorkersAble' /\ (Able # {} => Able' # {})
<1> DEFINE Goal == Sound' /\ TokensAreCurrent' /\ WorkersAble' /\ (Able # {} => Able' # {})
<1> USE DEF Current, credential, requests
<1>0. ASSUME Sound', TokensFramed, WorkFramed, AbleStay PROVE Goal
  BY <1>0, TokensFrame, WorkFrame DEF AbleStay, Able
<1>1. ASSUME EnrollmentEnds(u) PROVE Goal
  <2>1. \A w \in User : factor[w] = "on" => factor'[w] = "on"
    BY <1>1, AccountsAssumption DEF EnrollmentEnds, TypeOK
  <2>2. SessionsFramed
    BY <1>1, <2>1, LiveRow DEF EnrollmentEnds, SessionsFramed, Live
  <2>3. TokensFramed /\ WorkFramed /\ AbleStay
    BY <1>1, <2>1 DEF EnrollmentEnds, TokensFramed, WorkFramed, AbleStay, Able
  <2> QED
    BY <2>2, <2>3, <1>0, SessionsFrame
<1>2. ASSUME LockEnds(u) \/ Abort(u) PROVE Goal
  <2>1. SessionsFramed
    BY <1>2 DEF LockEnds, Abort, SessionsFramed, Live
  <2>2. TokensFramed /\ WorkFramed /\ AbleStay
    BY <1>2 DEF LockEnds, Abort, TokensFramed, WorkFramed, AbleStay, Able, TypeOK
  <2> QED
    BY <2>1, <2>2, <1>0, SessionsFrame
<1>3. ASSUME ResetAdminPassword(u) PROVE Goal
  <2>1. \A w \in User : password[w] => password'[w]
    BY <1>3 DEF ResetAdminPassword, TypeOK
  <2>2. SessionsFramed
    BY <1>3, <2>1, RevokedFrame, Renewing DEF ResetAdminPassword, SessionsFramed
  <2>3. TokensFramed /\ WorkFramed /\ AbleStay
    BY <1>3, <2>1 DEF ResetAdminPassword, TokensFramed, WorkFramed, AbleStay, Able
  <2> QED
    BY <2>2, <2>3, <1>0, SessionsFrame
<1>4. ASSUME Invite(u) PROVE Goal
  <2> DEFINE v == work[u].target
  <2>1. work[u] # Idle /\ Finish(u) /\ Issue(v, "invitation")
    BY <1>4 DEF Invite, Finish
  <2>2. \A w \in User : account[w] = "active" => account'[w] = "active"
    BY <1>4 DEF Invite, TypeOK
  <2>3. account'[v] = "active" /\ v \in User
    BY <1>4, <2>1, Finishing DEF Invite, TypeOK
  <2>4. TokensAreCurrent'
    BY <2>1, <2>2, <2>3, IssueCurrent
  <2>5. \A s \in Session : Live(s) => account'[session[s].user] = account[session[s].user]
    BY <2>2, LiveRow DEF Sound, SessionsAreCurrent, Live
  <2>6. SessionsFramed
    BY <1>4, <2>5 DEF Invite, SessionsFramed, Live
  <2>7. AbleStay
    BY <1>4, <2>2 DEF Invite, AbleStay, Able
  <2>8. WorkFramed
    BY <2>1, <2>7, Finishing DEF WorkFramed, AbleStay
  <2> QED
    BY <2>4, <2>6, <2>7, <2>8, SessionsFrame, WorkFrame DEF AbleStay, Able
<1>5. ASSUME Reissue(u) PROVE Goal
  <2> DEFINE v == work[u].target
             p == IF password[v] THEN "password_reset" ELSE "invitation"
  <2>1. work[u] # Idle /\ Finish(u) /\ Issue(v, p) /\ account[v] = "active" /\ account' = account
    BY <1>5 DEF Reissue, Finish
  <2>2. v \in User /\ p \in {"invitation", "password_reset"}
    BY <2>1, Finishing
  <2>3. TokensAreCurrent'
    BY <2>1, <2>2, IssueCurrent
  <2>4. SessionsFramed
    BY <1>5 DEF Reissue, SessionsFramed, Live
  <2>5. AbleStay
    BY <1>5 DEF Reissue, AbleStay, Able
  <2>6. WorkFramed
    BY <2>1, <2>5, Finishing DEF WorkFramed, AbleStay
  <2> QED
    BY <2>3, <2>4, <2>5, <2>6, SessionsFrame, WorkFrame DEF AbleStay, Able
<1>6. ASSUME Activate(u) PROVE Goal
  <2>1. work[u] # Idle /\ Finish(u)
    BY <1>6 DEF Activate, Finish
  <2>2. \A w \in User : account[w] = "active" => account'[w] = "active"
    BY <1>6 DEF Activate, TypeOK
  <2>3. \A s \in Session : Live(s) => account'[session[s].user] = account[session[s].user]
    BY <2>2, LiveRow DEF Sound, SessionsAreCurrent, Live
  <2>4. SessionsFramed
    BY <1>6, <2>3 DEF Activate, SessionsFramed, Live
  <2>5. TokensFramed
    BY <1>6, <2>2, OpenRow DEF Activate, TokensFramed, TokensAreCurrent
  <2>6. AbleStay
    BY <1>6, <2>2 DEF Activate, AbleStay, Able
  <2>7. WorkFramed
    BY <2>1, <2>6, Finishing DEF WorkFramed, AbleStay
  <2> QED
    BY <2>4, <2>5, <2>6, <2>7, <1>0, SessionsFrame
<1>7. ASSUME Deactivate(u) PROVE Goal
  <2> DEFINE v == work[u].target
  <2>1. /\ work[u] # Idle /\ Finish(u) /\ v \in User /\ u \in Able /\ v # u
        /\ \A w \in User \ {v} : account'[w] = account[w]
    BY <1>7, Finishing DEF Deactivate, Finish, TypeOK
  <2>2. SessionsFramed
    BY <1>7, <2>1, RevokedFrame DEF Deactivate, SessionsFramed
  <2>3. TokensFramed
    BY <1>7, <2>1, RevokedTokensFrame DEF Deactivate, TokensFramed
  <2>4. \A w \in Able : w # v => w \in Able'
    BY <1>7, <2>1 DEF Deactivate, Able
  <2>5. WorkFramed
    BY <2>1, <2>4, Finishing DEF WorkFramed
  <2> QED
    BY <2>1, <2>2, <2>3, <2>4, <2>5, SessionsFrame, TokensFrame, WorkFrame
<1>8. ASSUME ResetFactor(u) PROVE Goal
  <2> DEFINE v == work[u].target
  <2>1. /\ work[u] # Idle /\ Finish(u) /\ v \in User /\ u \in Able /\ v # u
        /\ \A w \in User \ {v} : factor'[w] = factor[w]
    BY <1>8, Finishing DEF ResetFactor, Finish, TypeOK
  <2>2. SessionsFramed
    BY <1>8, <2>1, RevokedFrame DEF ResetFactor, SessionsFramed
  <2>3. TokensFramed
    BY <1>8 DEF ResetFactor, TokensFramed
  <2>4. \A w \in Able : w # v => w \in Able'
    BY <1>8, <2>1 DEF ResetFactor, Able
  <2>5. WorkFramed
    BY <2>1, <2>4, Finishing DEF WorkFramed
  <2> QED
    BY <2>1, <2>2, <2>3, <2>4, <2>5, SessionsFrame, TokensFrame, WorkFrame
<1>9. ASSUME NEW v \in User, NEW s \in Session, NEW does \in Lifecycle \cup {"reset"},
             Authorize(u, s, does, v)
      PROVE  Goal
  <2>1. SessionsFramed /\ TokensFramed /\ AbleStay
    BY <1>9 DEF Authorize, SessionsFramed, TokensFramed, AbleStay, Able, Live
  <2>2. u \in Able
    BY <1>9 DEF Authorize, Sound, SessionsAreCurrent, KnownPassword, Able, Live
  <2>3. WorkersAble'
    BY <1>9, <2>1, <2>2 DEF Authorize, WorkersAble, AbleStay, TypeOK
  <2> QED
    BY <2>1, <2>3, SessionsFrame, TokensFrame DEF AbleStay, Able
<1> QED
  BY <1>1, <1>2, <1>3, <1>4, <1>5, <1>6, <1>7, <1>8, <1>9 DEF Administer

\* What completions and time do to a token.
LEMMA TokenStep ==
  ASSUME Current, NEW t \in Token
  PROVE  Check(t) \/ Complete(t) \/ GiveUp(t) \/ TokenEnds(t) =>
           SessionsFramed /\ TokensFramed /\ WorkFramed /\ AbleStay
<1> USE DEF Current, credential, requests
<1>1. ASSUME Check(t) \/ GiveUp(t)
      PROVE  SessionsFramed /\ TokensFramed /\ WorkFramed /\ AbleStay
  BY <1>1 DEF Check, GiveUp, SessionsFramed, TokensFramed, WorkFramed, AbleStay, Able, Live
<1>2. ASSUME TokenEnds(t) PROVE SessionsFramed /\ TokensFramed /\ WorkFramed /\ AbleStay
  <2>1. TokensFramed
    BY <1>2, OpenRow DEF TokenEnds, TokensFramed, TypeOK, TokenRow
  <2> QED
    BY <1>2, <2>1 DEF TokenEnds, SessionsFramed, WorkFramed, AbleStay, Able, Live
<1>3. ASSUME Complete(t) PROVE SessionsFramed /\ TokensFramed /\ WorkFramed /\ AbleStay
  <2> DEFINE u == token[t].user
  <2>1. /\ u \in User /\ token'[t].state = "used"
        /\ \A r \in Token \ {t} : token'[r] = RevokedTokens(u)[r]
    BY <1>3, Completing
  <2>2. TokensFramed
    BY <1>3, <2>1, RevokedTokensFrame DEF Complete, TokensFramed
  <2>3. \A w \in User : password[w] => password'[w]
    BY <1>3 DEF Complete, TypeOK
  <2>4. SessionsFramed
    BY <1>3, <2>1, <2>3, RevokedFrame, Renewing DEF Complete, SessionsFramed
  <2> QED
    BY <1>3, <2>2, <2>3, <2>4 DEF Complete, WorkFramed, AbleStay, Able
<1> QED
  BY <1>1, <1>2, <1>3

\* A step keeps what the invariants say, and some administrator able.
LEMMA CurrentStep ==
  ASSUME Current, [Next]_vars
  PROVE  Current' /\ (Able # {} => Able' # {})
<1> DEFINE Goal == Sound' /\ TokensAreCurrent' /\ WorkersAble' /\ (Able # {} => Able' # {})
<1>0. ASSUME Sound', TokensFramed, WorkFramed, AbleStay PROVE Goal
  BY <1>0, TokensFrame, WorkFrame DEF AbleStay, Able, Current
<1>1. ASSUME NEW u \in User, NEW s \in Session, Login(u, s) PROVE Goal
  BY <1>1, <1>0, SessionStep
<1>2. ASSUME NEW s \in Session, EndSession(s) \/ UseFactor(s) PROVE Goal
  BY <1>2, <1>0, SessionStep
<1>3. ASSUME NEW t \in Token, Check(t) \/ Complete(t) \/ GiveUp(t) \/ TokenEnds(t) PROVE Goal
  BY <1>3, <1>0, TokenStep, SessionsFrame DEF Current
<1>4. ASSUME Next PROVE Goal
  <2>1. ASSUME NEW u \in User,
               EnrollmentEnds(u) \/ LockEnds(u) \/ Administer(u) \/ ResetAdminPassword(u)
        PROVE  Goal
    BY <2>1, AdministrationStep
  <2>2. ASSUME NEW u \in User, NEW v \in User, NEW s \in Session,
               NEW does \in Lifecycle \cup {"reset"}, Authorize(u, s, does, v)
        PROVE  Goal
    BY <2>2, AdministrationStep
  <2> HIDE DEF Goal
  <2> QED
    BY <1>4, <1>1, <1>2, <1>3, <2>1, <2>2 DEF Next
<1>5. ASSUME UNCHANGED vars PROVE Goal
  <2>1. SessionsFramed
    BY <1>5 DEF vars, credential, SessionsFramed, Live
  <2>2. TokensFramed /\ WorkFramed
    BY <1>5 DEF vars, TokensFramed, WorkFramed, Able, credential
  <2>3. AbleStay
    BY <1>5 DEF vars, credential, AbleStay, Able
  <2> QED
    BY <2>1, <2>2, <2>3, <1>0, SessionsFrame DEF Current
<1> QED
  BY <1>4, <1>5, TypeStep DEF Current

\* What the theorems below are steps of.
LEMMA AlwaysCurrent == Spec => []Current
  BY CurrentInit, CurrentStep, PTL DEF Spec

\* Whoever logs in, is deactivated, loses the second factor or gets a new
\* password, in any order and interleaving: a live session (session.guard and
\* mfa execute accept it) was opened with the password the account still has,
\* its account is active, and it is the only one.
THEOREM LiveSessionsAreCurrent == Spec => []SessionsAreCurrent
<1>1. Current => SessionsAreCurrent
  BY DEF Current, Sound
<1> QED
  BY <1>1, AlwaysCurrent, PTL

\* An account has one open invitation or password reset at most, none when it
\* is not active (migration 0021, setStatus and issue).
THEOREM OpenTokensAreCurrent == Spec => []TokensAreCurrent
<1>1. Current => TokensAreCurrent
  BY DEF Current
<1> QED
  BY <1>1, AlwaysCurrent, PTL

\* administrator() locks the row of who acts until the end: whatever others do,
\* a command that was let through ends under an account that still administers.
THEOREM AuthorityStands == Spec => []AuthorityIsCurrent
<1>1. Current => AuthorityIsCurrent
  BY DEF Current, WorkersAble, AuthorityIsCurrent
<1> QED
  BY <1>1, AlwaysCurrent, PTL

\* administrator() and the refusals of the own account in setStatus and
\* resetByAdministrator together: the last administrator who can be verified is
\* not deactivated and does not lose the factor, whoever else tries.
THEOREM SomebodyAdministers == Spec => AdministratorRemains
<1>1. Current /\ [Next]_vars => [Able # {} => Able' # {}]_vars
  BY CurrentStep
<1> QED
  BY <1>1, AlwaysCurrent, PTL DEF Spec, AdministratorRemains

\* What a step does not bring back.
Ends ==
  /\ \A s \in Session : session[s].state = "over" => UNCHANGED session[s]
  /\ \A t \in Token : token[t].state \in {"used", "over"} =>
       UNCHANGED <<token[t], completed[t]>>

\* Only sessions and tokens that are not over are written.
LEMMA EndStep == TypeOK /\ Next => Ends
<1> SUFFICES ASSUME TypeOK, Next PROVE Ends
  OBVIOUS
<1> USE DEF credential, requests
<1>0. ASSUME NEW u \in User, NEW t \in Token, token[t].state \in {"used", "over"}
      PROVE  RevokedTokens(u)[t] = token[t]
  BY <1>0, RevokingTokens
<1>1. ASSUME NEW u \in User, NEW s \in Session, session[s].state = "over"
      PROVE  RevokedSessions(u)[s] = session[s]
  BY <1>1, Revoking DEF Live
<1>2. ASSUME NEW v \in User, NEW p \in {"invitation", "password_reset"}, Issue(v, p),
             NEW t \in Token, token[t].state \in {"used", "over"}
      PROVE  token'[t] = token[t]
  BY <1>2, <1>0, Issuing DEF None
<1>3. ASSUME NEW s \in Session, NEW u \in User, Login(u, s) PROVE Ends
  BY <1>3, <1>1, Revoking DEF Login, Ends, None
<1>4. ASSUME NEW s \in Session, EndSession(s) PROVE Ends
  BY <1>4 DEF EndSession, Ends, Live, TypeOK
<1>5. ASSUME NEW s \in Session, UseFactor(s) PROVE Ends
  <2>1. ASSUME NEW n, Challenge(s), Verified(s, n) PROVE Ends
    <3>1. Live(s)
      BY <2>1, Challenged
    <3> QED
      BY <2>1, <3>1 DEF Verified, Ends, Live, TypeOK
  <2> QED
    BY <1>5, <2>1 DEF UseFactor, FailChallenge, Enroll, Confirm, Verify, Recover, Regenerate, Ends
<1>6. ASSUME NEW u \in User, Administer(u) PROVE Ends
  <2>1. ASSUME NEW v, v = work[u].target, Finish(u)
        PROVE  v \in User /\ completed' = completed
    BY <2>1, Working DEF Finish
  <2>2. ASSUME Invite(u) \/ Reissue(u) PROVE Ends
    BY <2>2, <2>1, <1>2 DEF Invite, Reissue, Ends
  <2>3. ASSUME Deactivate(u) PROVE Ends
    BY <2>3, <2>1, <1>0, <1>1 DEF Deactivate, Ends
  <2>4. ASSUME ResetFactor(u) PROVE Ends
    BY <2>4, <2>1, <1>1 DEF ResetFactor, Ends
  <2>5. ASSUME Activate(u) \/ Abort(u) PROVE Ends
    BY <2>5, <2>1 DEF Activate, Abort, Ends
  <2> QED
    BY <1>6, <2>2, <2>3, <2>4, <2>5 DEF Administer
<1>7. ASSUME NEW u \in User, EnrollmentEnds(u) \/ LockEnds(u) \/ ResetAdminPassword(u) PROVE Ends
  BY <1>7, <1>1, Renewing DEF EnrollmentEnds, LockEnds, ResetAdminPassword, Ends
<1>8. ASSUME NEW u, NEW v, NEW s, NEW does, Authorize(u, s, does, v) PROVE Ends
  BY <1>8 DEF Authorize, Ends
<1>9. ASSUME NEW t \in Token, Check(t) \/ GiveUp(t) \/ TokenEnds(t) PROVE Ends
  BY <1>9 DEF Check, GiveUp, TokenEnds, Ends, TypeOK
<1>10. ASSUME NEW t \in Token, Complete(t) PROVE Ends
  <2>1. /\ token[t].user \in User /\ token[t].state = "open"
        /\ \A r \in Token \ {t} : token'[r] = RevokedTokens(token[t].user)[r]
    BY <1>10, Completing
  <2> QED
    BY <1>10, <2>1, <1>0, <1>1, Renewing DEF Complete, Ends
<1> QED
  BY <1>3, <1>4, <1>5, <1>6, <1>7, <1>8, <1>9, <1>10 DEF Next

\* A logged-out, expired or revoked session is never live again, a consumed,
\* revoked or expired token never open, and no further completion goes through
\* on it: mfa execute and complete look again under their locks at what they
\* had read before, so of two completions with one token one is refused.
THEOREM EndedIsForGood == Spec => EndedStaysEnded
<1>1. TypeOK /\ [Next]_vars => [Ends]_vars
  BY EndStep
<1> QED
  BY <1>1, AccountsTypes, PTL DEF Spec, EndedStaysEnded, Ends

=============================================================================
