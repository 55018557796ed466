------------------------------ MODULE Accounts ------------------------------
(***************************************************************************)
(* Accounts, their sessions, their one-time tokens and their second        *)
(* factor: password-login, session.guard, account-lifecycle and mfa        *)
(* services, the bootstrap and reset scripts.                              *)
(*                                                                         *)
(* A transaction that changes an account holds its row in users until it   *)
(* commits; account-lifecycle also takes one advisory lock for all of its  *)
(* transactions.  What such a transaction does under the lock is one step. *)
(* Three things are not under it and are steps of their own: the           *)
(* administrator who has been let through and waits for the other account, *)
(* the token that has been looked at before its password is hashed, and    *)
(* the end of sessions, tokens and enrollments in time.                    *)
(*                                                                         *)
(* Passwords and codes are right or wrong; internal accounts with the      *)
(* system role only: other accounts have fewer of the same steps.          *)
(***************************************************************************)
EXTENDS Integers, FiniteSets

CONSTANTS
  User,         \* accounts, ever
  Session,      \* sessions ever opened
  Token,        \* invitations and password resets ever issued
  MaxCodes,     \* recovery codes issued at a time (10 in the code)
  MaxWrong,     \* wrong codes before an account is locked (5 in the code)
  MaxHashing    \* bound: completions of one token at the same time

ASSUME AccountsAssumption ==
  /\ MaxCodes \in Nat
  /\ MaxWrong \in Nat \ {0}
  /\ MaxHashing \in Nat
  /\ {"off", "on"} \cap Session = {}

VARIABLES
  account,   \* users: "absent", "active" or "inactive"
  password,  \* users.password_hash is set
  factor,    \* mfa_credentials: "off", "on", or the session enrolling it
  failed,    \* mfa_credentials.failed_attempts; locked at MaxWrong
  codes,     \* mfa_recovery_codes not consumed
  session,   \* sessions: the user's, and whether they know the password
  token,     \* account_tokens
  hashing,   \* completions that found a token usable and hash the password
  completed, \* identity_events of completions, by the token they were for
  work       \* what an administrator who was let through is about to do

credential == <<factor, failed, codes>>
requests == <<hashing, completed>>
vars == <<account, password, credential, session, token, requests, work>>

None == [state |-> "none"]

\* knows: opened with the password the account still has.
Opened(u) == [state |-> "live", user |-> u, knows |-> TRUE]
Over == [state |-> "over"]
Issued(u, purpose) == [state |-> "open", user |-> u, purpose |-> purpose]
Idle == [does |-> "nothing"]

Live(s) == session[s].state \in {"live", "verified"}
Lifecycle == {"invite", "reissue", "activate", "deactivate"}

\* Mutant of Unlocked: administrator() reads its rows without FOR UPDATE.
UnlockedAlways(u) == TRUE

\* The row in users is not held by its owner's administrative transaction.
Unlocked(u) == work[u] = Idle
LifecycleFree == \A u \in User : work[u].does \notin Lifecycle

\* The live sessions of a user end.
RevokedSessions(u) ==
  [s \in Session |->
    IF Live(s) /\ session[s].user = u THEN Over ELSE session[s]]

\* The account gets a new password, which no session was opened with.
NewPassword(u, sessions) ==
  [s \in Session |->
    IF sessions[s].state \in {"live", "verified"} /\ sessions[s].user = u
    THEN [sessions[s] EXCEPT !.knows = FALSE] ELSE sessions[s]]

RevokedTokens(u) ==
  [t \in Token |->
    IF token[t].state = "open" /\ token[t].user = u THEN [token[t] EXCEPT !.state = "over"]
    ELSE token[t]]

-----------------------------------------------------------------------------
\* The first administrator, by bootstrap-admin; the others are invited.
Init ==
  /\ \E first \in User :
       /\ account = [u \in User |-> IF u = first THEN "active" ELSE "absent"]
       /\ password = [u \in User |-> u = first]
  /\ factor = [u \in User |-> "off"]
  /\ failed = [u \in User |-> 0]
  /\ codes = [u \in User |-> 0]
  /\ session = [s \in Session |-> None]
  /\ token = [t \in Token |-> None]
  /\ hashing = [t \in Token |-> 0]
  /\ completed = [t \in Token |-> 0]
  /\ work = [u \in User |-> Idle]

\* A right password.  The older sessions end.
Login(u, s) ==
  /\ account[u] = "active" /\ password[u] /\ Unlocked(u)
  /\ session[s] = None
  /\ session' = [RevokedSessions(u) EXCEPT ![s] = Opened(u)]
  /\ UNCHANGED <<account, password, credential, token, requests, work>>

\* Logout, twelve hours, or two hours without a request.
EndSession(s) ==
  /\ Live(s)
  /\ session' = [session EXCEPT ![s] = Over]
  /\ UNCHANGED <<account, password, credential, token, requests, work>>

\* mfa execute finds the user of the session, locks user, session and
\* credential, and goes on if they are good and the credential is not locked.
Challenge(s) ==
  /\ Live(s)
  /\ LET u == session[s].user IN
       /\ account[u] = "active" /\ Unlocked(u)
       /\ failed[u] < MaxWrong

\* A wrong password or code.
FailChallenge(s) ==
  /\ Challenge(s)
  /\ failed' = [failed EXCEPT ![session[s].user] = @ + 1]
  /\ UNCHANGED <<account, password, factor, codes, session, token, requests, work>>

\* A right password: a new secret that this session may confirm.
Enroll(s) ==
  /\ Challenge(s)
  /\ LET u == session[s].user IN
       /\ factor[u] # "on"
       /\ factor' = [factor EXCEPT ![u] = s]
       /\ failed' = [failed EXCEPT ![u] = 0]
  /\ UNCHANGED <<account, password, codes, session, token, requests, work>>

\* A right code: the session is verified, n recovery codes are left and the
\* failures forgotten.
Verified(s, n) ==
  LET u == session[s].user IN
  /\ session' = [session EXCEPT ![s].state = "verified"]
  /\ codes' = [codes EXCEPT ![u] = n]
  /\ failed' = [failed EXCEPT ![u] = 0]
  /\ UNCHANGED <<account, password, token, requests, work>>

Confirm(s) ==
  /\ Challenge(s)
  /\ factor[session[s].user] = s
  /\ factor' = [factor EXCEPT ![session[s].user] = "on"]
  /\ Verified(s, MaxCodes)

Verify(s) ==
  /\ Challenge(s)
  /\ factor[session[s].user] = "on"
  /\ Verified(s, codes[session[s].user])
  /\ UNCHANGED factor

Recover(s) ==
  /\ Challenge(s)
  /\ factor[session[s].user] = "on" /\ codes[session[s].user] > 0
  /\ Verified(s, codes[session[s].user] - 1)
  /\ UNCHANGED factor

Regenerate(s) ==
  /\ Challenge(s)
  /\ factor[session[s].user] = "on" /\ session[s].state = "verified"
  /\ Verified(s, MaxCodes)
  /\ UNCHANGED factor

\* Ten minutes pass over an enrollment.
EnrollmentEnds(u) ==
  /\ factor[u] \in Session
  /\ factor' = [factor EXCEPT ![u] = "off"]
  /\ UNCHANGED <<account, password, failed, codes, session, token, requests, work>>

\* Fifteen minutes pass over a locked credential.
LockEnds(u) ==
  /\ failed[u] = MaxWrong
  /\ failed' = [failed EXCEPT ![u] = 0]
  /\ UNCHANGED <<account, password, factor, codes, session, token, requests, work>>

-----------------------------------------------------------------------------
\* administrator() lets a user with a verified session through and holds the
\* user's row; nobody changes the own status or resets the own factor.
Authorize(u, s, does, v) ==
  /\ account[u] = "active" /\ Unlocked(u)
  /\ session[s].state = "verified" /\ session[s].user = u
  /\ does \in Lifecycle => LifecycleFree
  /\ does \in {"activate", "deactivate", "reset"} => v # u
  /\ work' = [work EXCEPT ![u] = [does |-> does, target |-> v]]
  /\ UNCHANGED <<account, password, credential, session, token, requests>>

\* The transaction of u ends.  It holds the row of the other account if it
\* does something to it.
Finish(u) ==
  /\ work[u] # Idle
  /\ work[u].target = u \/ Unlocked(work[u].target)
  /\ work' = [work EXCEPT ![u] = Idle]
  /\ UNCHANGED requests

\* ROLLBACK: a refusal, a failure, or the victim of a deadlock.
Abort(u) ==
  /\ work[u] # Idle
  /\ work' = [work EXCEPT ![u] = Idle]
  /\ UNCHANGED <<account, password, credential, session, token, requests>>

\* Mutant of Issue: the open token is not revoked.
IssueAnother(v, purpose) ==
  \E t \in Token :
    token[t] = None /\ token' = [token EXCEPT ![t] = Issued(v, purpose)]

\* A new token for v; the open one is revoked.
Issue(v, purpose) ==
  \E t \in Token :
    token[t] = None /\ token' = [RevokedTokens(v) EXCEPT ![t] = Issued(v, purpose)]

Invite(u) ==
  LET v == work[u].target IN
  /\ Finish(u) /\ work[u].does = "invite"
  /\ account[v] = "absent"
  /\ account' = [account EXCEPT ![v] = "active"]
  /\ Issue(v, "invitation")
  /\ UNCHANGED <<password, credential, session>>

Reissue(u) ==
  LET v == work[u].target IN
  /\ Finish(u) /\ work[u].does = "reissue"
  /\ account[v] = "active"
  /\ Issue(v, IF password[v] THEN "password_reset" ELSE "invitation")
  /\ UNCHANGED <<account, password, credential, session>>

Activate(u) ==
  LET v == work[u].target IN
  /\ Finish(u) /\ work[u].does = "activate"
  /\ account[v] = "inactive"
  /\ account' = [account EXCEPT ![v] = "active"]
  /\ UNCHANGED <<password, credential, session, token>>

Deactivate(u) ==
  LET v == work[u].target IN
  /\ Finish(u) /\ work[u].does = "deactivate"
  /\ account[v] = "active"
  /\ account' = [account EXCEPT ![v] = "inactive"]
  /\ session' = RevokedSessions(v)
  /\ token' = RevokedTokens(v)
  /\ UNCHANGED <<password, credential>>

\* Mutant of ResetFactor: the sessions stay.
ResetFactorOnly(u) ==
  LET v == work[u].target IN
  /\ Finish(u) /\ work[u].does = "reset"
  /\ account[v] = "active" /\ factor[v] = "on"
  /\ factor' = [factor EXCEPT ![v] = "off"]
  /\ failed' = [failed EXCEPT ![v] = 0]
  /\ codes' = [codes EXCEPT ![v] = 0]
  /\ UNCHANGED <<account, password, session, token>>

\* resetByAdministrator: the factor, its codes and the sessions are gone.
ResetFactor(u) ==
  LET v == work[u].target IN
  /\ Finish(u) /\ work[u].does = "reset"
  /\ account[v] = "active" /\ factor[v] = "on"
  /\ factor' = [factor EXCEPT ![v] = "off"]
  /\ failed' = [failed EXCEPT ![v] = 0]
  /\ codes' = [codes EXCEPT ![v] = 0]
  /\ session' = RevokedSessions(v)
  /\ UNCHANGED <<account, password, token>>

-----------------------------------------------------------------------------
\* complete finds the token usable and goes to hash the password.
Check(t) ==
  /\ token[t].state = "open"
  /\ hashing[t] < MaxHashing
  /\ hashing' = [hashing EXCEPT ![t] = @ + 1]
  /\ UNCHANGED <<account, password, credential, session, token, completed, work>>

Fits(t) == token[t].purpose = "invitation" <=> ~password[token[t].user]

\* Mutant of Complete: the UPDATE does not ask for consumed_at IS NULL.
CompleteTwice(t) ==
  LET u == token[t].user IN
  /\ hashing[t] > 0
  /\ LifecycleFree /\ Unlocked(u)
  /\ account[u] = "active" /\ Fits(t) /\ token[t].state \in {"open", "used"}
  /\ hashing' = [hashing EXCEPT ![t] = @ - 1]
  /\ token' = [RevokedTokens(u) EXCEPT ![t].state = "used"]
  /\ completed' = [completed EXCEPT ![t] = @ + 1]
  /\ password' = [password EXCEPT ![u] = TRUE]
  /\ session' = NewPassword(u, RevokedSessions(u))
  /\ UNCHANGED <<account, credential, work>>

\* The password is hashed: account and token are looked at again under the
\* locks, the token is consumed, sessions and other tokens end.
Complete(t) ==
  LET u == token[t].user IN
  /\ hashing[t] > 0
  /\ LifecycleFree /\ Unlocked(u)
  /\ account[u] = "active" /\ Fits(t) /\ token[t].state = "open"
  /\ hashing' = [hashing EXCEPT ![t] = @ - 1]
  /\ token' = [RevokedTokens(u) EXCEPT ![t].state = "used"]
  /\ completed' = [completed EXCEPT ![t] = @ + 1]
  /\ password' = [password EXCEPT ![u] = TRUE]
  /\ session' = NewPassword(u, RevokedSessions(u))
  /\ UNCHANGED <<account, credential, work>>

\* A completion is refused or fails.
GiveUp(t) ==
  /\ hashing[t] > 0
  /\ hashing' = [hashing EXCEPT ![t] = @ - 1]
  /\ UNCHANGED <<account, password, credential, session, token, completed, work>>

\* A token runs out: 24 hours or 30 minutes.
TokenEnds(t) ==
  /\ token[t].state = "open"
  /\ token' = [token EXCEPT ![t].state = "over"]
  /\ UNCHANGED <<account, password, credential, session, requests, work>>

\* The script reset-admin-password.
ResetAdminPassword(u) ==
  /\ LifecycleFree /\ Unlocked(u) /\ account[u] = "active"
  /\ password' = [password EXCEPT ![u] = TRUE]
  /\ session' = NewPassword(u, RevokedSessions(u))
  /\ UNCHANGED <<account, credential, token, requests, work>>

Administer(u) ==
  \/ Invite(u) \/ Reissue(u) \/ Activate(u) \/ Deactivate(u) \/ ResetFactor(u) \/ Abort(u)

UseFactor(s) ==
  FailChallenge(s) \/ Enroll(s) \/ Confirm(s) \/ Verify(s) \/ Recover(s) \/ Regenerate(s)

Next ==
  \/ \E u \in User, s \in Session : Login(u, s)
  \/ \E s \in Session : EndSession(s) \/ UseFactor(s)
  \/ \E u \in User : EnrollmentEnds(u) \/ LockEnds(u) \/ Administer(u) \/ ResetAdminPassword(u)
  \/ \E u, v \in User, s \in Session, does \in Lifecycle \cup {"reset"} : Authorize(u, s, does, v)
  \/ \E t \in Token : Check(t) \/ Complete(t) \/ GiveUp(t) \/ TokenEnds(t)

Spec == Init /\ [][Next]_vars

-----------------------------------------------------------------------------
TypeOK ==
  /\ account \in [User -> {"absent", "active", "inactive"}]
  /\ password \in [User -> BOOLEAN]
  /\ factor \in [User -> {"off", "on"} \cup Session]
  /\ failed \in [User -> 0..MaxWrong]
  /\ codes \in [User -> 0..MaxCodes]
  /\ session \in [Session -> {None, Over} \cup
       [state : {"live", "verified"}, user : User, knows : BOOLEAN]]
  /\ token \in [Token -> {None} \cup
       [state : {"open", "used", "over"}, user : User, purpose : {"invitation", "password_reset"}]]
  /\ hashing \in [Token -> 0..MaxHashing]
  /\ completed \in [Token -> Nat]
  /\ work \in [User -> {Idle} \cup [does : Lifecycle \cup {"reset"}, target : User]]

\* A user has at most one live session; it was opened with the password the
\* account still has, the account is active, and what it verified is still the
\* factor of the account: whatever an administrator, a completion or a script
\* did between two requests.
SessionsAreCurrent ==
  \A s \in Session : Live(s) =>
    /\ account[session[s].user] = "active" /\ session[s].knows
    /\ session[s].state = "verified" => factor[session[s].user] = "on"
    /\ \A r \in Session : Live(r) /\ session[r].user = session[s].user => r = s

\* At most one token of a user is open, and only of an active user.
TokensAreCurrent ==
  \A t \in Token : token[t].state = "open" =>
    /\ account[token[t].user] = "active"
    /\ \A r \in Token : token[r].state = "open" /\ token[r].user = token[t].user => r = t

\* A session or a token that has ended stays ended: no request under way brings
\* it back, and no completion goes through on a token that has been used (two
\* requests with one token: one of them is refused), revoked or run out.
EndedStaysEnded ==
  [][/\ \A s \in Session : session[s].state = "over" => UNCHANGED session[s]
     /\ \A t \in Token : token[t].state \in {"used", "over"} =>
          UNCHANGED <<token[t], completed[t]>>]_vars

Able == {u \in User : account[u] = "active" /\ password[u] /\ factor[u] = "on"}

\* An administrator who was let through is one until the command ends: nobody
\* deactivates the account or resets its factor meanwhile.
AuthorityIsCurrent == \A u \in User : work[u] # Idle => u \in Able

\* Once there is an administrator who can log in and be verified there always
\* is one: administrators who act on each other at the same time do not lock
\* everybody out.
AdministratorRemains == [][Able # {} => Able' # {}]_vars

=============================================================================
