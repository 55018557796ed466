------------------------------ MODULE Throttle ------------------------------
(***************************************************************************)
(* The limit on failed logins: password-login.service.ts with table        *)
(* login_failures and the script reset-login-limits.  A login holds the    *)
(* advisory locks of its e-mail and of its address from the count of the   *)
(* failures to the insert of its own, with a slow password check between.  *)
(***************************************************************************)
EXTENDS Integers

CONSTANTS
  Email,       \* e-mails that logins name, of accounts or not
  Address,     \* addresses they come from
  Local,       \* those of the host itself
  MaxFailures  \* failures in a window before a key is blocked (5 in the code)

ASSUME ThrottleAssumption ==
  /\ MaxFailures \in Nat \ {0}
  /\ Email \cap Address = {}
  /\ Local \subseteq Address

Key == Email \cup Address

VARIABLES
  failures,  \* rows of login_failures with the key inside the last 15 minutes
  checking   \* logins that passed the count and are not yet committed

throttleVars == <<failures, checking>>

ThrottleInit ==
  /\ failures = [k \in Key |-> 0]
  /\ checking = {}

Free(e, a) == failures[e] < MaxFailures /\ failures[a] < MaxFailures

\* Mutant of Enter: the failures are counted without the advisory locks.
EnterUnlocked(e, a) ==
  /\ Free(e, a)
  /\ <<e, a>> \notin checking
  /\ checking' = checking \cup {<<e, a>>}
  /\ UNCHANGED failures

\* Both advisory locks, then isBlocked.
Enter(e, a) ==
  /\ \A login \in checking : login[1] # e /\ login[2] # a
  /\ Free(e, a)
  /\ checking' = checking \cup {<<e, a>>}
  /\ UNCHANGED failures

Leave(e, a) == <<e, a>> \in checking /\ checking' = checking \ {<<e, a>>}

\* A wrong password or an unknown account: one failure of each key, COMMIT.
Fail(e, a) ==
  /\ Leave(e, a)
  /\ failures' = [k \in Key |-> failures[k] + IF k \in {e, a} THEN 1 ELSE 0]

\* The session is opened; the failures of the e-mail go, those of the address
\* stay.
Succeed(e, a) ==
  /\ Leave(e, a)
  /\ failures' = [failures EXCEPT ![e] = 0]

\* ROLLBACK.
Break(e, a) == Leave(e, a) /\ UNCHANGED failures

\* The oldest failure of a key leaves the window.
Age(k) ==
  /\ failures[k] > 0
  /\ failures' = [failures EXCEPT ![k] = @ - 1]
  /\ UNCHANGED checking

\* The script forgets an e-mail and the addresses of the host, with no lock.
ResetLimits(e) ==
  /\ failures' = [k \in Key |-> IF k \in {e} \cup Local THEN 0 ELSE failures[k]]
  /\ UNCHANGED checking

ThrottleNext ==
  \/ \E e \in Email, a \in Address : Enter(e, a) \/ Fail(e, a) \/ Succeed(e, a) \/ Break(e, a)
  \/ \E k \in Key : Age(k)
  \/ \E e \in Email : ResetLimits(e)

ThrottleSpec == ThrottleInit /\ [][ThrottleNext]_throttleVars

-----------------------------------------------------------------------------
\* However many logins name an e-mail or come from an address at the same time,
\* no more than MaxFailures of them fail inside a window.
FailuresBounded == \A k \in Key : failures[k] <= MaxFailures

=============================================================================
