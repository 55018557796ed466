--------------------------- MODULE ThrottleProofs ---------------------------
(* The limit on failed logins, for any number of e-mails and addresses.    *)
EXTENDS Throttle, TLAPS

\* Logins that are being checked share no key and found theirs below the limit.
Inv ==
  /\ failures \in [Key -> 0..MaxFailures]
  /\ checking \subseteq Email \X Address
  /\ \A p, q \in checking : p[1] = q[1] \/ p[2] = q[2] => p = q
  /\ \A p \in checking : failures[p[1]] < MaxFailures /\ failures[p[2]] < MaxFailures

\* A login is counted and locks its keys.
LEMMA EnterStep ==
  ASSUME Inv, NEW e \in Email, NEW a \in Address, Enter(e, a) PROVE Inv'
<1>1. checking' = checking \cup {<<e, a>>} /\ UNCHANGED failures
  BY DEF Enter
<1>2. /\ \A p \in checking : p[1] # e /\ p[2] # a
      /\ failures[e] < MaxFailures /\ failures[a] < MaxFailures
  BY DEF Enter, Free
<1> QED
  BY <1>1, <1>2 DEF Inv

\* A login ends: the other logins keep their keys, whose failures do not grow.
LEMMA LeaveStep ==
  ASSUME Inv, NEW e \in Email, NEW a \in Address, Leave(e, a),
         failures' \in [Key -> 0..MaxFailures],
         \A k \in Key \ {e, a} : failures'[k] <= failures[k]
  PROVE  Inv'
<1>1. <<e, a>> \in checking /\ checking' = checking \ {<<e, a>>}
  BY DEF Leave
<1>2. ASSUME NEW p \in checking' PROVE failures'[p[1]] < MaxFailures /\ failures'[p[2]] < MaxFailures
  <2>1. p \in checking /\ p # <<e, a>> /\ p[1] \in Email /\ p[2] \in Address
    BY <1>1 DEF Inv
  <2>2. p[1] # e /\ p[2] # a
    BY <1>1, <2>1 DEF Inv
  <2>3. p[1] \in Key \ {e, a} /\ p[2] \in Key \ {e, a}
    BY <2>1, <2>2, ThrottleAssumption DEF Key
  <2>4. failures[p[1]] < MaxFailures /\ failures[p[2]] < MaxFailures
    BY <2>1 DEF Inv
  <2> QED
    BY <2>3, <2>4, ThrottleAssumption DEF Inv
<1> QED
  BY <1>1, <1>2 DEF Inv

\* Every step keeps it.
LEMMA Step == Inv /\ [ThrottleNext]_throttleVars => Inv'
<1> SUFFICES ASSUME Inv, [ThrottleNext]_throttleVars PROVE Inv'
  OBVIOUS
<1> USE ThrottleAssumption
<1>1. ASSUME NEW e \in Email, NEW a \in Address, Fail(e, a) PROVE Inv'
  <2>1. failures[e] < MaxFailures /\ failures[a] < MaxFailures
    BY <1>1 DEF Inv, Fail, Leave
  <2> QED
    <3>1. \A k \in Key : failures'[k] = failures[k] + IF k \in {e, a} THEN 1 ELSE 0
      BY <1>1 DEF Fail
    <3>2. \A k \in Key : failures'[k] \in 0..MaxFailures
      BY <2>1, <3>1 DEF Inv
    <3>3. failures' = [k \in Key |-> failures'[k]]
      BY <1>1 DEF Fail
    <3>4. \A k \in Key \ {e, a} : failures'[k] <= failures[k]
      BY <3>1 DEF Inv
    <3> QED
      BY <1>1, <3>2, <3>3, <3>4, LeaveStep DEF Fail
<1>2. ASSUME NEW e \in Email, NEW a \in Address, Succeed(e, a) PROVE Inv'
  BY <1>2, LeaveStep DEF Inv, Succeed, Key
<1>3. ASSUME NEW e \in Email, NEW a \in Address, Break(e, a) PROVE Inv'
  BY <1>3, LeaveStep DEF Inv, Break
<1>4. ASSUME NEW k \in Key, Age(k) PROVE Inv'
  BY <1>4 DEF Inv, Age, Key
<1>5. ASSUME NEW e \in Email, ResetLimits(e) PROVE Inv'
  BY <1>5 DEF Inv, ResetLimits, Key
<1>6. CASE UNCHANGED throttleVars
  BY <1>6 DEF Inv, throttleVars
<1> QED
  BY <1>1, <1>2, <1>3, <1>4, <1>5, <1>6, EnterStep DEF ThrottleNext

\* No key ever has more failures in a window than it may have, for any number
\* of e-mails, addresses and logins at the same time.
THEOREM LoginFailuresBounded == ThrottleSpec => []FailuresBounded
<1>1. ThrottleInit => Inv
  BY ThrottleAssumption DEF ThrottleInit, Inv
<1>2. Inv => FailuresBounded
  BY ThrottleAssumption DEF Inv, FailuresBounded
<1> QED
  BY <1>1, <1>2, Step, PTL DEF ThrottleSpec

=============================================================================
