---------------------------- MODULE PaymentBook ----------------------------
(***************************************************************************)
(* What the payments of a customer promise, with no ledger entry, draft or *)
(* reversal in sight: the money of a payment is free, stands for one bill, *)
(* or has been given back; a bill that was sent asks for a fixed amount    *)
(* less what stands for it.  Settlement implements this module.            *)
(***************************************************************************)
EXTENDS Integers

CONSTANTS
  Payment,
  Bill

VARIABLES
  state,   \* state[p]: "none", "recorded", "voided"
  free,    \* free[p]: money of p nobody has a claim on
  given,   \* given[p][b]: money of p that stands for b
  back,    \* back[p]: money of p that was given back
  billed,  \* the bills that were sent
  owed     \* owed[b]: what b still asks for

book == <<state, free, given, back, billed, owed>>

NoBill == [b \in Bill |-> 0]

Init ==
  /\ state = [p \in Payment |-> "none"]
  /\ free = [p \in Payment |-> 0]
  /\ given = [p \in Payment |-> NoBill]
  /\ back = [p \in Payment |-> 0]
  /\ billed = {}
  /\ owed = NoBill

\* Money comes in, once per payment.
Receive(p) ==
  /\ state[p] = "none"
  /\ state' = [state EXCEPT ![p] = "recorded"]
  /\ free'[p] \in Nat
  /\ free' = [free EXCEPT ![p] = free'[p]]
  /\ UNCHANGED <<given, back, billed, owed>>

\* A bill is sent; from now on it moves by payments alone.
Send(b) ==
  /\ b \notin billed
  /\ billed' = billed \cup {b}
  /\ owed'[b] \in Int
  /\ owed' = [owed EXCEPT ![b] = owed'[b]]
  /\ UNCHANGED <<state, free, given, back>>

\* Free money comes to stand for a bill, no more than the bill asks for.
Pay(p, b) ==
  /\ state[p] = "recorded"
  /\ b \in billed
  /\ given[p][b] = 0
  /\ \E a \in 1..free[p] :
       /\ a <= owed[b]
       /\ free' = [free EXCEPT ![p] = free[p] - a]
       /\ given' = [given EXCEPT ![p][b] = a]
       /\ owed' = [owed EXCEPT ![b] = owed[b] - a]
  /\ UNCHANGED <<state, back, billed>>

\* Free money is given back.
GiveBack(p) ==
  /\ state[p] = "recorded"
  /\ \E a \in 1..free[p] :
       /\ free' = [free EXCEPT ![p] = free[p] - a]
       /\ back' = [back EXCEPT ![p] = back[p] + a]
  /\ UNCHANGED <<state, given, billed, owed>>

\* A payment that gave nothing back never was: each bill asks again for
\* exactly what the payment stood for.
Void(p) ==
  /\ state[p] = "recorded"
  /\ back[p] = 0
  /\ state' = [state EXCEPT ![p] = "voided"]
  /\ free' = [free EXCEPT ![p] = 0]
  /\ given' = [given EXCEPT ![p] = NoBill]
  /\ owed' = [b \in Bill |-> owed[b] + given[p][b]]
  /\ UNCHANGED <<back, billed>>

Next ==
  \/ \E p \in Payment : Receive(p) \/ GiveBack(p) \/ Void(p)
  \/ \E b \in Bill : Send(b)
  \/ \E p \in Payment, b \in Bill : Pay(p, b)

Spec == Init /\ [][Next]_book

=============================================================================
