----------------------------- MODULE AtMostOnce -----------------------------
(***************************************************************************)
(* What command_results promises to a caller that keeps its request id: a  *)
(* request takes effect at most once, whoever carries it out, and every    *)
(* answer to it names that one effect.  Commands implements this module.   *)
(***************************************************************************)
CONSTANTS
  Id,      \* request ids
  Effect   \* what a request can have brought about

VARIABLES
  outcome, \* request ids and their effects
  told     \* request ids and the effects their callers have been told of

ledger == <<outcome, told>>

Init == outcome = {} /\ told = {}

\* A request nothing has come of yet takes effect.
Perform(i, e) ==
  /\ \A f \in Effect : <<i, f>> \notin outcome
  /\ outcome' = outcome \cup {<<i, e>>}

\* Callers are told only what has happened.
Tell == told' \subseteq outcome' /\ told \subseteq told'

Next ==
  /\ Tell
  /\ UNCHANGED outcome \/ \E i \in Id, e \in Effect : Perform(i, e)

Spec == Init /\ [][Next]_ledger

=============================================================================
