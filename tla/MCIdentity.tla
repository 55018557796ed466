----------------------------- MODULE MCIdentity -----------------------------
(* Accounts and Throttle share no state: a behaviour exercises one of them. *)
EXTENDS Accounts, Throttle, TLC

VARIABLE part

MCInit ==
  /\ part \in {"accounts", "throttle"}
  /\ Init /\ ThrottleInit

MCNext ==
  \/ part = "accounts" /\ Next /\ UNCHANGED <<part, throttleVars>>
  \/ part = "throttle" /\ ThrottleNext /\ UNCHANGED <<part, vars>>

MCSpec == MCInit /\ [][MCNext]_<<part, vars, throttleVars>>

Symmetry == Permutations(Session) \cup Permutations(Token) \cup Permutations(User)

=============================================================================
