---------------------------- MODULE MCSettlement ----------------------------
(* Settlement for TLC: entries, and payments, differ only by name. *)
EXTENDS Settlement, TLC

RowSymmetry == Permutations(Entry) \cup Permutations(Payment)

=============================================================================
