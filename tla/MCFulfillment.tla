--------------------------- MODULE MCFulfillment ---------------------------
(* Fulfillment for TLC: workers, and SKUs, differ only by name. *)
EXTENDS Fulfillment, TLC

WorkerSymmetry == Permutations(Worker)
SKUSymmetry == Permutations(SKU)

=============================================================================
