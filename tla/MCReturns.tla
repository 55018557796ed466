------------------------------ MODULE MCReturns ------------------------------
(* The returns of a shipment, the shelf they come back to and the files kept *)
(* with them share no state: a behaviour exercises one of the three.         *)
EXTENDS Returns, Shelf, Attachments, TLC

CONSTANTS l1, l2

VARIABLE part

\* Three units with a tax that they do not share evenly, and one unit.
ShippedUnits == (l1 :> 3) @@ (l2 :> 1)
ShippedTax == (l1 :> 4) @@ (l2 :> 1)

MCInit ==
  /\ part \in {"returns", "shelf", "attachments"}
  /\ Init /\ Begin /\ NoFiles

MCNext ==
  \/ part = "returns" /\ Next /\ UNCHANGED <<part, shelfVars, attachmentVars>>
  \/ part = "shelf" /\ Step /\ UNCHANGED <<part, vars, attachmentVars>>
  \/ part = "attachments" /\ AttachmentsNext /\ UNCHANGED <<part, vars, shelfVars>>

MCSpec == MCInit /\ [][MCNext]_<<part, vars, shelfVars, attachmentVars>>

Symmetry == Permutations(Return) \cup Permutations(Inspection) \cup Permutations(Disposition)

=============================================================================
