------------------------------- MODULE Returns -------------------------------
(***************************************************************************)
(* The returns of one shipment: return.service.                            *)
(*                                                                         *)
(* A command locks the rows whose totals it is about to add to (the        *)
(* shipment lines of a request and of a credit, the return line of an      *)
(* inspection, the inspection of a disposition, the disposition of a       *)
(* resolution) before it reads the totals, and everybody who adds to them  *)
(* locks the same row: one command is one step.  Rows are never deleted.   *)
(*                                                                         *)
(* A stock count of the SKU, an inactive supplier and a missing price may  *)
(* refuse a command at any time and change nothing.                        *)
(***************************************************************************)
EXTENDS Integers, FiniteSets

CONSTANTS
  Line,         \* the shipment lines of a shipment
  Return,       \* returns ever requested
  Inspection,   \* return_inspections ever made
  Disposition,  \* return_defect_dispositions ever made
  Shipped,      \* shipment_lines.quantity
  Tax,          \* receivable_entries.tax_amount of the shipment line
  MaxUnits      \* bound: the units of one command

ASSUME ReturnsAssumption ==
  /\ IsFiniteSet(Line) /\ IsFiniteSet(Return)
  /\ IsFiniteSet(Inspection) /\ IsFiniteSet(Disposition)
  /\ Shipped \in [Line -> Nat \ {0}]
  /\ Tax \in [Line -> Nat]
  /\ MaxUnits \in Nat

ReturnLine == Return \X Line

VARIABLES
  status,       \* returns.status, or "none"
  asked,        \* return_lines.requested_quantity; 0: no such row
  received,     \* return_lines.received_quantity
  defective,    \* return_lines.defective_quantity; the rest is normal
  restocked,    \* what inventory_movements of type 'return' added
  inspection,   \* return_inspections
  disposition,  \* return_defect_dispositions
  resolved,     \* what return_defect_resolutions took of a disposition
  credit        \* return_credits, at most one of an inspection; units 0: none

vars == <<status, asked, received, defective, restocked,
          inspection, disposition, resolved, credit>>

None == [is |-> "none"]
Inspected(p, got, bad) == [is |-> "inspection", of |-> p, received |-> got, defective |-> bad]
Decided(i, q, what) == [is |-> what, of |-> i, quantity |-> q]

Units(S, f) == UNION {{x} \X (1..f[x]) : x \in S}

\* The sum of f over S.
Sum(S, f) == Cardinality(Units(S, f))

LinesOf(l) == {p \in ReturnLine : p[2] = l}
InspectionsOf(l) ==
  {i \in Inspection : inspection[i].is = "inspection" /\ inspection[i].of[2] = l}
DispositionsOf(i) ==
  {d \in Disposition : disposition[d].is # "none" /\ disposition[d].of = i}

Requested(l) == Sum(LinesOf(l), asked)

Quantities == [d \in Disposition |-> IF disposition[d].is = "none" THEN 0 ELSE disposition[d].quantity]
Disposed(i) == Sum(DispositionsOf(i), Quantities)

CreditUnits == [i \in Inspection |-> credit[i].units]
CreditTax == [i \in Inspection |-> credit[i].tax]
Credited(l) == Sum(InspectionsOf(l), CreditUnits)
TaxCredited(l) == Sum(InspectionsOf(l), CreditTax)

\* Mutant of TargetTax: the tax of a unit is rounded and multiplied.
UnitTax(l, units) == units * ((Tax[l] + Shipped[l] \div 2) \div Shipped[l])

\* The tax of the first units of a shipment line, rounded half up.
TargetTax(l, units) == (Tax[l] * units + Shipped[l] \div 2) \div Shipped[l]

-----------------------------------------------------------------------------
Init ==
  /\ status = [r \in Return |-> "none"]
  /\ asked = [p \in ReturnLine |-> 0]
  /\ received = [p \in ReturnLine |-> 0]
  /\ defective = [p \in ReturnLine |-> 0]
  /\ restocked = [l \in Line |-> 0]
  /\ inspection = [i \in Inspection |-> None]
  /\ disposition = [d \in Disposition |-> None]
  /\ resolved = [d \in Disposition |-> 0]
  /\ credit = [i \in Inspection |-> [units |-> 0, tax |-> 0]]

\* request: q units of each line, 0 of those that are not in it.
Request(r, q) ==
  /\ status[r] = "none"
  /\ \E l \in Line : q[l] > 0
  /\ \A l \in Line : q[l] > 0 => Requested(l) + q[l] <= Shipped[l]
  /\ status' = [status EXCEPT ![r] = "requested"]
  /\ asked' = [p \in ReturnLine |-> IF p[1] = r THEN q[p[2]] ELSE asked[p]]
  /\ UNCHANGED <<received, defective, restocked, inspection, disposition, resolved, credit>>

\* Mutant of Complete: the inspected line alone completes the return.
LineComplete(r, got) == \E l \in Line : asked[<<r, l>>] > 0 /\ got[<<r, l>>] = asked[<<r, l>>]

Complete(r, got) == \A l \in Line : got[<<r, l>>] = asked[<<r, l>>]

\* inspect: n normal units go back to the shelf, bad ones wait for a decision.
Inspect(i, p, n, bad) ==
  /\ inspection[i] = None
  /\ status[p[1]] # "none"
  /\ n + bad > 0 /\ received[p] + n + bad <= asked[p]
  /\ inspection' = [inspection EXCEPT ![i] = Inspected(p, n + bad, bad)]
  /\ received' = [received EXCEPT ![p] = @ + n + bad]
  /\ defective' = [defective EXCEPT ![p] = @ + bad]
  /\ restocked' = [restocked EXCEPT ![p[2]] = @ + n]
  /\ status' = [status EXCEPT ![p[1]] =
                  IF Complete(p[1], received') THEN "inspected" ELSE "inspecting"]
  /\ UNCHANGED <<asked, disposition, resolved, credit>>

\* defectDisposition: what becomes of q defective units of an inspection.
Dispose(d, i, q, what) ==
  /\ disposition[d] = None
  /\ inspection[i].is = "inspection"
  /\ q > 0 /\ Disposed(i) + q <= inspection[i].defective
  /\ disposition' = [disposition EXCEPT ![d] = Decided(i, q, what)]
  /\ UNCHANGED <<status, asked, received, defective, restocked, inspection, resolved, credit>>

\* resolveDefect: q units leave the quarantine.
Resolve(d, q) ==
  /\ disposition[d].is = "quarantine"
  /\ q > 0 /\ resolved[d] + q <= disposition[d].quantity
  /\ resolved' = [resolved EXCEPT ![d] = @ + q]
  /\ UNCHANGED <<status, asked, received, defective, restocked, inspection, disposition, credit>>

\* Mutant of Credit: a second credit of an inspection adds to the first.
CreditAgain(i, q) ==
  LET l == inspection[i].of[2] IN
  /\ inspection[i].is = "inspection"
  /\ q > 0 /\ q <= inspection[i].received
  /\ credit' = [credit EXCEPT ![i] =
       [units |-> credit[i].units + q,
        tax |-> credit[i].tax + TargetTax(l, Credited(l) + q) - TaxCredited(l)]]
  /\ UNCHANGED <<status, asked, received, defective, restocked, inspection, disposition, resolved>>

\* credit: q of the inspected units are credited with the tax that is still due
\* to the units credited so far.
Credit(i, q) ==
  LET l == inspection[i].of[2] IN
  /\ inspection[i].is = "inspection"
  /\ q > 0 /\ q <= inspection[i].received
  /\ credit[i].units = 0
  /\ credit' = [credit EXCEPT ![i] =
       [units |-> q, tax |-> TargetTax(l, Credited(l) + q) - TaxCredited(l)]]
  /\ UNCHANGED <<status, asked, received, defective, restocked, inspection, disposition, resolved>>

Next ==
  \/ \E r \in Return, q \in [Line -> 0..MaxUnits] : Request(r, q)
  \/ \E i \in Inspection, p \in ReturnLine, n, bad \in 0..MaxUnits : Inspect(i, p, n, bad)
  \/ \E d \in Disposition, i \in Inspection, q \in 1..MaxUnits,
        what \in {"quarantine", "disposed", "supplier_return"} : Dispose(d, i, q, what)
  \/ \E d \in Disposition, q \in 1..MaxUnits : Resolve(d, q)
  \/ \E i \in Inspection, q \in 1..MaxUnits : Credit(i, q)

Spec == Init /\ [][Next]_vars

-----------------------------------------------------------------------------
TypeOK ==
  /\ status \in [Return -> {"none", "requested", "inspecting", "inspected"}]
  /\ asked \in [ReturnLine -> Nat]
  /\ received \in [ReturnLine -> Nat]
  /\ defective \in [ReturnLine -> Nat]
  /\ restocked \in [Line -> Nat]
  /\ inspection \in [Inspection -> {None} \cup
       [is : {"inspection"}, of : ReturnLine, received : Nat \ {0}, defective : Nat]]
  /\ disposition \in [Disposition -> {None} \cup
       [is : {"quarantine", "disposed", "supplier_return"}, of : Inspection, quantity : Nat \ {0}]]
  /\ resolved \in [Disposition -> Nat]
  /\ credit \in [Inspection -> [units : Nat, tax : Nat]]

\* However many returns, partial inspections, decisions and credits there are of
\* a shipment line: no more comes back than was shipped, no more is credited than
\* came back, the defective units are decided on once and what left the
\* quarantine was in it, and what came back is on the shelf or defective.
UnitsAccountedFor ==
  /\ \A l \in Line :
       /\ Requested(l) <= Shipped[l]
       /\ Credited(l) <= Sum(LinesOf(l), received)
       /\ restocked[l] + Sum(LinesOf(l), defective) = Sum(LinesOf(l), received)
  /\ \A i \in Inspection :
       inspection[i].is = "inspection" => Disposed(i) <= inspection[i].defective
  /\ \A d \in Disposition : disposition[d].is # "none" => resolved[d] <= disposition[d].quantity

\* The status of a return says how far its lines are.
StatusTellsProgress ==
  \A r \in Return : status[r] # "none" =>
    /\ status[r] = "inspected" <=> \A l \in Line : received[<<r, l>>] = asked[<<r, l>>]
    /\ status[r] = "requested" <=> \A l \in Line : received[<<r, l>>] = 0

\* Credits in parts give the tax of the shipment line back to the last unit of
\* the currency: never more of it, and all of it with the last unit; and no
\* credit takes tax.
CreditsReturnTheTax ==
  /\ \A i \in Inspection : credit[i].tax >= 0
  /\ \A l \in Line :
       /\ TaxCredited(l) <= Tax[l]
       /\ Credited(l) = Shipped[l] => TaxCredited(l) = Tax[l]

=============================================================================
