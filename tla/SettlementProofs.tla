-------------------------- MODULE SettlementProofs --------------------------
(* The safety properties of the settlement, for any number of entries,     *)
(* payments and months and any amounts.                                    *)
EXTENDS Settlement, FiniteSetTheorems, TLAPS

-----------------------------------------------------------------------------
(* Sums.                                                                   *)

\* The units of a finite sum are a finite set.
LEMMA UnitsFinite ==
  ASSUME NEW S, NEW f, IsFiniteSet(S)
  PROVE  IsFiniteSet(Units(S, f)) /\ Sum(S, f) \in Nat
<1>1. IsFiniteSet(Amount)
  BY SettlementAssumption, FS_Interval DEF Amount
<1>2. IsFiniteSet(S \X Amount)
  BY <1>1, FS_Product
<1>3. Units(S, f) \subseteq S \X Amount
  BY DEF Units
<1> QED
  BY <1>2, <1>3, FS_Subset, FS_CardinalityType DEF Sum

\* A sum of no more elements, none of them larger, is no larger.
LEMMA SumMonotone ==
  ASSUME NEW S, NEW T, NEW f, NEW g, IsFiniteSet(T), S \subseteq T,
         \A y \in S : f[y] \in 0..MaxAmount, \A y \in T : g[y] \in 0..MaxAmount,
         \A x \in S : f[x] <= g[x]
  PROVE  Sum(S, f) <= Sum(T, g)
<1>1. Units(S, f) \subseteq Units(T, g)
  BY SettlementAssumption DEF Units, Amount
<1> QED
  BY <1>1, UnitsFinite, FS_Subset DEF Sum

\* A sum in which one element has become, or is new and is, at most a.
LEMMA SumGrows ==
  ASSUME NEW S, NEW T, NEW f, NEW g, NEW x, NEW a \in 0..MaxAmount,
         IsFiniteSet(S), IsFiniteSet(T), T \ {x} \subseteq S,
         \A y \in S : f[y] \in 0..MaxAmount, \A y \in T : g[y] \in 0..MaxAmount,
         x \in T => g[x] <= a,
         \A y \in T \ {x} : g[y] <= f[y]
  PROVE  Sum(T, g) <= Sum(S, f) + a
<1> DEFINE extra == {x} \X (1..a)
<1>1. /\ IsFiniteSet(1..a) /\ Cardinality(1..a) = a
      /\ IsFiniteSet({x}) /\ Cardinality({x}) = 1
  <2>1. a \in Nat
    BY SettlementAssumption
  <2>2. IsFiniteSet(1..a) /\ Cardinality(1..a) = IF 1 > a THEN 0 ELSE a - 1 + 1
    BY <2>1, FS_Interval
  <2>3. Cardinality(1..a) = a
    BY <2>1, <2>2
  <2>4. IsFiniteSet({x}) /\ Cardinality({x}) = 1
    BY FS_Singleton, Zenon
  <2> QED
    BY <2>2, <2>3, <2>4
<1>2. IsFiniteSet(extra) /\ Cardinality(extra) = a
  <2>1. IsFiniteSet(extra) /\ Cardinality(extra) = Cardinality({x}) * Cardinality(1..a)
    BY <1>1, FS_Product, Zenon
  <2> QED
    BY <1>1, <2>1
<1>3. Units(T, g) \subseteq Units(S, f) \cup extra
  <2> SUFFICES ASSUME NEW y \in T, NEW k \in Amount, k <= g[y]
               PROVE  <<y, k>> \in Units(S, f) \cup extra
    BY DEF Units
  <2>1. CASE y = x
    <3>1. g[x] \in 0..MaxAmount /\ g[x] <= a
      BY <2>1
    <3>2. k \in 1..a
      BY <2>1, <3>1, SettlementAssumption DEF Amount
    <3> QED
      BY <2>1, <3>2
  <2>2. CASE y # x
    <3>1. y \in S /\ f[y] \in 0..MaxAmount /\ g[y] \in 0..MaxAmount /\ g[y] <= f[y]
      BY <2>2
    <3>2. k <= f[y]
      BY <3>1, SettlementAssumption DEF Amount
    <3> QED
      BY <3>1, <3>2 DEF Units
  <2> QED
    BY <2>1, <2>2
<1> HIDE DEF extra
<1>4. /\ IsFiniteSet(Units(S, f)) /\ Cardinality(Units(S, f)) \in Nat
      /\ IsFiniteSet(Units(T, g)) /\ Cardinality(Units(T, g)) \in Nat
  BY UnitsFinite DEF Sum
<1>5. /\ IsFiniteSet(Units(S, f) \cup extra)
      /\ Cardinality(Units(S, f) \cup extra) <= Cardinality(Units(S, f)) + a
  <2>1. /\ IsFiniteSet(Units(S, f) \cup extra)
        /\ Cardinality(Units(S, f) \cup extra)
             = Cardinality(Units(S, f)) + a - Cardinality(Units(S, f) \cap extra)
    BY <1>2, <1>4, FS_Union
  <2>2. Cardinality(Units(S, f) \cap extra) \in Nat
    BY <1>4, FS_Intersection, FS_CardinalityType
  <2> QED
    BY <1>4, <2>1, <2>2
<1>6. /\ Cardinality(Units(T, g)) <= Cardinality(Units(S, f) \cup extra)
      /\ Cardinality(Units(S, f) \cup extra) \in Nat
  BY <1>3, <1>5, FS_Subset, FS_CardinalityType
<1> QED
  BY <1>4, <1>5, <1>6 DEF Sum

\* A sum of zeros is zero.
LEMMA SumZero ==
  ASSUME NEW S, NEW f, \A x \in S : f[x] = 0 PROVE Sum(S, f) = 0
<1>1. Units(S, f) = {}
  BY SettlementAssumption DEF Units, Amount
<1> QED
  BY <1>1, FS_EmptySet DEF Sum

\* A sum depends on the elements of its set only.
LEMMA SumSame ==
  ASSUME NEW S, NEW f, NEW g, \A x \in S : f[x] = g[x]
  PROVE  Sum(S, f) = Sum(S, g)
<1>1. Units(S, f) = Units(S, g)
  BY DEF Units
<1> QED
  BY <1>1 DEF Sum

-----------------------------------------------------------------------------
(* Types.                                                                  *)

\* The sums the guards read are numbers.
LEMMA SumsAreNumbers ==
  ASSUME TypeOK
  PROVE  /\ \A p \in Payment : Used(p) \in Nat
         /\ \A m \in Month : Settled(m) \in Nat /\ Due(m) \in Int
         /\ \A e \in Entry : Credited(e) \in Nat /\ CreditRefunded(e) \in Nat
<1>1. IsFiniteSet(Month)
  BY SettlementAssumption, FS_Interval DEF Month
<1>2. \A k, e : IsFiniteSet(Of(k, e))
  BY SettlementAssumption, FS_Subset DEF Of
<1>3. \A m \in Month : Charges(m) \subseteq Entry /\ Credits(m) \subseteq Entry
  BY DEF Charges, Credits, TypeOK
<1>4. \A m \in Month : IsFiniteSet(Charges(m)) /\ IsFiniteSet(Credits(m))
  BY <1>3, SettlementAssumption, FS_Subset
<1>5. \A m \in Month : Sum(Charges(m), amount) \in Nat /\ Sum(Credits(m), amount) \in Nat
  BY <1>4, UnitsFinite
<1>6. \A p \in Payment : Used(p) \in Nat
  BY <1>1, UnitsFinite DEF Used
<1>7. \A m \in Month : Settled(m) \in Nat
  BY SettlementAssumption, UnitsFinite DEF Settled
<1>8. \A e \in Entry : Credited(e) \in Nat /\ CreditRefunded(e) \in Nat
  BY <1>2, UnitsFinite DEF Credited, CreditRefunded
<1> QED
  BY <1>5, <1>6, <1>7, <1>8 DEF Due

\* Every step keeps the types.
LEMMA SettlementTypeStep == TypeOK /\ [Next]_vars => TypeOK'
<1> SUFFICES ASSUME TypeOK, [Next]_vars PROVE TypeOK'
  OBVIOUS
<1> USE SettlementAssumption DEF TypeOK, settlementVars, paymentVars, entryVars
<1>1. CASE NextMonth
  BY <1>1 DEF NextMonth
<1>2. ASSUME NEW e \in Entry, Commit(e) PROVE TypeOK'
  BY <1>2 DEF Commit
<1>3. ASSUME NEW e \in Entry, Rollback(e) PROVE TypeOK'
  BY <1>3 DEF Rollback, Month
<1>4. ASSUME NEW e \in Entry, NEW k \in {"shipment", "credit", "refund"}, NEW a \in Amount,
             NEW m \in Month, NEW x \in Entry, Post(e, k, a, m, x)
      PROVE  TypeOK'
  BY <1>4 DEF Post, Amount
<1>5. ASSUME NEW e \in Entry, NEW a \in Amount, Ship(e, a) PROVE TypeOK'
  <2>1. today \in Month
    BY DEF Month
  <2> QED
    BY <1>4, <1>5, <2>1 DEF Ship
<1>6. ASSUME NEW e \in Entry, NEW x \in Entry, NEW a \in Amount, Credit(e, x, a) PROVE TypeOK'
  <2>1. \E m \in Month : Post(e, "credit", a, m, x)
    BY <1>6 DEF Credit, CreditMonth, Month
  <2> QED
    BY <1>4, <2>1
<1>7. ASSUME NEW e \in Entry, NEW x \in Entry, NEW a \in Amount, NEW d \in Month,
             RefundCredit(e, x, a, d)
      PROVE  TypeOK'
  <2>1. \E m \in Month : Post(e, "refund", a, m, x)
    BY <1>7 DEF RefundCredit, Month
  <2> QED
    BY <1>4, <2>1
<1>8. ASSUME NEW m \in Month, Draft(m) \/ Finalize(m) PROVE TypeOK'
  <2>1. Unsettled(m) \in SUBSET Entry
    BY DEF Unsettled
  <2>2. CASE Draft(m)
    BY <2>1, <2>2 DEF Draft
  <2>3. CASE Finalize(m)
    BY <2>3 DEF Finalize
  <2> QED
    BY <1>8, <2>2, <2>3
<1>9. ASSUME NEW p \in Payment, VoidPayment(p) PROVE TypeOK'
  BY <1>9 DEF VoidPayment, Allocations
<1>10. ASSUME NEW p \in Payment, NEW a \in Amount, RecordPayment(p, a) PROVE TypeOK'
  BY <1>10 DEF RecordPayment, Amount
<1>11. ASSUME NEW p \in Payment, NEW a \in Amount, RefundPayment(p, a) PROVE TypeOK'
  <2>1. Used(p) \in Nat
    BY SumsAreNumbers
  <2>2. refunded[p] + a \in 0..MaxAmount
    BY <1>11, <2>1 DEF RefundPayment, Unspent, Amount
  <2> QED
    BY <1>11, <2>2 DEF RefundPayment
<1>12. ASSUME NEW p \in Payment, NEW a \in Amount, NEW m \in Month, Allocate(p, m, a)
       PROVE  TypeOK'
  <2>1. [allocated[p] EXCEPT ![m] = a] \in [Month -> 0..MaxAmount]
    BY DEF Amount
  <2> QED
    BY <1>12, <2>1 DEF Allocate
<1>13. CASE UNCHANGED vars
  BY <1>13 DEF vars
<1> QED
  BY <1>1, <1>2, <1>3, <1>5, <1>6, <1>7, <1>8, <1>9, <1>10, <1>11, <1>12, <1>13 DEF Next

\* The variables keep their types.
THEOREM SettlementTypes == Spec => []TypeOK
<1>1. Init => TypeOK
  BY SettlementAssumption DEF Init, TypeOK, Month
<1> QED
  BY <1>1, SettlementTypeStep, PTL DEF Spec

-----------------------------------------------------------------------------
(* What is allocated, by payment and by settlement.                        *)

\* Amounts that are allocated and not reversed are amounts.
LEMMA LiveType ==
  ASSUME TypeOK, NEW p \in Payment, NEW m \in Month
  PROVE  Live(p, m) \in 0..MaxAmount
BY SettlementAssumption DEF TypeOK, Live

\* The months are finitely many.
LEMMA MonthsFinite == IsFiniteSet(Month)
  BY SettlementAssumption, FS_Interval DEF Month

\* A step that allocates and reverses nothing leaves the sums as they are.
LEMMA SumsStay ==
  ASSUME UNCHANGED <<allocated, reversed>>
  PROVE  /\ \A p \in Payment : Used(p)' = Used(p)
         /\ \A m \in Month : Settled(m)' = Settled(m)
  BY DEF Used, Settled, Live

\* An allocation adds at most its amount to one payment and one settlement.
LEMMA SumsAllocate ==
  ASSUME TypeOK, TypeOK', NEW p \in Payment, NEW m \in Month, NEW a \in Amount,
         Allocate(p, m, a)
  PROVE  /\ Used(p)' <= Used(p) + a
         /\ Settled(m)' <= Settled(m) + a
         /\ \A q \in Payment \ {p} : Used(q)' = Used(q)
         /\ \A x \in Month \ {m} : Settled(x)' = Settled(x)
<1> DEFINE byMonth(q) == [x \in Month |-> Live(q, x)]
           byPayment(x) == [q \in Payment |-> Live(q, x)]
<1>1. a \in 0..MaxAmount
  BY DEF Amount
<1>2. /\ Live(p, m)' <= a
      /\ \A q \in Payment, x \in Month : q # p \/ x # m => Live(q, x)' = Live(q, x)
  BY <1>1, SettlementAssumption DEF Allocate, Live, TypeOK
<1>3. /\ \A q \in Payment, x \in Month : byMonth(q)[x] \in 0..MaxAmount
      /\ \A q \in Payment, x \in Month : byMonth(q)'[x] \in 0..MaxAmount
      /\ \A q \in Payment, x \in Month : byPayment(x)[q] \in 0..MaxAmount
      /\ \A q \in Payment, x \in Month : byPayment(x)'[q] \in 0..MaxAmount
  <2>1. \A q \in Payment, x \in Month : Live(q, x) \in 0..MaxAmount
    BY LiveType
  <2>2. \A q \in Payment, x \in Month : Live(q, x)' \in 0..MaxAmount
    BY SettlementAssumption DEF TypeOK, Live
  <2> QED
    BY <2>1, <2>2
<1>4. Sum(Month, byMonth(p)') <= Sum(Month, byMonth(p)) + a
  <2>1. \A x \in Month \ {m} : byMonth(p)'[x] <= byMonth(p)[x]
    BY <1>2, <1>3
  <2>2. byMonth(p)'[m] <= a
    BY <1>2
  <2> HIDE DEF byMonth
  <2> QED
    BY <1>1, <1>3, <2>1, <2>2, MonthsFinite, SumGrows
<1>5. Sum(Payment, byPayment(m)') <= Sum(Payment, byPayment(m)) + a
  <2>1. \A q \in Payment \ {p} : byPayment(m)'[q] <= byPayment(m)[q]
    BY <1>2, <1>3
  <2>2. byPayment(m)'[p] <= a
    BY <1>2
  <2>3. IsFiniteSet(Payment)
    BY SettlementAssumption
  <2> HIDE DEF byPayment
  <2> QED
    BY <1>1, <1>3, <2>1, <2>2, <2>3, SumGrows
<1>6. \A q \in Payment \ {p} : Used(q)' = Used(q)
  BY <1>2, SumSame DEF Used
<1>7. \A x \in Month \ {m} : Settled(x)' = Settled(x)
  BY <1>2, SumSame DEF Settled
<1> QED
  BY <1>4, <1>5, <1>6, <1>7 DEF Used, Settled

\* Voiding a payment leaves nothing of it and adds to no settlement.
LEMMA SumsVoid ==
  ASSUME TypeOK, TypeOK', NEW p \in Payment, VoidPayment(p)
  PROVE  /\ Used(p)' = 0
         /\ \A q \in Payment \ {p} : Used(q)' = Used(q)
         /\ \A m \in Month : Settled(m)' <= Settled(m)
<1>1. /\ \A m \in Month : Live(p, m)' = 0
      /\ \A q \in Payment \ {p}, m \in Month : Live(q, m)' = Live(q, m)
  BY SettlementAssumption DEF VoidPayment, Allocations, Live, TypeOK
<1>2. Used(p)' = 0
  BY <1>1, SumZero DEF Used
<1>3. \A q \in Payment \ {p} : Used(q)' = Used(q)
  BY <1>1, SumSame DEF Used
<1>4. ASSUME NEW m \in Month PROVE Settled(m)' <= Settled(m)
  <2> DEFINE byPayment == [q \in Payment |-> Live(q, m)]
  <2>1. \A q \in Payment : Live(q, m) \in 0..MaxAmount /\ Live(q, m)' \in 0..MaxAmount
    BY SettlementAssumption DEF TypeOK, Live
  <2>2. \A q \in Payment : /\ byPayment[q] \in 0..MaxAmount /\ byPayment'[q] \in 0..MaxAmount
                           /\ byPayment'[q] <= byPayment[q]
    BY <1>1, <2>1
  <2>3. IsFiniteSet(Payment)
    BY SettlementAssumption
  <2>4. /\ byPayment \in [Payment -> 0..MaxAmount]
        /\ byPayment' \in [Payment -> 0..MaxAmount]
    BY <2>1
  <2> HIDE DEF byPayment
  <2>5. Sum(Payment, byPayment') <= Sum(Payment, byPayment)
    BY <2>2, <2>3, <2>4, SumMonotone
  <2> QED
    BY <2>5 DEF Settled, byPayment
<1> QED
  BY <1>2, <1>3, <1>4

-----------------------------------------------------------------------------
(* Payments.                                                               *)

PaymentsInv ==
  /\ PaymentsNotOverused
  /\ VoidedPaymentsHoldNothing
  /\ \A p \in Payment : payment[p] = "none" => paid[p] = 0

\* Which steps write the payments' rows.
LEMMA PaymentSteps ==
  ASSUME [Next]_vars
  PROVE  \/ UNCHANGED paymentVars
         \/ \E p \in Payment :
              \/ VoidPayment(p)
              \/ \E a \in Amount : \/ RecordPayment(p, a) \/ RefundPayment(p, a)
                                   \/ \E m \in Month : Allocate(p, m, a)
  BY DEF Next, vars, NextMonth, Commit, Rollback, Ship, Credit, RefundCredit, Post,
         Draft, Finalize, paymentVars

\* Every step keeps payments within their amounts and voided ones empty.
LEMMA PaymentsStep == TypeOK /\ TypeOK' /\ PaymentsInv /\ [Next]_vars => PaymentsInv'
<1> SUFFICES ASSUME TypeOK, TypeOK', PaymentsInv, [Next]_vars PROVE PaymentsInv'
  OBVIOUS
<1> USE SettlementAssumption
        DEF PaymentsInv, PaymentsNotOverused, VoidedPaymentsHoldNothing
<1>0. /\ \A q \in Payment : Used(q) \in Nat /\ Used(q)' \in Nat
      /\ \A q \in Payment : paid[q] \in Nat /\ refunded[q] \in Nat
  <2>1. \A q \in Payment : Used(q) \in Nat
    BY SumsAreNumbers
  <2>2. \A q \in Payment : Used(q)' \in Nat
    BY MonthsFinite, UnitsFinite DEF Used
  <2> QED
    BY <2>1, <2>2 DEF TypeOK
<1>1. CASE UNCHANGED paymentVars
  BY <1>1, SumsStay DEF paymentVars
<1>2. ASSUME NEW p \in Payment, VoidPayment(p) PROVE PaymentsInv'
  <2>1. Used(p)' = 0 /\ \A q \in Payment \ {p} : Used(q)' = Used(q)
    BY <1>2, SumsVoid
  <2>2. /\ payment[p] = "recorded" /\ refunded[p] = 0 /\ paid' = paid /\ refunded' = refunded
        /\ payment'[p] = "voided" /\ \A q \in Payment \ {p} : payment'[q] = payment[q]
    BY <1>2 DEF VoidPayment, TypeOK
  <2> QED
    BY <1>0, <2>1, <2>2
<1>3. ASSUME NEW p \in Payment, NEW a \in Amount, RecordPayment(p, a) PROVE PaymentsInv'
  <2>1. \A q \in Payment : Used(q)' = Used(q)
    BY <1>3, SumsStay DEF RecordPayment
  <2>2. /\ payment[p] = "none" /\ payment' = [payment EXCEPT ![p] = "recorded"]
        /\ paid' = [paid EXCEPT ![p] = a] /\ refunded' = refunded /\ a \in Nat
    BY <1>3 DEF RecordPayment, Amount
  <2>3. Used(p) = 0 /\ refunded[p] = 0
    BY <1>0, <2>2
  <2>4. \A q \in Payment \ {p} : paid'[q] = paid[q] /\ payment'[q] = payment[q]
    BY <2>2 DEF TypeOK
  <2>5. paid'[p] = a /\ payment'[p] = "recorded"
    BY <2>2 DEF TypeOK
  <2> QED
    BY <1>0, <2>1, <2>2, <2>3, <2>4, <2>5
<1>4. ASSUME NEW p \in Payment, NEW a \in Amount, RefundPayment(p, a) PROVE PaymentsInv'
  <2>1. \A q \in Payment : Used(q)' = Used(q)
    BY <1>4, SumsStay DEF RefundPayment
  <2> QED
    BY <1>0, <1>4, <2>1 DEF RefundPayment, Unspent, TypeOK, Amount
<1>5. ASSUME NEW p \in Payment, NEW a \in Amount, NEW m \in Month, Allocate(p, m, a)
      PROVE  PaymentsInv'
  <2>1. /\ Used(p)' <= Used(p) + a
        /\ \A q \in Payment \ {p} : Used(q)' = Used(q)
    BY <1>5, SumsAllocate
  <2>2. /\ payment' = payment /\ paid' = paid /\ refunded' = refunded
        /\ payment[p] = "recorded" /\ a <= paid[p] - Used(p) - refunded[p]
    BY <1>5 DEF Allocate, Unspent
  <2>3. a \in Nat
    BY DEF Amount
  <2> QED
    BY <1>0, <2>1, <2>2, <2>3
<1> QED
  BY <1>1, <1>2, <1>3, <1>4, <1>5, PaymentSteps

\* In the first state nothing is allocated.
LEMMA NothingAllocated ==
  ASSUME Init
  PROVE  /\ \A p \in Payment : Used(p) = 0
         /\ \A m \in Month : Settled(m) = 0
<1>1. \A p \in Payment, m \in Month : Live(p, m) = 0
  BY DEF Init, Live
<1> QED
  BY <1>1, SumZero DEF Used, Settled

\* The payment invariant holds throughout.
LEMMA PaymentsAlways == Spec => []PaymentsInv
<1>1. Init => PaymentsInv
  BY NothingAllocated
     DEF Init, PaymentsInv, PaymentsNotOverused, VoidedPaymentsHoldNothing
<1> QED
  BY <1>1, PaymentsStep, SettlementTypes, PTL DEF Spec

\* No payment is used beyond its amount: allocations that stand and refunds
\* together never exceed it.
THEOREM SettlementPaymentsNotOverused == Spec => []PaymentsNotOverused
  BY PaymentsAlways, PTL DEF PaymentsInv

\* A voided payment pays for nothing and has given nothing back.
THEOREM SettlementVoidedPaymentsHoldNothing == Spec => []VoidedPaymentsHoldNothing
  BY PaymentsAlways, PTL DEF PaymentsInv

-----------------------------------------------------------------------------
(* The ledger and the settlements.                                         *)

\* Settled entries are committed and of the month that settled them, shipments
\* are not dated ahead, refunds are of committed credits, and allocations go to
\* finalized settlements.
LedgerInv ==
  /\ \A m \in Month : \A e \in lines[m] : Committed(e) /\ month[e] = m
  /\ \A e \in Entry : kind[e] = "shipment" => month[e] <= today
  /\ \A e \in Entry : kind[e] = "refund" => kind[source[e]] = "credit" /\ source[e] \notin open
  /\ \A p \in Payment, m \in Month : allocated[p][m] > 0 => status[m] = "finalized"

\* The ways an entry is written.
LEMMA EntrySteps ==
  ASSUME TypeOK, [Next]_vars
  PROVE  \/ NextMonth
         \/ \E e \in Entry : Commit(e) \/ Rollback(e)
         \/ \E e \in Entry, a \in Amount :
              \/ Ship(e, a)
              \/ \E x \in Entry : \/ Credit(e, x, a)
                                  \/ \E m \in Month : RefundCredit(e, x, a, m)
         \/ UNCHANGED <<today, entryVars>>
  BY DEF Next, vars, VoidPayment, RecordPayment, RefundPayment, Allocate, Draft, Finalize

\* Which steps write the settlements.
LEMMA SettlementSteps ==
  ASSUME [Next]_vars
  PROVE  \/ UNCHANGED settlementVars
         \/ \E m \in Month : Draft(m) \/ Finalize(m)
  BY DEF Next, vars, NextMonth, Commit, Rollback, Ship, Credit, RefundCredit, Post,
         VoidPayment, RecordPayment, RefundPayment, Allocate, settlementVars

\* Every step keeps the ledger invariant.
LEMMA LedgerStep == TypeOK /\ LedgerInv /\ [Next]_vars => LedgerInv'
<1> SUFFICES ASSUME TypeOK, LedgerInv, [Next]_vars PROVE LedgerInv'
  OBVIOUS
<1> USE SettlementAssumption
        DEF LedgerInv, TypeOK, Committed, entryVars, settlementVars, paymentVars
<1>1. CASE NextMonth
  BY <1>1 DEF NextMonth, Month
<1>2. ASSUME NEW e \in Entry, Commit(e) PROVE LedgerInv'
  BY <1>2 DEF Commit
<1>3. ASSUME NEW e \in Entry, Rollback(e) PROVE LedgerInv'
  BY <1>3 DEF Rollback
<1>4. ASSUME NEW e \in Entry, NEW a \in Amount, Ship(e, a) PROVE LedgerInv'
  BY <1>4 DEF Ship, Post
<1>5. ASSUME NEW e \in Entry, NEW x \in Entry, NEW a \in Amount, Credit(e, x, a)
      PROVE  LedgerInv'
  BY <1>5 DEF Credit, CreditMonth, Post
<1>6. ASSUME NEW e \in Entry, NEW x \in Entry, NEW a \in Amount, NEW m \in Month,
             RefundCredit(e, x, a, m)
      PROVE  LedgerInv'
  <2>1. \E d \in Month : Post(e, "refund", a, d, x)
    BY <1>6 DEF RefundCredit, Month
  <2>2. kind[x] = "credit" /\ x \notin open
    BY <1>6 DEF RefundCredit
  <2> QED
    BY <2>1, <2>2 DEF Post
<1>7. ASSUME NEW m \in Month, Draft(m) PROVE LedgerInv'
  BY <1>7 DEF Draft, Unsettled
<1>8. ASSUME NEW m \in Month, Finalize(m) PROVE LedgerInv'
  BY <1>8 DEF Finalize
<1>9. ASSUME NEW p \in Payment, NEW a \in Amount,
             VoidPayment(p) \/ RecordPayment(p, a) \/ RefundPayment(p, a)
      PROVE  LedgerInv'
  BY <1>9 DEF VoidPayment, RecordPayment, RefundPayment
<1>10. ASSUME NEW p \in Payment, NEW a \in Amount, NEW m \in Month, Allocate(p, m, a)
       PROVE  LedgerInv'
  BY <1>10 DEF Allocate
<1>11. CASE UNCHANGED vars
  BY <1>11 DEF vars
<1> QED
  <2>1. ASSUME NEW p \in Payment, VoidPayment(p) PROVE LedgerInv'
    BY <2>1 DEF VoidPayment
  <2> QED
    BY <1>1, <1>2, <1>3, <1>4, <1>5, <1>6, <1>7, <1>8, <1>9, <1>10, <1>11, <2>1 DEF Next

\* The ledger invariant holds throughout.
LEMMA LedgerAlways == Spec => []LedgerInv
<1>1. Init => LedgerInv
  BY DEF Init, LedgerInv
<1> QED
  BY <1>1, LedgerStep, SettlementTypes, PTL DEF Spec

\* A credit written for goods in a finalized settlement is dated after it.
THEOREM SettlementCreditsAdjustLaterMonths == Spec => CreditsAdjustLaterMonths
<1> DEFINE Later == \A e, s \in Entry, m \in Month :
                      (kind[e] = "none" /\ kind'[e] = "credit" /\ source'[e] = s
                         /\ status[m] = "finalized" /\ s \in lines[m])
                        => month'[e] > m
<1>1. TypeOK /\ LedgerInv /\ [Next]_vars => [Later]_vars
  <2> SUFFICES ASSUME TypeOK, LedgerInv, Next,
                      NEW e \in Entry, NEW s \in Entry, NEW m \in Month,
                      kind[e] = "none", kind'[e] = "credit", source'[e] = s,
                      status[m] = "finalized", s \in lines[m]
               PROVE  month'[e] > m
    OBVIOUS
  <2>1. \E a \in Amount : Credit(e, s, a)
    <3>1. \E x \in Entry, a \in Amount : Credit(e, x, a) /\ source'[e] = x
      BY EntrySteps DEF TypeOK, entryVars, NextMonth, Commit, Rollback, Ship, Credit,
                        RefundCredit, Post
    <3> QED
      BY <3>1
  <2>2. month'[e] = today + 1
    BY <2>1 DEF Credit, CreditMonth, Post, TypeOK
  <2>3. kind[s] = "shipment" /\ month[s] = m
    BY <2>1 DEF Credit, CreditMonth, LedgerInv
  <2> QED
    BY <2>2, <2>3, SettlementAssumption DEF LedgerInv, TypeOK, Month
<1> QED
  BY <1>1, SettlementTypes, LedgerAlways, PTL DEF Spec, CreditsAdjustLaterMonths

-----------------------------------------------------------------------------
(* Which entries the monthly closing can miss.                             *)

\* Entries are settled by a settlement that exists.
DraftedHaveRows == \A m \in Month : lines[m] # {} => status[m] # "none"

\* Every step keeps settled entries in existing settlements.
LEMMA DraftedStep == TypeOK /\ DraftedHaveRows /\ [Next]_vars => DraftedHaveRows'
<1> SUFFICES ASSUME TypeOK, DraftedHaveRows, [Next]_vars PROVE DraftedHaveRows'
  OBVIOUS
<1>1. ASSUME NEW m \in Month, Draft(m) \/ Finalize(m) PROVE DraftedHaveRows'
  BY <1>1 DEF DraftedHaveRows, TypeOK, Draft, Finalize
<1>2. CASE UNCHANGED settlementVars
  BY <1>2 DEF DraftedHaveRows, settlementVars
<1> QED
  BY <1>1, <1>2, SettlementSteps

\* What a draft does not take stays out, and what is settled stays in.
LEMMA LeftOutStep ==
  ASSUME TypeOK, LedgerInv, DraftedHaveRows, [Next]_vars
  PROVE  /\ \A m \in Month : lines[m] \subseteq lines'[m]
         /\ \A e \in Entry : LeftOut(e)' => LeftOut(e) \/ e \in open
<1>1. ASSUME NEW m \in Month, Draft(m)
      PROVE  /\ \A x \in Month : lines[x] \subseteq lines'[x]
             /\ \A e \in Entry : LeftOut(e)' => LeftOut(e)
  <2>1. lines[m] = {} /\ lines' = [lines EXCEPT ![m] = Unsettled(m)]
        /\ status' = [status EXCEPT ![m] = "draft"]
        /\ UNCHANGED <<kind, month, open>>
    BY <1>1 DEF Draft, DraftedHaveRows, entryVars
  <2>2. \A x \in Month : lines[x] \subseteq lines'[x]
    BY <2>1 DEF TypeOK
  <2>3. ASSUME NEW e \in Entry, LeftOut(e)' PROVE LeftOut(e)
    <3>1. Committed(e) /\ month[e] \in Month /\ e \notin lines'[month[e]]
          /\ status'[month[e]] # "none"
      BY <2>1, <2>3 DEF LeftOut, Committed, TypeOK
    <3>2. CASE month[e] = m
      <4>1. e \notin Unsettled(m)
        BY <2>1, <3>1, <3>2 DEF TypeOK
      <4>2. PICK x \in Month : e \in lines[x]
        BY <3>1, <3>2, <4>1 DEF Unsettled
      <4> QED
        BY <2>1, <3>2, <4>2 DEF LedgerInv
    <3>3. CASE month[e] # m
      BY <2>1, <3>1, <3>3 DEF LeftOut, TypeOK
    <3> QED
      BY <3>2, <3>3
  <2> QED
    BY <2>2, <2>3
<1>2. ASSUME NEW m \in Month, Finalize(m)
      PROVE  /\ UNCHANGED lines
             /\ \A e \in Entry : LeftOut(e)' => LeftOut(e)
  BY <1>2 DEF Finalize, LeftOut, Committed, TypeOK, entryVars
<1>3. CASE UNCHANGED settlementVars
  <2>1. ASSUME NEW e \in Entry, Commit(e) PROVE \A f \in Entry : LeftOut(f)' => LeftOut(f) \/ f \in open
    BY <1>3, <2>1 DEF Commit, LeftOut, Committed, settlementVars, TypeOK
  <2>2. ASSUME NEW e \in Entry, Rollback(e) PROVE \A f \in Entry : LeftOut(f)' => LeftOut(f)
    BY <1>3, <2>2 DEF Rollback, LeftOut, Committed, settlementVars, TypeOK
  <2>3. ASSUME NEW e \in Entry, NEW k, NEW a, NEW m, NEW from, Post(e, k, a, m, from)
        PROVE  \A f \in Entry : LeftOut(f)' => LeftOut(f)
    BY <1>3, <2>3 DEF Post, LeftOut, Committed, settlementVars, TypeOK
  <2>4. CASE UNCHANGED entryVars
    BY <1>3, <2>4 DEF LeftOut, Committed, settlementVars, entryVars
  <2>5. ASSUME NEW e \in Entry, NEW a \in Amount,
               \/ Ship(e, a)
               \/ \E x \in Entry : \/ Credit(e, x, a)
                                   \/ \E m \in Month : RefundCredit(e, x, a, m)
        PROVE  \A f \in Entry : LeftOut(f)' => LeftOut(f)
    BY <2>3, <2>5 DEF Ship, Credit, RefundCredit
  <2>6. \A f \in Entry : LeftOut(f)' => LeftOut(f) \/ f \in open
    BY <2>1, <2>2, <2>4, <2>5, EntrySteps DEF NextMonth
  <2> QED
    BY <1>3, <2>6 DEF settlementVars
<1> QED
  BY <1>1, <1>2, <1>3, SettlementSteps

\* Whatever is posted, committed, drafted and finalized in whatever order, an
\* entry is left out of the settlement of its month only by committing late.
THEOREM SettlementMissesOnlyLateCommits == Spec => OnlyLateCommitsAreLeftOut
<1> DEFINE Kept ==
      /\ \A m \in Month : lines[m] \subseteq lines'[m]
      /\ \A m, x \in Month : m # x => lines'[m] \cap lines'[x] = {}
      /\ \A e \in Entry : LeftOut(e)' => LeftOut(e) \/ e \in open
<1>1. Spec => []DraftedHaveRows
  <2>1. Init => DraftedHaveRows
    BY DEF Init, DraftedHaveRows
  <2> QED
    BY <2>1, DraftedStep, SettlementTypes, PTL DEF Spec
<1>2. TypeOK /\ LedgerInv /\ DraftedHaveRows /\ [Next]_vars => [Kept]_vars
  <2> SUFFICES ASSUME TypeOK, LedgerInv, DraftedHaveRows, [Next]_vars PROVE Kept
    OBVIOUS
  <2>1. LedgerInv'
    BY LedgerStep
  <2>2. \A m, x \in Month : m # x => lines'[m] \cap lines'[x] = {}
    BY <2>1 DEF LedgerInv
  <2> QED
    BY <2>2, LeftOutStep
<1> QED
  BY <1>1, <1>2, SettlementTypes, LedgerAlways, PTL DEF Spec, OnlyLateCommitsAreLeftOut

-----------------------------------------------------------------------------
(* Settlements and credits.                                                *)

\* An entry in a settlement is never written again.
LEMMA SettledEntriesStand ==
  ASSUME TypeOK, LedgerInv, [Next]_vars, NEW m \in Month, NEW e \in lines[m]
  PROVE  e \in Entry /\ kind'[e] = kind[e] /\ amount'[e] = amount[e]
<1> USE DEF LedgerInv, TypeOK, Committed
<1>1. e \in Entry /\ kind[e] # "none" /\ e \notin open
  OBVIOUS
<1>2. ASSUME NEW x \in Entry, Commit(x) \/ Rollback(x) PROVE kind'[e] = kind[e] /\ amount'[e] = amount[e]
  BY <1>1, <1>2 DEF Commit, Rollback
<1>3. ASSUME NEW x \in Entry, NEW k, NEW a, NEW d, NEW y, Post(x, k, a, d, y)
      PROVE  kind'[e] = kind[e] /\ amount'[e] = amount[e]
  BY <1>1, <1>3 DEF Post
<1>4. CASE NextMonth \/ UNCHANGED <<today, entryVars>>
  BY <1>4 DEF NextMonth, entryVars
<1> HIDE DEF LedgerInv, TypeOK
<1>5. ASSUME NEW x \in Entry, NEW a \in Amount, Ship(x, a)
      PROVE  kind'[e] = kind[e] /\ amount'[e] = amount[e]
  BY <1>3, <1>5 DEF Ship
<1>6. ASSUME NEW x \in Entry, NEW y \in Entry, NEW a \in Amount, Credit(x, y, a)
      PROVE  kind'[e] = kind[e] /\ amount'[e] = amount[e]
  BY <1>3, <1>6 DEF Credit
<1>7. ASSUME NEW x \in Entry, NEW y \in Entry, NEW a \in Amount, NEW d \in Month,
             RefundCredit(x, y, a, d)
      PROVE  kind'[e] = kind[e] /\ amount'[e] = amount[e]
  BY <1>3, <1>7 DEF RefundCredit
<1> QED
  BY <1>1, <1>2, <1>4, <1>5, <1>6, <1>7, EntrySteps

\* What a finalized settlement asks for never changes.
LEMMA DueStands ==
  ASSUME TypeOK, LedgerInv, [Next]_vars, NEW m \in Month, status[m] = "finalized"
  PROVE  status'[m] = "finalized" /\ Due(m)' = Due(m)
<1>1. lines'[m] = lines[m] /\ status'[m] = "finalized"
  BY DEF Next, vars, NextMonth, Commit, Rollback, Ship, Credit, RefundCredit, Post, Draft,
         Finalize, VoidPayment, RecordPayment, RefundPayment, Allocate, settlementVars, TypeOK
<1>2. \A e \in lines[m] : kind'[e] = kind[e] /\ amount'[e] = amount[e]
  BY SettledEntriesStand
<1>3. /\ Charges(m)' = Charges(m) /\ Credits(m)' = Credits(m)
      /\ \A e \in Charges(m) : amount'[e] = amount[e]
      /\ \A e \in Credits(m) : amount'[e] = amount[e]
  BY <1>1, <1>2 DEF Charges, Credits
<1>4. /\ Sum(Charges(m), amount') = Sum(Charges(m), amount)
      /\ Sum(Credits(m), amount') = Sum(Credits(m), amount)
  BY <1>3, SumSame
<1> QED
  BY <1>1, <1>3, <1>4 DEF Due

\* A settlement that is not finalized has nothing allocated to it.
LEMMA OnlyFinalizedAreSettled ==
  ASSUME TypeOK, LedgerInv, NEW m \in Month, status[m] # "finalized"
  PROVE  Settled(m) = 0
<1>1. \A p \in Payment : Live(p, m) = 0
  BY SettlementAssumption DEF LedgerInv, TypeOK, Live
<1> QED
  BY <1>1, SumZero DEF Settled

\* Every step keeps settlements within what they ask for.
LEMMA SettledStep ==
  TypeOK /\ TypeOK' /\ LedgerInv /\ SettlementsNotOverpaid /\ [Next]_vars
    => SettlementsNotOverpaid'
<1> SUFFICES ASSUME TypeOK, TypeOK', LedgerInv, SettlementsNotOverpaid, [Next]_vars,
                    NEW m \in Month, Settled(m)' > 0
             PROVE  Settled(m)' <= Due(m)'
  BY DEF SettlementsNotOverpaid
<1>1. Settled(m) \in Nat /\ Due(m) \in Int
  BY SumsAreNumbers
<1>2. Settled(m)' \in Nat
  BY SettlementAssumption, UnitsFinite DEF Settled
<1>3. Settled(m) <= Due(m) \/ Settled(m) = 0
  BY <1>1 DEF SettlementsNotOverpaid
<1>4. CASE status[m] = "finalized"
  <2>1. Due(m)' = Due(m)
    BY <1>4, DueStands
  <2>2. CASE UNCHANGED paymentVars
    BY <1>1, <1>2, <1>3, <2>1, <2>2, SumsStay DEF paymentVars
  <2>3. ASSUME NEW p \in Payment, VoidPayment(p) PROVE Settled(m)' <= Due(m)
    <3>1. Settled(m)' <= Settled(m)
      BY <2>3, SumsVoid
    <3> QED
      BY <1>1, <1>2, <1>3, <3>1
  <2>4. ASSUME NEW p \in Payment, NEW a \in Amount, RecordPayment(p, a) \/ RefundPayment(p, a)
        PROVE  Settled(m)' <= Due(m)
    <3>1. Settled(m)' = Settled(m)
      BY <2>4, SumsStay DEF RecordPayment, RefundPayment
    <3> QED
      BY <1>1, <1>2, <1>3, <3>1
  <2>5. ASSUME NEW p \in Payment, NEW a \in Amount, NEW x \in Month, Allocate(p, x, a)
        PROVE  Settled(m)' <= Due(m)
    <3>1. CASE x = m
      <4>1. Settled(m)' <= Settled(m) + a
        BY <2>5, <3>1, SumsAllocate
      <4>2. a <= Due(m) - Settled(m) /\ a \in Nat
        BY <2>5, <3>1 DEF Allocate, Outstanding, Amount
      <4> QED
        BY <1>1, <1>2, <4>1, <4>2
    <3>2. CASE x # m
      <4>1. Settled(m)' = Settled(m)
        BY <2>5, <3>2, SumsAllocate
      <4> QED
        BY <1>1, <1>2, <1>3, <4>1
    <3> QED
      BY <3>1, <3>2
  <2> QED
    BY <2>1, <2>2, <2>3, <2>4, <2>5, PaymentSteps
<1>5. CASE status[m] # "finalized"
  <2>1. Settled(m) = 0
    BY <1>5, OnlyFinalizedAreSettled
  <2>2. UNCHANGED paymentVars \/ Settled(m)' <= Settled(m)
    <3>1. ASSUME NEW p \in Payment, VoidPayment(p) PROVE Settled(m)' <= Settled(m)
      BY <3>1, SumsVoid
    <3>2. ASSUME NEW p \in Payment, NEW a \in Amount, RecordPayment(p, a) \/ RefundPayment(p, a)
          PROVE  Settled(m)' <= Settled(m)
      BY <1>1, <3>2, SumsStay DEF RecordPayment, RefundPayment
    <3>3. ASSUME NEW p \in Payment, NEW a \in Amount, NEW x \in Month, Allocate(p, x, a)
          PROVE  Settled(m)' <= Settled(m)
      <4>1. x # m
        BY <1>5, <3>3 DEF Allocate
      <4> QED
        BY <1>1, <3>3, <4>1, SumsAllocate
    <3> QED
      BY <3>1, <3>2, <3>3, PaymentSteps
  <2>3. Settled(m)' = 0
    BY <1>1, <1>2, <2>1, <2>2, SumsStay DEF paymentVars
  <2> QED
    BY <2>3
<1> QED
  BY <1>4, <1>5

\* The payments that stand for a settlement never exceed what it asks for.
THEOREM SettlementSettlementsNotOverpaid == Spec => []SettlementsNotOverpaid
<1>1. Init => SettlementsNotOverpaid
  BY NothingAllocated DEF SettlementsNotOverpaid
<1> QED
  BY <1>1, SettledStep, SettlementTypes, LedgerAlways, PTL DEF Spec

\* The refunds of a credit are finitely many entries, and their sum a number.
LEMMA RefundsFinite ==
  ASSUME NEW c PROVE IsFiniteSet(Of("refund", c)) /\ CreditRefunded(c) \in Nat
<1>1. IsFiniteSet(Of("refund", c))
  BY SettlementAssumption, FS_Subset DEF Of
<1> QED
  BY <1>1, UnitsFinite DEF CreditRefunded

\* A step that writes no refund adds none to any credit.
LEMMA RefundsStay ==
  ASSUME TypeOK, TypeOK', NEW c \in Entry,
         \A r \in Of("refund", c)' : r \in Of("refund", c) /\ amount'[r] = amount[r]
  PROVE  CreditRefunded(c)' <= CreditRefunded(c)
<1>1. IsFiniteSet(Of("refund", c))
  BY RefundsFinite
<1>2. /\ \A r \in Of("refund", c) : amount[r] \in 0..MaxAmount
      /\ \A r \in Of("refund", c)' : amount'[r] \in 0..MaxAmount /\ amount'[r] <= amount[r]
  BY SettlementAssumption DEF TypeOK, Of
<1> QED
  BY <1>1, <1>2, SumMonotone DEF CreditRefunded

\* Every step keeps the refunds of a credit within it.
LEMMA RefundedStep ==
  TypeOK /\ TypeOK' /\ LedgerInv /\ CreditsNotOverrefunded /\ [Next]_vars
    => CreditsNotOverrefunded'
<1> SUFFICES ASSUME TypeOK, TypeOK', LedgerInv, CreditsNotOverrefunded, [Next]_vars,
                    NEW c \in Entry, kind'[c] = "credit"
             PROVE  CreditRefunded(c)' <= amount'[c]
  BY DEF CreditsNotOverrefunded
<1> DEFINE Stays == \A r \in Of("refund", c)' : r \in Of("refund", c) /\ amount'[r] = amount[r]
<1>1. CreditRefunded(c) \in Nat /\ amount[c] \in Nat /\ amount'[c] \in Nat
  BY SumsAreNumbers DEF TypeOK
<1>2. CreditRefunded(c)' \in Nat
  BY SettlementAssumption, FS_Subset, UnitsFinite DEF CreditRefunded, Of
<1>3. ASSUME Stays, kind[c] = "credit", amount'[c] = amount[c]
      PROVE  CreditRefunded(c)' <= amount'[c]
  <2>1. CreditRefunded(c)' <= CreditRefunded(c)
    BY <1>3, RefundsStay
  <2> QED
    BY <1>1, <1>2, <1>3, <2>1 DEF CreditsNotOverrefunded
<1>4. CASE NextMonth \/ UNCHANGED <<today, entryVars>>
  BY <1>3, <1>4 DEF NextMonth, entryVars, Of
<1>5. ASSUME NEW e \in Entry, Commit(e) \/ Rollback(e) PROVE CreditRefunded(c)' <= amount'[c]
  BY <1>3, <1>5 DEF Commit, Rollback, Of, TypeOK
<1>6. ASSUME NEW e \in Entry, NEW a \in Amount, Ship(e, a)
      PROVE  CreditRefunded(c)' <= amount'[c]
  BY <1>3, <1>6 DEF Ship, Post, Of, TypeOK
<1>7. ASSUME NEW e \in Entry, NEW x \in Entry, NEW a \in Amount, Credit(e, x, a)
      PROVE  CreditRefunded(c)' <= amount'[c]
  <2>1. \E d : Post(e, "credit", a, d, x)
    BY <1>7 DEF Credit
  <2>2. CASE c = e
    <3>1. Of("refund", c)' = {}
      BY <2>1, <2>2 DEF Post, Of, LedgerInv, TypeOK
    <3>2. CreditRefunded(c)' = 0
      BY <3>1, SumZero DEF CreditRefunded
    <3> QED
      BY <1>1, <3>2
  <2>3. CASE c # e
    BY <1>3, <2>1, <2>3 DEF Post, Of, TypeOK
  <2> QED
    BY <2>2, <2>3
<1>8. ASSUME NEW e \in Entry, NEW x \in Entry, NEW a \in Amount, NEW m \in Month,
             RefundCredit(e, x, a, m)
      PROVE  CreditRefunded(c)' <= amount'[c]
  <2>1. \E d : Post(e, "refund", a, d, x)
    BY <1>8 DEF RefundCredit
  <2>2. kind[e] = "none" /\ c # e /\ kind[c] = "credit" /\ amount'[c] = amount[c]
    BY <2>1 DEF Post, TypeOK
  <2>3. CASE x = c
    <3>1. /\ a \in 0..MaxAmount
          /\ amount'[e] = a
          /\ Of("refund", c)' \ {e} \subseteq Of("refund", c)
          /\ \A r \in Of("refund", c)' \ {e} : amount'[r] <= amount[r]
          /\ \A r \in Of("refund", c) : amount[r] \in 0..MaxAmount
          /\ \A r \in Of("refund", c)' : amount'[r] \in 0..MaxAmount
      <4>1. /\ a \in 0..MaxAmount /\ amount' = [amount EXCEPT ![e] = a]
            /\ kind' = [kind EXCEPT ![e] = "refund"] /\ source' = [source EXCEPT ![e] = x]
        BY <2>1, SettlementAssumption DEF Post, Amount
      <4>2. \A r \in Entry \ {e} : /\ kind'[r] = kind[r] /\ source'[r] = source[r]
                                   /\ amount'[r] = amount[r] /\ amount[r] <= amount[r]
        BY <4>1, SettlementAssumption DEF TypeOK
      <4>3. Of("refund", c)' \ {e} \subseteq Of("refund", c)
        BY <4>2 DEF Of
      <4>4. Of("refund", c) \subseteq Entry /\ Of("refund", c)' \subseteq Entry
        BY DEF Of
      <4>5. \A r \in Entry : amount[r] \in 0..MaxAmount /\ amount'[r] \in 0..MaxAmount
        BY DEF TypeOK
      <4>6. amount'[e] = a
        BY <4>1 DEF TypeOK
      <4> QED
        BY <4>1, <4>2, <4>3, <4>4, <4>5, <4>6
    <3>2. IsFiniteSet(Of("refund", c)) /\ IsFiniteSet(Of("refund", c)')
      <4>1. Of("refund", c) \subseteq Entry /\ Of("refund", c)' \subseteq Entry
        BY DEF Of
      <4> QED
        BY <4>1, SettlementAssumption, FS_Subset
    <3>3. CreditRefunded(c)' <= CreditRefunded(c) + a
      <4> DEFINE old == Of("refund", c)
                 new == Of("refund", c)'
      <4>1. amount'[e] <= a
        BY <3>1, SettlementAssumption
      <4>2. CreditRefunded(c) = Sum(old, amount) /\ CreditRefunded(c)' = Sum(new, amount')
        BY DEF CreditRefunded
      <4> HIDE DEF old, new
      <4>3. Sum(new, amount') <= Sum(old, amount) + a
        BY <3>1, <3>2, <4>1, SumGrows DEF old, new
      <4> QED
        BY <4>2, <4>3
    <3>4. CreditRefunded(c) + a <= amount[c] /\ a \in Nat
      BY <1>1, <1>8, <2>3, SettlementAssumption DEF RefundCredit, Refundable, Amount
    <3> QED
      BY <1>1, <1>2, <2>2, <3>3, <3>4
  <2>4. CASE x # c
    BY <1>3, <2>1, <2>2, <2>4 DEF Post, Of, TypeOK
  <2> QED
    BY <2>3, <2>4
<1> QED
  BY <1>4, <1>5, <1>6, <1>7, <1>8, EntrySteps

\* A credit is paid back at most once over.
THEOREM SettlementCreditsNotOverrefunded == Spec => []CreditsNotOverrefunded
<1>1. Init => CreditsNotOverrefunded
  BY DEF Init, CreditsNotOverrefunded
<1> QED
  BY <1>1, RefundedStep, SettlementTypes, LedgerAlways, PTL DEF Spec

-----------------------------------------------------------------------------
(* The book of payments.                                                   *)

\* A sum is one of its elements and the sum of the others.
LEMMA SumSplit ==
  ASSUME NEW S, NEW f, NEW x \in S, IsFiniteSet(S), f[x] \in 0..MaxAmount
  PROVE  Sum(S, f) = Sum(S \ {x}, f) + f[x]
<1> DEFINE rest == Units(S \ {x}, f)
           own == {x} \X (1..f[x])
<1>1. f[x] \in Nat
  BY SettlementAssumption
<1>2. IsFiniteSet(own) /\ Cardinality(own) = f[x]
  <2>1. IsFiniteSet(1..f[x]) /\ Cardinality(1..f[x]) = f[x]
    <3>1. IsFiniteSet(1..f[x]) /\ Cardinality(1..f[x]) = IF 1 > f[x] THEN 0 ELSE f[x] - 1 + 1
      BY <1>1, FS_Interval
    <3> QED
      BY <1>1, <3>1
  <2>2. IsFiniteSet({x}) /\ Cardinality({x}) = 1
    BY FS_Singleton, Zenon
  <2>3. IsFiniteSet(own) /\ Cardinality(own) = Cardinality({x}) * Cardinality(1..f[x])
    BY <2>1, <2>2, FS_Product, Zenon
  <2> QED
    BY <1>1, <2>1, <2>2, <2>3
<1>3. IsFiniteSet(rest) /\ Cardinality(rest) \in Nat
  BY FS_Subset, UnitsFinite DEF Sum
<1>4. Units(S, f) = rest \cup own
  <2>1. \A k : k \in 1..f[x] <=> k \in Amount /\ k <= f[x]
    BY <1>1, SettlementAssumption DEF Amount
  <2>2. own \subseteq Units(S, f)
    BY <2>1 DEF Units
  <2>3. rest \subseteq Units(S, f)
    BY DEF Units
  <2>4. Units(S, f) \subseteq rest \cup own
    BY <2>1 DEF Units
  <2> QED
    BY <2>2, <2>3, <2>4
<1>5. rest \cap own = {}
  BY DEF Units
<1> HIDE DEF rest, own
<1>6. Cardinality(rest \cup own) = Cardinality(rest) + Cardinality(own) - Cardinality(rest \cap own)
  BY <1>2, <1>3, FS_Union
<1>7. Cardinality(rest \cap own) = 0
  BY <1>5, FS_EmptySet
<1> QED
  BY <1>1, <1>2, <1>3, <1>4, <1>6, <1>7 DEF Sum, rest

\* A sum in which one element alone changes, changes by as much.
LEMMA SumChanges ==
  ASSUME NEW S, NEW f, NEW g, NEW x \in S, IsFiniteSet(S),
         f[x] \in 0..MaxAmount, g[x] \in 0..MaxAmount, \A y \in S \ {x} : g[y] = f[y]
  PROVE  Sum(S, g) = Sum(S, f) - f[x] + g[x]
<1>1. Sum(S, f) = Sum(S \ {x}, f) + f[x] /\ Sum(S, g) = Sum(S \ {x}, g) + g[x]
  BY SumSplit
<1>2. Sum(S \ {x}, g) = Sum(S \ {x}, f)
  BY SumSame
<1>3. Sum(S \ {x}, f) \in Nat
  BY FS_Subset, UnitsFinite
<1> QED
  BY <1>1, <1>2, <1>3, SettlementAssumption

\* Only allocations of voided payments are reversed.
ReversedAreVoided ==
  \A p \in Payment, m \in Month : <<p, m>> \in reversed => payment[p] = "voided"

\* Every step keeps reversals to voided payments.
LEMMA ReversedStep == TypeOK /\ ReversedAreVoided /\ [Next]_vars => ReversedAreVoided'
<1> SUFFICES ASSUME TypeOK, ReversedAreVoided, [Next]_vars PROVE ReversedAreVoided'
  OBVIOUS
<1> USE DEF ReversedAreVoided, TypeOK
<1>1. CASE UNCHANGED paymentVars
  BY <1>1 DEF paymentVars
<1>2. ASSUME NEW p \in Payment, VoidPayment(p) PROVE ReversedAreVoided'
  BY <1>2 DEF VoidPayment, Allocations
<1>3. ASSUME NEW p \in Payment, NEW a \in Amount, RecordPayment(p, a) \/ RefundPayment(p, a)
      PROVE  ReversedAreVoided'
  BY <1>3 DEF RecordPayment, RefundPayment
<1>4. ASSUME NEW p \in Payment, NEW a \in Amount, NEW m \in Month, Allocate(p, m, a)
      PROVE  ReversedAreVoided'
  BY <1>4 DEF Allocate
<1> QED
  BY <1>1, <1>2, <1>3, <1>4, PaymentSteps

\* Reversals are of voided payments throughout.
LEMMA ReversedAlways == Spec => []ReversedAreVoided
<1>1. Init => ReversedAreVoided
  BY DEF Init, ReversedAreVoided
<1> QED
  BY <1>1, ReversedStep, SettlementTypes, PTL DEF Spec

\* What an allocation does to the sums, to the unit.
LEMMA AllocationMoves ==
  ASSUME TypeOK, TypeOK', ReversedAreVoided, NEW p \in Payment, NEW m \in Month,
         NEW a \in Amount, Allocate(p, m, a)
  PROVE  /\ Used(p)' = Used(p) + a
         /\ Settled(m)' = Settled(m) + a
         /\ Live(p, m) = 0 /\ Live(p, m)' = a
         /\ \A q \in Payment, x \in Month : q # p \/ x # m => Live(q, x)' = Live(q, x)
<1> DEFINE byMonth == [x \in Month |-> Live(p, x)]
           byPayment == [q \in Payment |-> Live(q, m)]
<1>1. a \in 0..MaxAmount
  BY DEF Amount
<1>2. /\ Live(p, m) = 0 /\ Live(p, m)' = a
      /\ \A q \in Payment, x \in Month : q # p \/ x # m => Live(q, x)' = Live(q, x)
  BY <1>1, SettlementAssumption DEF Allocate, Live, TypeOK, ReversedAreVoided
<1>3. /\ byMonth[m] = 0 /\ byMonth'[m] = a /\ \A x \in Month \ {m} : byMonth'[x] = byMonth[x]
      /\ byPayment[p] = 0 /\ byPayment'[p] = a
      /\ \A q \in Payment \ {p} : byPayment'[q] = byPayment[q]
  BY <1>2
<1>4. Used(p) = Sum(Month, byMonth) /\ Used(p)' = Sum(Month, byMonth')
  BY DEF Used
<1>5. Settled(m) = Sum(Payment, byPayment) /\ Settled(m)' = Sum(Payment, byPayment')
  BY DEF Settled
<1> HIDE DEF byMonth, byPayment
<1>6. 0 \in 0..MaxAmount /\ IsFiniteSet(Payment)
  BY SettlementAssumption
<1>7. Sum(Month, byMonth') = Sum(Month, byMonth) - byMonth[m] + byMonth'[m]
  <2>1. byMonth[m] \in 0..MaxAmount /\ byMonth'[m] \in 0..MaxAmount
    BY <1>1, <1>3, <1>6
  <2>2. \A x \in Month \ {m} : byMonth'[x] = byMonth[x]
    BY <1>3
  <2> QED
    BY <2>1, <2>2, MonthsFinite, SumChanges
<1>8. Sum(Payment, byPayment') = Sum(Payment, byPayment) - byPayment[p] + byPayment'[p]
  <2>1. byPayment[p] \in 0..MaxAmount /\ byPayment'[p] \in 0..MaxAmount
    BY <1>1, <1>3, <1>6
  <2>2. \A q \in Payment \ {p} : byPayment'[q] = byPayment[q]
    BY <1>3
  <2>3. IsFiniteSet(Payment)
    BY <1>6
  <2> QED
    BY <2>1, <2>2, <2>3, SumChanges
<1>9. Used(p) \in Nat /\ Settled(m) \in Nat /\ a \in Nat
  BY SumsAreNumbers DEF Amount
<1> QED
  BY <1>2, <1>3, <1>4, <1>5, <1>7, <1>8, <1>9

\* What a void does to the sums, to the unit.
LEMMA VoidMoves ==
  ASSUME TypeOK, TypeOK', NEW p \in Payment, VoidPayment(p), NEW m \in Month
  PROVE  /\ Settled(m)' = Settled(m) - Live(p, m)
         /\ Live(p, m)' = 0
         /\ \A q \in Payment \ {p} : Live(q, m)' = Live(q, m)
<1> DEFINE byPayment == [q \in Payment |-> Live(q, m)]
<1>1. /\ Live(p, m)' = 0
      /\ \A q \in Payment \ {p} : Live(q, m)' = Live(q, m)
  BY SettlementAssumption DEF VoidPayment, Allocations, Live, TypeOK
<1>2. byPayment[p] = Live(p, m) /\ byPayment'[p] = 0
      /\ \A q \in Payment \ {p} : byPayment'[q] = byPayment[q]
  BY <1>1
<1>3. Settled(m) = Sum(Payment, byPayment) /\ Settled(m)' = Sum(Payment, byPayment')
  BY DEF Settled
<1> HIDE DEF byPayment
<1>4. 0 \in 0..MaxAmount /\ Live(p, m) \in 0..MaxAmount /\ IsFiniteSet(Payment)
  BY LiveType, SettlementAssumption
<1>5. Sum(Payment, byPayment') = Sum(Payment, byPayment) - byPayment[p] + byPayment'[p]
  <2>1. byPayment[p] \in 0..MaxAmount /\ byPayment'[p] \in 0..MaxAmount
    BY <1>2, <1>4
  <2>2. \A q \in Payment \ {p} : byPayment'[q] = byPayment[q]
    BY <1>2
  <2> QED
    BY <1>4, <2>1, <2>2, SumChanges
<1>6. Settled(m) \in Nat /\ Live(p, m) \in Nat
  BY <1>4, SumsAreNumbers, SettlementAssumption
<1> QED
  BY <1>1, <1>2, <1>3, <1>5, <1>6

\* A step that leaves the payments alone leaves what finalized settlements ask for.
LEMMA OwedStands ==
  ASSUME TypeOK, LedgerInv, [Next]_vars, UNCHANGED <<allocated, reversed>>, NEW m \in Billed
  PROVE  m \in Billed' /\ Outstanding(m)' = Outstanding(m)
<1>1. status'[m] = "finalized" /\ Due(m)' = Due(m)
  BY DueStands DEF Billed
<1>2. Settled(m)' = Settled(m)
  BY SumsStay DEF Billed
<1> QED
  BY <1>1, <1>2 DEF Outstanding, Billed

\* Nothing is recorded, billed or owed at the start.
LEMMA BookInit == Init => Book!Init
<1> SUFFICES ASSUME Init PROVE Book!Init
  OBVIOUS
<1>1. \A p \in Payment, m \in Month : Live(p, m) = 0
  BY DEF Init, Live
<1>2. Given = [p \in Payment |-> Book!NoBill]
  BY <1>1 DEF Given, Book!NoBill
<1>3. Free = [p \in Payment |-> 0] /\ Billed = {}
  BY DEF Init, Free, Billed
<1>4. Owed = Book!NoBill
  BY <1>3 DEF Owed, Book!NoBill
<1> QED
  BY <1>2, <1>3, <1>4 DEF Init, Book!Init

\* What finalized settlements ask for, when payments alone move.
LEMMA OwedMoves ==
  ASSUME TypeOK, LedgerInv, [Next]_vars, UNCHANGED settlementVars, NEW m \in Month
  PROVE  /\ Billed' = Billed
         /\ m \in Billed => Owed'[m] = Due(m) - Settled(m)'
         /\ m \in Billed => Owed[m] = Due(m) - Settled(m)
         /\ m \notin Billed => Owed'[m] = 0 /\ Owed[m] = 0
<1>1. Billed' = Billed
  BY DEF Billed, settlementVars
<1>2. m \in Billed => Due(m)' = Due(m)
  BY DueStands DEF Billed
<1> QED
  BY <1>1, <1>2 DEF Owed, Outstanding

\* A step that leaves payments and settlements alone is no step of the book.
LEMMA BookStutters ==
  ASSUME TypeOK, LedgerInv, [Next]_vars, UNCHANGED paymentVars, Billed' = Billed
  PROVE  UNCHANGED Book!book
<1>1. UNCHANGED <<payment, paid, allocated, reversed, refunded>>
  BY DEF paymentVars
<1>2. \A p \in Payment : Used(p)' = Used(p)
  BY <1>1, SumsStay
<1>3. \A p \in Payment : Unspent(p)' = Unspent(p)
  BY <1>1, <1>2 DEF Unspent
<1>4. Free' = Free
  BY <1>1, <1>3 DEF Free
<1>5. Given' = Given
  BY <1>1 DEF Given, Live
<1>6. \A m \in Billed : Outstanding(m)' = Outstanding(m)
  BY <1>1, OwedStands
<1>7. Owed' = Owed
  BY <1>6 DEF Owed
<1> QED
  BY <1>1, <1>4, <1>5, <1>7 DEF Book!book

\* A payment comes in with nothing allocated from it.
LEMMA BookReceive ==
  ASSUME TypeOK, PaymentsInv, LedgerInv, [Next]_vars,
         NEW p \in Payment, NEW a \in Amount, RecordPayment(p, a)
  PROVE  Book!Receive(p)
<1>1. /\ payment[p] = "none" /\ payment' = [payment EXCEPT ![p] = "recorded"]
      /\ paid' = [paid EXCEPT ![p] = a] /\ payment'[p] = "recorded" /\ paid'[p] = a
      /\ UNCHANGED <<allocated, reversed, refunded>> /\ UNCHANGED settlementVars
  BY DEF RecordPayment, TypeOK
<1>2. \A q \in Payment : Used(q)' = Used(q) /\ Used(q) \in Nat
  BY <1>1, SumsStay, SumsAreNumbers
<1>3. Used(p) = 0 /\ refunded[p] = 0
  <2>1. paid[p] = 0 /\ Used(p) + refunded[p] <= paid[p] /\ refunded[p] \in Nat
    BY <1>1, SettlementAssumption DEF PaymentsInv, PaymentsNotOverused, TypeOK
  <2> QED
    BY <1>2, <2>1
<1>4. \A q \in Payment : Free'[q] = IF q = p THEN a ELSE Free[q]
  <2>1. Free'[p] = a
    BY <1>1, <1>2, <1>3 DEF Free, Unspent, Amount
  <2>2. ASSUME NEW q \in Payment, q # p PROVE Free'[q] = Free[q]
    BY <1>1, <1>2, <2>2 DEF Free, Unspent, TypeOK
  <2> QED
    BY <2>1, <2>2
<1>5. Free' = [Free EXCEPT ![p] = Free'[p]] /\ Free'[p] \in Nat
  <2>1. Free'[p] \in Nat
    BY <1>4 DEF Amount
  <2>2. \A q \in Payment \ {p} : Free'[q] = Free[q]
    BY <1>4
  <2>3. Free' = [Free EXCEPT ![p] = Free'[p]]
    BY <2>2 DEF Free
  <2> QED
    BY <2>1, <2>3
<1>6. Given' = Given /\ Billed' = Billed
  BY <1>1 DEF Given, Live, Billed, settlementVars
<1>7. Owed' = Owed
  BY <1>1, <1>6, OwedStands DEF Owed
<1> QED
  BY <1>1, <1>5, <1>6, <1>7 DEF Book!Receive

\* A refund of a payment gives back what no settlement holds.
LEMMA BookGiveBack ==
  ASSUME TypeOK, PaymentsInv, LedgerInv, [Next]_vars,
         NEW p \in Payment, NEW a \in Amount, RefundPayment(p, a)
  PROVE  Book!GiveBack(p)
<1>1. /\ payment[p] = "recorded" /\ a <= Unspent(p)
      /\ refunded' = [refunded EXCEPT ![p] = refunded[p] + a]
      /\ UNCHANGED <<payment, paid, allocated, reversed>> /\ UNCHANGED settlementVars
      /\ refunded'[p] = refunded[p] + a
      /\ \A q \in Payment \ {p} : refunded'[q] = refunded[q]
  BY DEF RefundPayment, TypeOK
<1>2. \A q \in Payment : Used(q)' = Used(q) /\ Used(q) \in Nat
  BY <1>1, SumsStay, SumsAreNumbers
<1>3. paid[p] \in Nat /\ refunded[p] \in Nat /\ a \in Nat /\ a >= 1
  BY SettlementAssumption DEF TypeOK, Amount
<1>4. Free[p] = Unspent(p) /\ Free[p] \in Int /\ Free'[p] = Free[p] - a
  BY <1>1, <1>2, <1>3 DEF Free, Unspent
<1>5. \A q \in Payment \ {p} : Free'[q] = Free[q]
  BY <1>1, <1>2 DEF Free, Unspent
<1>6. Free' = [Free EXCEPT ![p] = Free[p] - a]
  BY <1>4, <1>5 DEF Free
<1>7. a \in 1..Free[p]
  BY <1>1, <1>3, <1>4
<1>8. Given' = Given /\ Billed' = Billed
  BY <1>1 DEF Given, Live, Billed, settlementVars
<1>9. Owed' = Owed
  BY <1>1, <1>8, OwedStands DEF Owed
<1> QED
  BY <1>1, <1>6, <1>7, <1>8, <1>9 DEF Book!GiveBack

\* An allocation moves its amount from the payment to the settlement.
LEMMA BookPay ==
  ASSUME TypeOK, TypeOK', ReversedAreVoided, LedgerInv, [Next]_vars,
         NEW p \in Payment, NEW m \in Month, NEW a \in Amount, Allocate(p, m, a)
  PROVE  Book!Pay(p, m)
<1>1. /\ payment[p] = "recorded" /\ m \in Billed /\ a <= Unspent(p) /\ a <= Outstanding(m)
      /\ UNCHANGED <<payment, paid, reversed, refunded>> /\ UNCHANGED settlementVars
  BY DEF Allocate, Billed
<1>2. /\ Used(p)' = Used(p) + a /\ Settled(m)' = Settled(m) + a
      /\ Live(p, m) = 0 /\ Live(p, m)' = a
      /\ \A q \in Payment, x \in Month : q # p \/ x # m => Live(q, x)' = Live(q, x)
  BY AllocationMoves
<1>3. /\ \A q \in Payment \ {p} : Used(q)' = Used(q)
      /\ \A x \in Month \ {m} : Settled(x)' = Settled(x)
  BY SumsAllocate
<1>4. /\ paid[p] \in Nat /\ refunded[p] \in Nat /\ a \in Nat /\ a >= 1
      /\ Used(p) \in Nat /\ Settled(m) \in Nat /\ Due(m) \in Int
  BY SumsAreNumbers, SettlementAssumption DEF TypeOK, Amount
<1>5. Free[p] = Unspent(p) /\ Free[p] \in Int /\ Free'[p] = Free[p] - a
  BY <1>1, <1>2, <1>4 DEF Free, Unspent
<1>6. \A q \in Payment \ {p} : Free'[q] = Free[q]
  BY <1>1, <1>3 DEF Free, Unspent
<1>7. Free' = [Free EXCEPT ![p] = Free[p] - a] /\ a \in 1..Free[p]
  <2>1. Free' = [Free EXCEPT ![p] = Free[p] - a]
    BY <1>5, <1>6 DEF Free
  <2> QED
    BY <1>1, <1>4, <1>5, <2>1
<1>8. Given' = [Given EXCEPT ![p][m] = a] /\ Given[p][m] = 0
  BY <1>2 DEF Given
<1>9. Billed' = Billed
  BY <1>1, OwedMoves
<1>10. Owed' = [Owed EXCEPT ![m] = Owed[m] - a] /\ a <= Owed[m]
  <2>1. Owed[m] = Outstanding(m)
    BY <1>1 DEF Owed
  <2>2. Owed'[m] = Owed[m] - a
    BY <1>1, <1>2, <1>4, OwedMoves
  <2>3. \A x \in Month \ {m} : Owed'[x] = Owed[x]
    BY <1>1, <1>3, OwedMoves
  <2>4. Owed' = [Owed EXCEPT ![m] = Owed[m] - a]
    BY <2>2, <2>3 DEF Owed
  <2> QED
    BY <1>1, <2>1, <2>4
<1> QED
  BY <1>1, <1>7, <1>8, <1>9, <1>10 DEF Book!Pay

\* A void gives every settlement back what the payment stood for, and no more.
LEMMA BookVoid ==
  ASSUME TypeOK, TypeOK', LedgerInv, [Next]_vars, NEW p \in Payment, VoidPayment(p)
  PROVE  Book!Void(p)
<1>1. /\ payment[p] = "recorded" /\ refunded[p] = 0
      /\ payment' = [payment EXCEPT ![p] = "voided"]
      /\ UNCHANGED <<paid, refunded>> /\ UNCHANGED settlementVars
      /\ payment'[p] = "voided" /\ \A q \in Payment \ {p} : payment'[q] = payment[q]
  BY DEF VoidPayment, TypeOK
<1>2. \A m \in Month : /\ Settled(m)' = Settled(m) - Live(p, m)
                       /\ Live(p, m)' = 0
                       /\ \A q \in Payment \ {p} : Live(q, m)' = Live(q, m)
  BY VoidMoves
<1>3. \A q \in Payment \ {p} : Used(q)' = Used(q)
  BY SumsVoid
<1>4. Free' = [Free EXCEPT ![p] = 0]
  <2>1. \A q \in Payment \ {p} : Free'[q] = Free[q]
    BY <1>1, <1>3 DEF Free, Unspent
  <2>2. Free'[p] = 0
    BY <1>1 DEF Free
  <2> QED
    BY <2>1, <2>2 DEF Free
<1>5. Given' = [Given EXCEPT ![p] = Book!NoBill]
  BY <1>2 DEF Given, Book!NoBill
<1>6. Billed' = Billed
  BY <1>1 DEF Billed, settlementVars
<1>7. ASSUME NEW m \in Month PROVE Owed'[m] = Owed[m] + Given[p][m]
  <2>1. /\ Given[p][m] = Live(p, m) /\ Live(p, m) \in Nat
        /\ Settled(m) \in Nat /\ Due(m) \in Int
    BY LiveType, SumsAreNumbers, SettlementAssumption DEF Given
  <2>2. CASE m \in Billed
    BY <1>1, <1>2, <2>1, <2>2, OwedMoves
  <2>3. CASE m \notin Billed
    <3>1. Live(p, m) = 0
      BY <2>3, SettlementAssumption DEF LedgerInv, TypeOK, Live, Billed
    <3> QED
      BY <1>1, <2>1, <2>3, <3>1, OwedMoves
  <2> QED
    BY <2>2, <2>3
<1>8. Owed' = [m \in Month |-> Owed[m] + Given[p][m]]
  BY <1>7 DEF Owed
<1> QED
  BY <1>1, <1>4, <1>5, <1>6, <1>8 DEF Book!Void

\* A settlement that is finalized joins the bills.
LEMMA BookSend ==
  ASSUME TypeOK, LedgerInv, [Next]_vars, NEW m \in Month, Finalize(m)
  PROVE  Book!Send(m)
<1>1. /\ status[m] = "draft" /\ status' = [status EXCEPT ![m] = "finalized"]
      /\ UNCHANGED <<payment, paid, allocated, reversed, refunded>>
  BY DEF Finalize, paymentVars
<1>2. m \notin Billed /\ Billed' = Billed \cup {m}
  BY <1>1 DEF Billed, TypeOK
<1>3. Free' = Free /\ Given' = Given
  <2>1. \A p \in Payment : Used(p)' = Used(p)
    BY <1>1, SumsStay
  <2>2. \A p \in Payment : Unspent(p)' = Unspent(p)
    BY <1>1, <2>1 DEF Unspent
  <2> QED
    BY <1>1, <2>2 DEF Free, Given, Live
<1>4. \A x \in Month \ {m} : Owed'[x] = Owed[x]
  BY <1>1, <1>2, OwedStands DEF Owed
<1>5. Owed'[m] \in Int
  <2>1. Due(m)' \in Int
    <3>1. Due(m) \in Int
      BY SumsAreNumbers
    <3>2. Due(m)' = Due(m)
      BY <1>1 DEF Finalize, Due, Charges, Credits, entryVars
    <3> QED
      BY <3>1, <3>2
  <2>2. Settled(m)' \in Nat
    BY SettlementAssumption, UnitsFinite DEF Settled
  <2> QED
    BY <1>2, <2>1, <2>2 DEF Owed, Outstanding
<1>6. Owed' = [Owed EXCEPT ![m] = Owed'[m]]
  BY <1>4 DEF Owed
<1> QED
  BY <1>1, <1>2, <1>3, <1>5, <1>6 DEF Book!Send

\* Every step is a step of the book or leaves it alone.
LEMMA BookStep ==
  TypeOK /\ TypeOK' /\ PaymentsInv /\ LedgerInv /\ ReversedAreVoided /\ [Next]_vars
    => [Book!Next]_Book!book
<1> SUFFICES ASSUME TypeOK, TypeOK', PaymentsInv, LedgerInv, ReversedAreVoided, [Next]_vars
             PROVE  Book!Next \/ UNCHANGED Book!book
  OBVIOUS
<1>1. CASE UNCHANGED paymentVars
  <2>1. CASE UNCHANGED settlementVars
    <3>1. Billed' = Billed
      BY <2>1 DEF Billed, settlementVars
    <3> QED
      BY <1>1, <3>1, BookStutters
  <2>2. ASSUME NEW m \in Month, Draft(m) PROVE UNCHANGED Book!book
    <3>1. status[m] = "none" /\ status' = [status EXCEPT ![m] = "draft"]
      BY <2>2 DEF Draft
    <3>2. \A x \in Month : status'[x] = "finalized" <=> status[x] = "finalized"
      BY <3>1 DEF TypeOK
    <3>3. Billed' = Billed
      BY <3>2 DEF Billed
    <3> QED
      BY <1>1, <3>3, BookStutters
  <2>3. ASSUME NEW m \in Month, Finalize(m) PROVE Book!Next
    BY <2>3, BookSend DEF Book!Next
  <2> QED
    BY <2>1, <2>2, <2>3, SettlementSteps
<1>2. ASSUME NEW p \in Payment, VoidPayment(p) PROVE Book!Next
  BY <1>2, BookVoid DEF Book!Next
<1>3. ASSUME NEW p \in Payment, NEW a \in Amount, RecordPayment(p, a) PROVE Book!Next
  BY <1>3, BookReceive DEF Book!Next
<1>4. ASSUME NEW p \in Payment, NEW a \in Amount, RefundPayment(p, a) PROVE Book!Next
  BY <1>4, BookGiveBack DEF Book!Next
<1>5. ASSUME NEW p \in Payment, NEW a \in Amount, NEW m \in Month, Allocate(p, m, a)
      PROVE  Book!Next
  BY <1>5, BookPay DEF Book!Next
<1> QED
  BY <1>1, <1>2, <1>3, <1>4, <1>5, PaymentSteps

\* Allocations, refunds, reversals, credits and settlements implement the book
\* of payments: money is in one place, and bills move with payments alone.
THEOREM SettlementImplementsPaymentBook == Spec => ImplementsPaymentBook
<1> QED
  BY BookInit, BookStep, SettlementTypes, PaymentsAlways, LedgerAlways, ReversedAlways, PTL
     DEF Spec, ImplementsPaymentBook, Book!Spec

=============================================================================
