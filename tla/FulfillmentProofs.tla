------------------------- MODULE FulfillmentProofs -------------------------
(***************************************************************************)
(* Proofs that Fulfillment keeps its invariants for any number of orders,  *)
(* SKUs, workers, quantities and stock.                                    *)
(*                                                                         *)
(* The first lemmas are about Total, the sum over orders that a balance is *)
(* compared with; then one lemma per command that changes reservations;    *)
(* then the invariant and the theorems.                                    *)
(***************************************************************************)
EXTENDS Fulfillment, FiniteSetTheorems, FunctionTheorems, NaturalsInduction,
        WellFoundedInduction, TLAPS

(***************************************************************************)
(* Sums over orders.                                                       *)
(***************************************************************************)

(* The units of a sum form a finite set, so a sum is a natural number. *)
LEMMA UnitsFinite ==
  ASSUME NEW f \in [Order -> Quantity]
  PROVE  IsFiniteSet(Units(f)) /\ Total(f) \in Nat
<1>1. IsFiniteSet(Order)
  BY FS_Interval, FulfillmentAssumption, SMT DEF Order
<1>2. IsFiniteSet(1..MaxQty)
  BY FS_Interval, FulfillmentAssumption, SMT
<1>3. IsFiniteSet(Order \X (1..MaxQty))
  BY <1>1, <1>2, FS_Product
<1>4. Units(f) \in SUBSET (Order \X (1..MaxQty))
  BY DEF Units
<1>5. IsFiniteSet(Units(f))
  BY <1>3, <1>4, FS_Subset
<1>. QED
  BY <1>5, FS_CardinalityType DEF Total

(* A sum with one non-zero term is that term. *)
LEMMA TotalSingle ==
  ASSUME NEW o \in Order, NEW n \in Quantity
  PROVE  Total([p \in Order |-> IF p = o THEN n ELSE 0]) = n
<1>. DEFINE f == [p \in Order |-> IF p = o THEN n ELSE 0]
<1>. n \in Nat /\ n <= MaxQty /\ MaxQty \in Nat
  BY FulfillmentAssumption DEF Quantity
<1>1. Units(f) = {o} \X (1..n)
  <2>1. ASSUME NEW u \in Units(f) PROVE u \in {o} \X (1..n)
    <3>1. u \in Order \X (1..MaxQty) /\ u[2] <= f[u[1]]
      BY <2>1 DEF Units
    <3>2. PICK p \in Order, i \in 1..MaxQty : u = <<p, i>>
      BY <3>1
    <3>3. i <= IF p = o THEN n ELSE 0
      BY <3>1, <3>2
    <3>4. p = o /\ i \in 1..n
      BY <3>3
    <3>. QED
      BY <3>2, <3>4
  <2>2. ASSUME NEW i \in 1..n PROVE <<o, i>> \in Units(f)
    <3>1. i \in 1..MaxQty /\ i <= f[o]
      OBVIOUS
    <3>. QED
      BY <3>1 DEF Units
  <2>. QED
    BY <2>1, <2>2
<1>2. IsFiniteSet(1..n) /\ Cardinality(1..n) = n
  BY FS_Interval, SMT
<1>3. IsFiniteSet({o}) /\ Cardinality({o}) = 1
  BY FS_Singleton
<1>4. Cardinality({o} \X (1..n)) = 1 * n
  BY <1>2, <1>3, FS_Product
<1>5. Total(f) = Cardinality({o} \X (1..n))
  BY <1>1 DEF Total
<1>. HIDE DEF f
<1>6. Total(f) = n
  BY <1>4, <1>5
<1>. QED
  BY <1>6 DEF f

(* Sums subtract term by term. *)
LEMMA TotalMinus ==
  ASSUME NEW f \in [Order -> Quantity], NEW c \in [Order -> Quantity],
         NEW g \in [Order -> Quantity],
         \A o \in Order : f[o] = g[o] + c[o]
  PROVE  Total(f) = Total(g) + Total(c)
<1>. DEFINE D == {u \in Order \X (1..MaxQty) : g[u[1]] < u[2] /\ u[2] <= f[u[1]]}
            shift == [u \in Units(c) |-> <<u[1], g[u[1]] + u[2]>>]
<1>. MaxQty \in Nat /\ \A o \in Order : /\ f[o] \in 0..MaxQty
                                        /\ g[o] \in 0..MaxQty
                                        /\ c[o] \in 0..MaxQty
  BY FulfillmentAssumption DEF Quantity
<1>1. Units(f) = Units(g) \cup D /\ Units(g) \cap D = {}
  <2>1. ASSUME NEW u \in Order \X (1..MaxQty)
        PROVE  /\ u[2] <= f[u[1]] <=> u[2] <= g[u[1]] \/ (g[u[1]] < u[2] /\ u[2] <= f[u[1]])
               /\ ~(u[2] <= g[u[1]] /\ g[u[1]] < u[2])
    <3>1. u[1] \in Order /\ u[2] \in 1..MaxQty
      BY <2>1
    <3>2. f[u[1]] = g[u[1]] + c[u[1]] /\ g[u[1]] \in Nat /\ c[u[1]] \in Nat
      BY <3>1
    <3>. QED
      BY <3>1, <3>2
  <2>. QED
    BY <2>1 DEF Units
<1>2. shift \in Bijection(Units(c), D)
  <2>1. ASSUME NEW u \in Units(c) PROVE shift[u] \in D
    <3>1. u[1] \in Order /\ u[2] \in 1..MaxQty /\ u[2] <= c[u[1]]
      BY <2>1 DEF Units
    <3>2. f[u[1]] = g[u[1]] + c[u[1]] /\ f[u[1]] \in 0..MaxQty /\ g[u[1]] \in Nat
      BY <3>1
    <3>3. g[u[1]] + u[2] \in 1..MaxQty
      BY <3>1, <3>2
    <3>. QED
      BY <3>1, <3>2, <3>3
  <2>2. ASSUME NEW u \in Units(c), NEW v \in Units(c), shift[u] = shift[v]
        PROVE  u = v
    <3>1. /\ u[1] \in Order /\ u[2] \in 1..MaxQty /\ u = <<u[1], u[2]>>
          /\ v[1] \in Order /\ v[2] \in 1..MaxQty /\ v = <<v[1], v[2]>>
      BY DEF Units
    <3>2. u[1] = v[1] /\ g[u[1]] + u[2] = g[v[1]] + v[2]
      BY <2>2
    <3>3. g[u[1]] \in Nat
      BY <3>1
    <3>4. g[u[1]] + u[2] = g[u[1]] + v[2]
      BY <3>2
    <3>5. \A a \in Nat, i, j \in 1..MaxQty : a + i = a + j => i = j
      OBVIOUS
    <3>6. u[2] = v[2]
      BY <3>1, <3>3, <3>4, <3>5
    <3>. QED
      BY <3>1, <3>2, <3>6
  <2>3. ASSUME NEW d \in D PROVE \E u \in Units(c) : shift[u] = d
    <3>1. /\ d[1] \in Order /\ d[2] \in 1..MaxQty /\ d = <<d[1], d[2]>>
          /\ g[d[1]] < d[2] /\ d[2] <= f[d[1]]
      OBVIOUS
    <3>2. f[d[1]] = g[d[1]] + c[d[1]] /\ g[d[1]] \in 0..MaxQty /\ c[d[1]] \in 0..MaxQty
      BY <3>1
    <3>. DEFINE i == d[2] - g[d[1]]
    <3>3. i \in 1..MaxQty /\ i <= c[d[1]] /\ g[d[1]] + i = d[2]
      BY <3>1, <3>2
    <3>4. <<d[1], i>> \in Units(c)
      BY <3>1, <3>3 DEF Units
    <3>5. shift[<<d[1], i>>] = <<d[1], g[d[1]] + i>>
      BY <3>4
    <3>6. <<d[1], g[d[1]] + i>> = d
      BY <3>1, <3>3
    <3>. HIDE DEF shift, D, i
    <3>. QED
      BY <3>4, <3>5, <3>6
  <2>4. shift \in [Units(c) -> D]
    BY <2>1
  <2>. HIDE DEF shift, D
  <2>. QED
    BY <2>2, <2>3, <2>4, Fun_IsBij, Zenon
<1>3. IsFiniteSet(Units(f)) /\ IsFiniteSet(Units(g)) /\ IsFiniteSet(Units(c))
  BY UnitsFinite
<1>4. IsFiniteSet(D) /\ Cardinality(D) = Cardinality(Units(c))
  BY <1>2, <1>3, FS_Bijection DEF ExistsBijection
<1>5. Cardinality(Units(f)) =
        Cardinality(Units(g)) + Cardinality(D) - Cardinality(Units(g) \cap D)
  BY <1>1, <1>3, <1>4, FS_Union
<1>6. Cardinality(Units(g) \cap D) = 0
  BY <1>1, FS_EmptySet
<1>7. Total(f) \in Nat /\ Total(g) \in Nat /\ Total(c) \in Nat
  BY UnitsFinite
<1>. HIDE DEF D
<1>. QED
  BY <1>4, <1>5, <1>6, <1>7 DEF Total

(* A sum grows by n when one term does. *)
LEMMA TotalGrows ==
  ASSUME NEW f \in [Order -> Quantity], NEW g \in [Order -> Quantity],
         NEW o \in Order, NEW n \in Quantity,
         f[o] = g[o] + n,
         \A p \in Order : p # o => f[p] = g[p]
  PROVE  Total(f) = Total(g) + n
<1>. DEFINE c == [p \in Order |-> IF p = o THEN n ELSE 0]
<1>1. c \in [Order -> Quantity]
  BY FulfillmentAssumption DEF Quantity
<1>2. \A p \in Order : f[p] = g[p] + c[p]
  BY DEF Quantity
<1>3. Total(c) = n
  BY TotalSingle
<1>. HIDE DEF c
<1>. QED
  BY <1>1, <1>2, <1>3, TotalMinus

(***************************************************************************)
(* The invariant.  None of its parts is inductive alone: what a command    *)
(* writes on the line is only right because the reservation agreed with    *)
(* the line before (LineMatchesReservation), ship never looks at the order *)
(* and relies on OnlyConfirmedOrdersHoldStock, finalize keeps the picked   *)
(* quantities in bounds because there are none (CountedShelvesAreWhole).   *)
(***************************************************************************)
IInv ==
  /\ TypeOK
  /\ BalanceMatchesReservations
  /\ LineMatchesReservation
  /\ WorkWithinReservation
  /\ CountedShelvesAreWhole
  /\ PendingCancellationStopsWork
  /\ OnlyConfirmedOrdersHoldStock

(* What a reservation still holds is a quantity, and only an active one    *)
(* holds anything.                                                         *)
LEMMA RemainingFacts ==
  ASSUME TypeOK, LineMatchesReservation
  PROVE  /\ \A o \in Order, k \in SKU :
              /\ Remaining(o, k) \in Quantity
              /\ Remaining(o, k) > 0 <=> resv[o][k].status = "active"
         /\ \A k \in SKU : Held(k) \in [Order -> Quantity]
<1>1. ASSUME NEW o \in Order, NEW k \in SKU
      PROVE  /\ Remaining(o, k) \in Quantity
             /\ Remaining(o, k) > 0 <=> resv[o][k].status = "active"
  <2>1. resv[o][k] \in Reservation
    BY DEF TypeOK
  <2>. QED
    BY <2>1, FulfillmentAssumption
       DEF LineMatchesReservation, Remaining, Reservation, Quantity
<1>. QED
  BY <1>1 DEF Held

(* The empty database satisfies the invariant. *)
LEMMA InitIInv == Init => IInv
<1>. SUFFICES ASSUME Init PROVE IInv
  OBVIOUS
<1>. USE FulfillmentAssumption
<1>1. TypeOK
  BY DEF Init, TypeOK, NoUnits, NoResv, Reservation, Quantity
<1>2. \A o \in Order, k \in SKU : Remaining(o, k) = 0
  BY DEF Init, Remaining, NoResv
<1>3. BalanceMatchesReservations
  <2>. SUFFICES ASSUME NEW k \in SKU
               PROVE  reserved[k] = Total(Held(k)) /\ reserved[k] <= onHand[k]
    BY DEF BalanceMatchesReservations
  <2>1. Units(Held(k)) = {}
    BY <1>2 DEF Units, Held
  <2>. QED
    BY <2>1, FS_EmptySet DEF Init, NoUnits, Total
<1>4. LineMatchesReservation
  BY DEF Init, LineMatchesReservation, NoUnits, NoResv
<1>5. WorkWithinReservation
  BY <1>2 DEF Init, WorkWithinReservation, NoUnits
<1>6. CountedShelvesAreWhole /\ PendingCancellationStopsWork
  BY DEF Init, CountedShelvesAreWhole, PendingCancellationStopsWork
<1>7. OnlyConfirmedOrdersHoldStock
  BY <1>2 DEF Init, OnlyConfirmedOrdersHoldStock, HasRemaining
<1>. QED
  BY <1>1, <1>3, <1>4, <1>5, <1>6, <1>7 DEF IInv

(***************************************************************************)
(* Commands that leave reservations alone.                                 *)
(***************************************************************************)

(* Claiming, releasing, picking and inspecting. *)
LEMMA WorkKeepsIInv ==
  ASSUME IInv, NEW w \in Worker, NEW o \in Order,
         NEW ks \in SUBSET SKU, NEW q \in [SKU -> Quantity],
         \/ ClaimWork(w, o) \/ ReleaseWork(w, o)
         \/ Pick(w, o, ks, q) \/ Inspect(w, o, ks, q)
  PROVE  IInv'
<1>. USE FulfillmentAssumption DEF IInv, orderVars, resvVars, stockVars, underway
<1>1. UNCHANGED <<orderVars, resvVars, stockVars>>
  BY DEF ClaimWork, ReleaseWork, Pick, Inspect
<1>2. TypeOK'
  <2>1. assignee' \in [Order -> Worker \cup {NoWorker}]
    BY DEF TypeOK, ClaimWork, ReleaseWork, Pick, Inspect
  <2>2. picked' \in [Order -> [SKU -> Quantity]]
    <3>1. [k \in SKU |-> IF k \in ks THEN q[k] ELSE picked[o][k]]
            \in [SKU -> Quantity]
      BY DEF TypeOK
    <3>2. CASE Pick(w, o, ks, q)
      BY <3>1, <3>2 DEF TypeOK, Pick
    <3>3. CASE ~Pick(w, o, ks, q)
      BY <3>3 DEF TypeOK, ClaimWork, ReleaseWork, Inspect
    <3>. QED
      BY <3>2, <3>3
  <2>3. inspected' \in [Order -> [SKU -> Quantity]]
    <3>1. [k \in SKU |-> IF k \in ks THEN q[k] ELSE inspected[o][k]]
            \in [SKU -> Quantity]
      BY DEF TypeOK
    <3>2. CASE Inspect(w, o, ks, q)
      BY <3>1, <3>2 DEF TypeOK, Inspect
    <3>3. CASE ~Inspect(w, o, ks, q)
      BY <3>3 DEF TypeOK, ClaimWork, ReleaseWork, Pick
    <3>. QED
      BY <3>2, <3>3
  <2>. QED
    BY <1>1, <2>1, <2>2, <2>3 DEF TypeOK
<1>3. BalanceMatchesReservations' /\ LineMatchesReservation'
  BY <1>1 DEF BalanceMatchesReservations, LineMatchesReservation, Held, Remaining
<1>4. \A p \in Order, k \in SKU :
        Remaining(p, k)' = Remaining(p, k) /\ Remaining(p, k) \in Quantity
  BY <1>1, RemainingFacts DEF Remaining
<1>5. WorkWithinReservation'
  <2>1. CASE ClaimWork(w, o) \/ ReleaseWork(w, o)
    BY <2>1, <1>4 DEF WorkWithinReservation, ClaimWork, ReleaseWork
  <2>2. CASE Pick(w, o, ks, q)
    BY <2>2, <1>4 DEF WorkWithinReservation, Pick, TypeOK
  <2>3. CASE Inspect(w, o, ks, q)
    BY <2>3, <1>4 DEF WorkWithinReservation, Inspect, TypeOK
  <2>. QED
    BY <2>1, <2>2, <2>3
<1>6. CountedShelvesAreWhole'
  <2>1. CASE ClaimWork(w, o) \/ ReleaseWork(w, o)
    BY <1>1, <2>1 DEF CountedShelvesAreWhole, ClaimWork, ReleaseWork
  <2>2. CASE Pick(w, o, ks, q)
    BY <1>1, <2>2 DEF CountedShelvesAreWhole, Pick, MayWork, TypeOK
  <2>3. CASE Inspect(w, o, ks, q)
    BY <1>1, <2>3 DEF CountedShelvesAreWhole, Inspect, MayWork, TypeOK
  <2>. QED
    BY <2>1, <2>2, <2>3
<1>7. PendingCancellationStopsWork'
  BY <1>1 DEF PendingCancellationStopsWork, ClaimWork, ReleaseWork, Pick,
              Inspect, MayWork, TypeOK
<1>8. OnlyConfirmedOrdersHoldStock'
  BY <1>1, <1>4 DEF OnlyConfirmedOrdersHoldStock, HasRemaining, ClaimWork,
                    ReleaseWork, Pick, Inspect, TypeOK
<1>. QED
  BY <1>2, <1>3, <1>5, <1>6, <1>7, <1>8

(* Starting and cancelling a count, and stock that moves without an order. *)
LEMMA StockKeepsIInv ==
  ASSUME IInv, NEW k \in SKU, NEW n \in 0..MaxStock, NEW q \in [SKU -> 0..MaxStock],
         \/ StartCount(k) \/ CancelCount(k) \/ Receive(q) \/ Adjust(k, n)
         \/ FindNoRow(k) \/ ReadImport(k) \/ ApplyImport(k, n)
  PROVE  IInv'
<1>. USE FulfillmentAssumption DEF IInv, orderVars, resvVars, workVars
<1>1. UNCHANGED <<orderVars, resvVars, workVars, reserved>>
  BY DEF StartCount, CancelCount, Receive, Adjust, FindNoRow, ReadImport, ApplyImport
<1>2. TypeOK'
  <2>1. onHand' \in [SKU -> Nat]
    <3>1. CASE StartCount(k) \/ CancelCount(k) \/ FindNoRow(k) \/ ReadImport(k)
      BY <3>1 DEF TypeOK, StartCount, CancelCount, FindNoRow, ReadImport
    <3>2. CASE Receive(q)
      BY <3>2 DEF TypeOK, Receive
    <3>3. CASE Adjust(k, n) \/ ApplyImport(k, n)
      BY <3>3 DEF TypeOK, Adjust, ApplyImport
    <3>. QED
      BY <3>1, <3>2, <3>3
  <2>2. /\ stocked' \in SUBSET SKU /\ importing' \in SUBSET SKU
        /\ unlocked' \in SUBSET SKU /\ counting' \in [SKU -> BOOLEAN]
    BY DEF TypeOK, StartCount, CancelCount, Receive, Adjust, FindNoRow, ReadImport,
           ApplyImport, underway
  <2>. QED
    BY <1>1, <2>1, <2>2 DEF TypeOK
<1>3. \A j \in SKU : reserved[j] <= onHand'[j]
  <2>1. CASE StartCount(k) \/ CancelCount(k) \/ FindNoRow(k) \/ ReadImport(k)
    BY <2>1 DEF StartCount, CancelCount, FindNoRow, ReadImport, BalanceMatchesReservations
  <2>2. CASE Receive(q)
    BY <2>2 DEF Receive, BalanceMatchesReservations, TypeOK
  <2>3. CASE Adjust(k, n)
    BY <2>3 DEF Adjust, BalanceMatchesReservations, TypeOK
  <2>4. CASE ApplyImport(k, n)
    <3>1. \/ onHand' = onHand
          \/ onHand' = [onHand EXCEPT ![k] = n] /\ ~(n < reserved[k])
      BY <2>4 DEF ApplyImport
    <3>. QED
      BY <3>1 DEF BalanceMatchesReservations, TypeOK
  <2>. QED
    BY <2>1, <2>2, <2>3, <2>4
<1>4. BalanceMatchesReservations'
  BY <1>1, <1>3 DEF BalanceMatchesReservations, Held, Remaining
<1>5. LineMatchesReservation' /\ WorkWithinReservation'
  BY <1>1 DEF LineMatchesReservation, WorkWithinReservation, Remaining
<1>6. CountedShelvesAreWhole'
  <2>1. CASE StartCount(k)
    <3>1. \A o \in Order : picked[o][k] = 0 /\ inspected[o][k] = 0
      BY <2>1 DEF StartCount, NoPicksAt, WorkWithinReservation, Remaining,
                  TypeOK, Quantity
    <3>. QED
      BY <1>1, <2>1, <3>1 DEF StartCount, CountedShelvesAreWhole, TypeOK
  <2>2. CASE ~StartCount(k)
    <3>1. \A j \in SKU : counting'[j] => counting[j]
      BY <2>2 DEF CancelCount, Receive, Adjust, FindNoRow, ReadImport, ApplyImport, TypeOK
    <3>. QED
      BY <1>1, <3>1 DEF CountedShelvesAreWhole
  <2>. QED
    BY <2>1, <2>2
<1>7. PendingCancellationStopsWork' /\ OnlyConfirmedOrdersHoldStock'
  BY <1>1 DEF PendingCancellationStopsWork, OnlyConfirmedOrdersHoldStock,
              HasRemaining, Remaining
<1>. QED
  BY <1>2, <1>4, <1>5, <1>6, <1>7

(***************************************************************************)
(* Orders that come, and cancellations that are asked for or refused.      *)
(***************************************************************************)

(* A new order reserves nothing: its lines only bound later reservations. *)
LEMMA SubmitKeepsIInv ==
  ASSUME IInv, NEW o \in Order, NEW want \in [SKU -> Quantity], Submit(o, want)
  PROVE  IInv'
<1>. USE FulfillmentAssumption DEF IInv, Submit, resvVars, workVars, stockVars, underway
<1>1. TypeOK'
  BY DEF TypeOK
<1>2. /\ BalanceMatchesReservations' /\ WorkWithinReservation'
      /\ CountedShelvesAreWhole'
  BY DEF BalanceMatchesReservations, WorkWithinReservation,
         CountedShelvesAreWhole, Held, Remaining
<1>3. resv[o] = [k \in SKU |-> NoResv] /\ o \notin pendingCancel
  BY DEF OnlyConfirmedOrdersHoldStock, PendingCancellationStopsWork
<1>4. LineMatchesReservation'
  <2>. SUFFICES ASSUME NEW p \in Order, NEW k \in SKU
               PROVE  /\ resv[p][k].quantity <= requested'[p][k]
                      /\ resv' = resv /\ lineReserved' = lineReserved
    BY DEF LineMatchesReservation
  <2>1. CASE p = o
    BY <1>3, <2>1 DEF TypeOK, NoResv, Quantity
  <2>2. CASE p # o
    BY <2>2 DEF TypeOK, LineMatchesReservation
  <2>. QED
    BY <2>1, <2>2
<1>5. PendingCancellationStopsWork'
  BY <1>3 DEF PendingCancellationStopsWork, TypeOK
<1>6. OnlyConfirmedOrdersHoldStock'
  BY DEF OnlyConfirmedOrdersHoldStock, HasRemaining, Remaining, TypeOK
<1>. QED
  BY <1>1, <1>2, <1>4, <1>5, <1>6

(* A cancellation request empties the cart and ends the assignment. *)
LEMMA RequestKeepsIInv ==
  ASSUME IInv, NEW o \in Order,
         RequestCancellation(o) \/ RejectCancellation(o)
  PROVE  IInv'
<1>. USE FulfillmentAssumption DEF IInv, resvVars, stockVars, underway
<1>1. UNCHANGED <<orderStatus, requested, resvVars, stockVars>>
  BY DEF RequestCancellation, RejectCancellation
<1>2. \/ UNCHANGED workVars
      \/ /\ picked' = [picked EXCEPT ![o] = NoUnits]
         /\ inspected' = [inspected EXCEPT ![o] = NoUnits]
         /\ assignee' = [assignee EXCEPT ![o] = NoWorker]
  BY DEF RequestCancellation, RejectCancellation, DropWork
<1>3. NoUnits \in [SKU -> Quantity]
  BY DEF NoUnits, Quantity
<1>4. TypeOK'
  <2>1. picked' \in [Order -> [SKU -> Quantity]]
    <3>. picked' = picked \/ picked' = [picked EXCEPT ![o] = NoUnits]
      BY <1>2 DEF workVars
    <3>. QED
      BY <1>3 DEF TypeOK
  <2>4. inspected' \in [Order -> [SKU -> Quantity]]
    <3>. inspected' = inspected \/ inspected' = [inspected EXCEPT ![o] = NoUnits]
      BY <1>2 DEF workVars
    <3>. QED
      BY <1>3 DEF TypeOK
  <2>2. assignee' \in [Order -> Worker \cup {NoWorker}]
    BY <1>2 DEF TypeOK, workVars
  <2>3. pendingCancel' \in SUBSET Order
    BY DEF TypeOK, RequestCancellation, RejectCancellation
  <2>. QED
    BY <1>1, <2>1, <2>2, <2>3, <2>4 DEF TypeOK
<1>5. BalanceMatchesReservations' /\ LineMatchesReservation'
  BY <1>1 DEF BalanceMatchesReservations, LineMatchesReservation, Held, Remaining
<1>6. \A p \in Order, k \in SKU :
        Remaining(p, k)' = Remaining(p, k) /\ Remaining(p, k) \in Quantity
  BY <1>1, RemainingFacts DEF Remaining
<1>7. WorkWithinReservation'
  BY <1>2, <1>6 DEF WorkWithinReservation, workVars, TypeOK, NoUnits, Quantity
<1>8. CountedShelvesAreWhole'
  BY <1>1, <1>2 DEF CountedShelvesAreWhole, workVars, TypeOK, NoUnits
<1>9. PendingCancellationStopsWork'
  <2>1. CASE RequestCancellation(o)
    BY <1>1, <2>1 DEF RequestCancellation, DropWork, TypeOK,
                      PendingCancellationStopsWork
  <2>2. CASE RejectCancellation(o)
    BY <1>1, <2>2 DEF RejectCancellation, workVars, PendingCancellationStopsWork
  <2>. QED
    BY <2>1, <2>2
<1>10. OnlyConfirmedOrdersHoldStock'
  BY <1>1, <1>2, <1>6 DEF OnlyConfirmedOrdersHoldStock, HasRemaining, workVars,
                          TypeOK
<1>. QED
  BY <1>4, <1>5, <1>7, <1>8, <1>9, <1>10

(***************************************************************************)
(* Confirm and allocate.                                                   *)
(***************************************************************************)

(* What a line is given fits what it still waits for and the free stock.   *)
LEMMA FillFacts ==
  ASSUME IInv, NEW o \in Order
  PROVE  /\ Fill(o) \in [SKU -> Quantity]
         /\ \A k \in SKU : /\ lineReserved[o][k] + Fill(o)[k] <= requested[o][k]
                           /\ reserved[k] + Fill(o)[k] <= onHand[k]
<1>. USE FulfillmentAssumption DEF IInv
<1>1. ASSUME NEW k \in SKU
      PROVE  /\ lineReserved[o][k] \in Quantity /\ requested[o][k] \in Quantity
             /\ lineReserved[o][k] <= requested[o][k]
             /\ reserved[k] \in Nat /\ onHand[k] \in Nat /\ reserved[k] <= onHand[k]
  <2>1. /\ resv[o][k] \in Reservation
        /\ lineReserved[o][k] \in Quantity /\ requested[o][k] \in Quantity
        /\ reserved[k] \in Nat /\ onHand[k] \in Nat
    BY DEF TypeOK
  <2>2. lineReserved[o][k] <= requested[o][k]
    BY <2>1 DEF LineMatchesReservation, Quantity, Reservation
  <2>. QED
    BY <2>1, <2>2 DEF BalanceMatchesReservations
<1>2. ASSUME NEW k \in SKU
      PROVE  /\ Fill(o)[k] \in Quantity
             /\ lineReserved[o][k] + Fill(o)[k] <= requested[o][k]
             /\ reserved[k] + Fill(o)[k] <= onHand[k]
  BY <1>1 DEF Fill, Smaller, Excess, Available, Quantity
<1>. QED
  BY <1>2 DEF Fill

(* What the two commands do to each line. *)
LEMMA ReserveEffect ==
  ASSUME IInv, NEW o \in Order, Confirm(o) \/ Allocate(o)
  PROVE  /\ \A k \in SKU :
              /\ resv'[o][k] \in Reservation
              /\ resv'[o][k] = Granted(resv[o][k], Fill(o)[k])
              /\ lineReserved'[o][k] = lineReserved[o][k] + Fill(o)[k]
              /\ lineReserved'[o][k] \in Quantity
              /\ Remaining(o, k)' = Remaining(o, k) + Fill(o)[k]
              /\ lineReserved'[o][k] = IF resv'[o][k].status = "released"
                                       THEN resv'[o][k].shipped
                                       ELSE resv'[o][k].quantity
              /\ resv'[o][k].quantity <= requested[o][k]
              /\ IF resv'[o][k].status \in {"active", "released"}
                 THEN resv'[o][k].shipped < resv'[o][k].quantity
                 ELSE resv'[o][k].shipped = resv'[o][k].quantity
              /\ resv'[o][k].status = "none" => resv'[o][k].quantity = 0
         /\ \A p \in Order \ {o} :
              /\ resv'[p] = resv[p] /\ lineReserved'[p] = lineReserved[p]
              /\ \A k \in SKU : Remaining(p, k)' = Remaining(p, k)
<1>. USE FulfillmentAssumption
<1>. DEFINE q == Fill(o)
<1>1. /\ IInv /\ TypeOK /\ LineMatchesReservation /\ BalanceMatchesReservations
      /\ WorkWithinReservation /\ CountedShelvesAreWhole
      /\ PendingCancellationStopsWork /\ OnlyConfirmedOrdersHoldStock
  BY DEF IInv
<1>2. /\ q \in [SKU -> Quantity]
      /\ \A k \in SKU : /\ lineReserved[o][k] + q[k] <= requested[o][k]
                        /\ reserved[k] + q[k] <= onHand[k]
  BY FillFacts
<1>3. Reserve(o, q)
  BY DEF Confirm, Allocate
<1>4. /\ UNCHANGED <<requested, pendingCancel, workVars, stocked, onHand,
                     counting, underway>>
      /\ orderStatus' = orderStatus
           \/ orderStatus' = [orderStatus EXCEPT ![o] = "confirmed"]
      /\ orderStatus[o] = "confirmed" \/ orderStatus'[o] = "confirmed"
  BY <1>1 DEF Confirm, Allocate, orderVars, TypeOK
<1>. HIDE DEF q
(* The line that is granted q[k] more units. *)
<1>5. ASSUME NEW k \in SKU
      PROVE  /\ resv'[o][k] \in Reservation
             /\ resv'[o][k] = Granted(resv[o][k], q[k])
             /\ lineReserved'[o][k] = lineReserved[o][k] + q[k]
             /\ lineReserved'[o][k] \in Quantity
             /\ Remaining(o, k)' = Remaining(o, k) + q[k]
             /\ lineReserved'[o][k] = IF resv'[o][k].status = "released"
                                      THEN resv'[o][k].shipped
                                      ELSE resv'[o][k].quantity
             /\ resv'[o][k].quantity <= requested[o][k]
             /\ IF resv'[o][k].status \in {"active", "released"}
                THEN resv'[o][k].shipped < resv'[o][k].quantity
                ELSE resv'[o][k].shipped = resv'[o][k].quantity
             /\ resv'[o][k].status = "none" => resv'[o][k].quantity = 0
  <2>. DEFINE r == resv[o][k]
  <2>1. /\ r \in Reservation /\ requested[o][k] \in Quantity /\ q[k] \in Quantity
        /\ lineReserved[o][k] = IF r.status = "released" THEN r.shipped ELSE r.quantity
        /\ r.quantity <= requested[o][k]
        /\ IF r.status \in {"active", "released"} THEN r.shipped < r.quantity
           ELSE r.shipped = r.quantity
        /\ r.status = "none" => r.quantity = 0
        /\ lineReserved[o][k] + q[k] <= requested[o][k]
    BY <1>1, <1>2 DEF TypeOK, LineMatchesReservation
  <2>2. /\ resv'[o][k] = Granted(r, q[k])
        /\ lineReserved'[o][k] = lineReserved[o][k] + q[k]
    BY <1>1, <1>3 DEF Reserve, TypeOK
  <2>3. Remaining(o, k)' = IF resv'[o][k].status = "active"
                           THEN resv'[o][k].quantity - resv'[o][k].shipped ELSE 0
    BY DEF Remaining
  <2>4. Remaining(o, k) = IF r.status = "active" THEN r.quantity - r.shipped ELSE 0
    BY DEF Remaining
  <2>. HIDE DEF r
  <2>5. CASE q[k] = 0
    <3>1. resv'[o][k] = r /\ lineReserved'[o][k] = lineReserved[o][k]
      BY <2>1, <2>2, <2>5 DEF Granted, Quantity, Reservation
    <3>2. resv'[o][k] = Granted(resv[o][k], q[k])
      BY <2>2 DEF r
    <3>3. Remaining(o, k)' = Remaining(o, k) + q[k]
      BY <2>1, <2>3, <2>4, <2>5, <3>1 DEF Quantity, Reservation
    <3>4. /\ resv'[o][k] \in Reservation /\ lineReserved'[o][k] \in Quantity
          /\ lineReserved'[o][k] = lineReserved[o][k] + q[k]
      BY <2>1, <2>2, <3>1 DEF Quantity, Reservation
    <3>. QED
      BY <2>1, <3>1, <3>2, <3>3, <3>4, Zenon
  <2>6. CASE q[k] # 0
    <3>1. /\ resv'[o][k].status = "active" /\ resv'[o][k].shipped = r.shipped
          /\ resv'[o][k].quantity = lineReserved[o][k] + q[k]
          /\ resv'[o][k] = [status |-> "active", quantity |-> lineReserved[o][k] + q[k],
                            shipped |-> r.shipped]
      BY <2>1, <2>2, <2>6 DEF Granted, Quantity, Reservation
    <3>2. /\ r.shipped \in Nat /\ q[k] \in Nat /\ q[k] > 0 /\ lineReserved[o][k] \in Nat
          /\ lineReserved[o][k] + q[k] \in Quantity /\ r.shipped \in Quantity
      BY <2>1, <2>6 DEF Quantity, Reservation
    <3>3. resv'[o][k] \in Reservation
      BY <3>1, <3>2 DEF Reservation
    <3>4. Remaining(o, k) + q[k] = lineReserved[o][k] + q[k] - r.shipped
      BY <2>1, <2>4, <3>2 DEF Quantity, Reservation
    <3>5. r.shipped < lineReserved[o][k] + q[k]
      BY <2>1, <3>2 DEF Quantity, Reservation
    <3>6. resv'[o][k] = Granted(resv[o][k], q[k])
      BY <2>2 DEF r
    <3>7. Remaining(o, k)' = Remaining(o, k) + q[k]
      <4>1. Remaining(o, k)' = resv'[o][k].quantity - resv'[o][k].shipped
        BY <2>3, <3>1
      <4>2. Remaining(o, k)' = lineReserved[o][k] + q[k] - r.shipped
        <5>. DEFINE r2 == resv'[o][k]
        <5>1. /\ r2.quantity = lineReserved[o][k] + q[k] /\ r2.shipped = r.shipped
              /\ Remaining(o, k)' = r2.quantity - r2.shipped
          BY <3>1, <4>1
        <5>. HIDE DEF r2
        <5>. QED
          BY <3>2, <5>1
      <4>. QED
        BY <3>4, <4>2
    <3>8. resv'[o][k].quantity <= requested[o][k] /\ lineReserved'[o][k] \in Quantity
      BY <2>1, <2>2, <3>1, <3>2
    <3>9. resv'[o][k].shipped < resv'[o][k].quantity
      BY <3>1, <3>5
    <3>10. lineReserved'[o][k] = resv'[o][k].quantity
      BY <2>2, <3>1
    <3>11. resv'[o][k].status = "active"
      BY <3>1
    <3>. QED
      BY <2>2, <3>3, <3>6, <3>7, <3>8, <3>9, <3>10, <3>11
  <2>. QED
    BY <2>5, <2>6, <2>1 DEF Quantity
(* Every other order is untouched. *)
<1>6. ASSUME NEW p \in Order, p # o
      PROVE  /\ resv'[p] = resv[p] /\ lineReserved'[p] = lineReserved[p]
             /\ \A k \in SKU : Remaining(p, k)' = Remaining(p, k)
  BY <1>1, <1>3, <1>6 DEF Reserve, TypeOK, Remaining
<1>. QED
  BY <1>5, <1>6 DEF q

(* Confirm and allocate move free units to one order. *)
LEMMA ReserveKeepsIInv ==
  ASSUME IInv, NEW o \in Order, Confirm(o) \/ Allocate(o)
  PROVE  IInv'
<1>. USE FulfillmentAssumption
<1>. DEFINE q == Fill(o)
<1>1. /\ IInv /\ TypeOK /\ LineMatchesReservation /\ BalanceMatchesReservations
      /\ WorkWithinReservation /\ CountedShelvesAreWhole
      /\ PendingCancellationStopsWork /\ OnlyConfirmedOrdersHoldStock
  BY DEF IInv
<1>2. /\ q \in [SKU -> Quantity]
      /\ \A k \in SKU : /\ lineReserved[o][k] + q[k] <= requested[o][k]
                        /\ reserved[k] + q[k] <= onHand[k]
  BY FillFacts
<1>3. Reserve(o, q)
  BY DEF Confirm, Allocate
<1>4. /\ UNCHANGED <<requested, pendingCancel, workVars, stocked, onHand,
                     counting, underway>>
      /\ orderStatus' = orderStatus
           \/ orderStatus' = [orderStatus EXCEPT ![o] = "confirmed"]
      /\ orderStatus[o] = "confirmed" \/ orderStatus'[o] = "confirmed"
  BY <1>1 DEF Confirm, Allocate, orderVars, TypeOK
<1>. HIDE DEF q
(* The line that is granted q[k] more units. *)
<1>5. ASSUME NEW k \in SKU
      PROVE  /\ resv'[o][k] \in Reservation
             /\ resv'[o][k] = Granted(resv[o][k], q[k])
             /\ lineReserved'[o][k] = lineReserved[o][k] + q[k]
             /\ lineReserved'[o][k] \in Quantity
             /\ Remaining(o, k)' = Remaining(o, k) + q[k]
             /\ lineReserved'[o][k] = IF resv'[o][k].status = "released"
                                      THEN resv'[o][k].shipped
                                      ELSE resv'[o][k].quantity
             /\ resv'[o][k].quantity <= requested[o][k]
             /\ IF resv'[o][k].status \in {"active", "released"}
                THEN resv'[o][k].shipped < resv'[o][k].quantity
                ELSE resv'[o][k].shipped = resv'[o][k].quantity
             /\ resv'[o][k].status = "none" => resv'[o][k].quantity = 0
  BY ReserveEffect DEF q
(* Every other order is untouched. *)
<1>6. ASSUME NEW p \in Order, p # o
      PROVE  /\ resv'[p] = resv[p] /\ lineReserved'[p] = lineReserved[p]
             /\ \A k \in SKU : Remaining(p, k)' = Remaining(p, k)
  BY <1>6, ReserveEffect
<1>7. TypeOK'
  <2>1. resv' \in [Order -> [SKU -> Reservation]]
    <3>1. [k \in SKU |-> Granted(resv[o][k], q[k])] \in [SKU -> Reservation]
      BY <1>5
    <3>. QED
      BY <1>1, <1>3, <3>1 DEF TypeOK, Reserve
  <2>2. lineReserved' \in [Order -> [SKU -> Quantity]]
    <3>1. [k \in SKU |-> lineReserved[o][k] + q[k]] \in [SKU -> Quantity]
      BY <1>5
    <3>. QED
      BY <1>1, <1>3, <3>1 DEF TypeOK, Reserve
  <2>3. reserved' \in [SKU -> Nat]
    BY <1>1, <1>2, <1>3 DEF TypeOK, Reserve, Quantity
  <2>. QED
    BY <1>1, <1>4, <2>1, <2>2, <2>3 DEF TypeOK, underway, workVars
<1>8. LineMatchesReservation'
  <2>. SUFFICES ASSUME NEW p \in Order, NEW k \in SKU
               PROVE  LET r == resv'[p][k] IN
                      /\ lineReserved'[p][k] = IF r.status = "released"
                                               THEN r.shipped ELSE r.quantity
                      /\ r.quantity <= requested'[p][k]
                      /\ IF r.status \in {"active", "released"}
                         THEN r.shipped < r.quantity
                         ELSE r.shipped = r.quantity
                      /\ r.status = "none" => r.quantity = 0
    BY DEF LineMatchesReservation
  <2>1. CASE p = o
    BY <1>4, <1>5, <2>1
  <2>2. CASE p # o
    BY <1>1, <1>4, <1>6, <2>2 DEF LineMatchesReservation
  <2>. QED
    BY <2>1, <2>2
<1>9. ASSUME NEW p \in Order, NEW k \in SKU
      PROVE  /\ Remaining(p, k) \in Quantity /\ Remaining(p, k)' \in Quantity
             /\ Remaining(p, k) <= Remaining(p, k)'
  <2>1. Remaining(p, k) \in Quantity
    BY <1>1, RemainingFacts
  <2>2. Remaining(p, k)' \in Quantity
    <3>1. TypeOK' /\ LineMatchesReservation'
      BY <1>7, <1>8
    <3>2. resv'[p][k] \in Reservation
      BY <3>1 DEF TypeOK
    <3>. QED
      BY <3>1, <3>2 DEF LineMatchesReservation, Remaining, Reservation, Quantity
  <2>3. CASE p = o
    BY <1>2, <1>5, <2>1, <2>2, <2>3 DEF Quantity
  <2>4. CASE p # o
    BY <1>6, <2>1, <2>2, <2>4 DEF Quantity
  <2>. QED
    BY <2>1, <2>2, <2>3, <2>4
<1>10. BalanceMatchesReservations'
  <2>. SUFFICES ASSUME NEW k \in SKU
               PROVE  reserved'[k] = Total(Held(k)') /\ reserved'[k] <= onHand'[k]
    BY DEF BalanceMatchesReservations
  <2>1. Held(k) \in [Order -> Quantity] /\ Held(k)' \in [Order -> Quantity]
    BY <1>9 DEF Held
  <2>2. /\ Held(k)'[o] = Held(k)[o] + q[k]
        /\ \A p \in Order : p # o => Held(k)'[p] = Held(k)[p]
    BY <1>5, <1>6 DEF Held
  <2>3. Total(Held(k)') = Total(Held(k)) + q[k]
    BY <1>2, <2>1, <2>2, TotalGrows
  <2>4. reserved'[k] = reserved[k] + q[k]
    BY <1>3 DEF Reserve
  <2>. QED
    BY <1>1, <1>2, <1>4, <2>3, <2>4 DEF BalanceMatchesReservations
<1>11. WorkWithinReservation'
  BY <1>1, <1>4, <1>9 DEF WorkWithinReservation, workVars, TypeOK, Quantity
<1>12. CountedShelvesAreWhole' /\ PendingCancellationStopsWork'
  BY <1>1, <1>4 DEF CountedShelvesAreWhole, PendingCancellationStopsWork, workVars,
                    TypeOK
<1>13. OnlyConfirmedOrdersHoldStock'
  <2>. SUFFICES ASSUME NEW p \in Order, orderStatus'[p] # "confirmed"
               PROVE  /\ assignee'[p] = NoWorker
                      /\ ~HasRemaining(p)'
                      /\ orderStatus'[p] # "cancelled"
                           => resv'[p] = [k \in SKU |-> NoResv]
    BY DEF OnlyConfirmedOrdersHoldStock
  <2>1. p # o /\ orderStatus'[p] = orderStatus[p]
    BY <1>1, <1>4 DEF TypeOK
  <2>. QED
    BY <1>1, <1>4, <1>6, <2>1
       DEF OnlyConfirmedOrdersHoldStock, HasRemaining, workVars
<1>. QED
  BY <1>7, <1>8, <1>10, <1>11, <1>12, <1>13 DEF IInv

(***************************************************************************)
(* Ship.                                                                   *)
(***************************************************************************)

(* What a shipment does to each line: q[k] units leave it. *)
LEMMA ShipEffect ==
  ASSUME IInv, NEW w \in Worker, NEW o \in Order, NEW q \in [SKU -> Quantity],
         Ship(w, o, q)
  PROVE  /\ \A k \in SKU :
              /\ resv'[o][k] \in Reservation
              /\ resv'[o][k] = Dispatched(resv[o][k], q[k])
              /\ resv'[o][k].quantity = resv[o][k].quantity
              /\ resv'[o][k].status = "released" <=> resv[o][k].status = "released"
              /\ resv'[o][k].status = "none" <=> resv[o][k].status = "none"
              /\ resv[o][k].status = "released"
                   => resv'[o][k].shipped = resv[o][k].shipped
              /\ IF resv'[o][k].status \in {"active", "released"}
                 THEN resv'[o][k].shipped < resv'[o][k].quantity
                 ELSE resv'[o][k].shipped = resv'[o][k].quantity
              /\ Remaining(o, k) = Remaining(o, k)' + q[k]
              /\ Remaining(o, k)' \in Quantity
         /\ \A p \in Order \ {o} :
              /\ resv'[p] = resv[p] /\ picked'[p] = picked[p]
              /\ inspected'[p] = inspected[p] /\ assignee'[p] = assignee[p]
              /\ \A k \in SKU : Remaining(p, k)' = Remaining(p, k)
<1>. USE FulfillmentAssumption
<1>1. /\ TypeOK /\ LineMatchesReservation /\ BalanceMatchesReservations
      /\ WorkWithinReservation /\ CountedShelvesAreWhole
      /\ PendingCancellationStopsWork /\ OnlyConfirmedOrdersHoldStock
  BY DEF IInv
<1>2. /\ UNCHANGED <<orderVars, lineReserved, stocked, counting, underway>>
      /\ o \notin pendingCancel
      /\ \E k \in SKU : q[k] > 0
      /\ \A k \in SKU : q[k] > 0 =>
           /\ resv[o][k].status = "active" /\ q[k] <= Remaining(o, k)
           /\ q[k] <= inspected[o][k] /\ ~counting[k]
           /\ q[k] <= onHand[k] /\ q[k] <= reserved[k]
  BY DEF Ship
<1>3. \A k \in SKU : q[k] \in Nat /\ q[k] <= MaxQty /\ Remaining(o, k) \in Quantity
  BY <1>1, RemainingFacts DEF Quantity
(* Only a confirmed order has something left to ship. *)
<1>4. orderStatus[o] = "confirmed"
  BY <1>1, <1>2, <1>3 DEF OnlyConfirmedOrdersHoldStock, HasRemaining, Quantity
(* A line of which q[k] units leave. *)
<1>5. ASSUME NEW k \in SKU
      PROVE  /\ resv'[o][k] \in Reservation
             /\ resv'[o][k] = Dispatched(resv[o][k], q[k])
             /\ resv'[o][k].quantity = resv[o][k].quantity
             /\ resv'[o][k].status = "released" <=> resv[o][k].status = "released"
             /\ resv'[o][k].status = "none" <=> resv[o][k].status = "none"
             /\ resv[o][k].status = "released"
                  => resv'[o][k].shipped = resv[o][k].shipped
             /\ IF resv'[o][k].status \in {"active", "released"}
                THEN resv'[o][k].shipped < resv'[o][k].quantity
                ELSE resv'[o][k].shipped = resv'[o][k].quantity
             /\ Remaining(o, k) = Remaining(o, k)' + q[k]
             /\ Remaining(o, k)' \in Quantity
  <2>. DEFINE r == resv[o][k]
              t == resv'[o][k]
  <2>1. /\ r \in Reservation
        /\ IF r.status \in {"active", "released"} THEN r.shipped < r.quantity
           ELSE r.shipped = r.quantity
    BY <1>1 DEF TypeOK, LineMatchesReservation
  <2>2. t = Dispatched(r, q[k])
    BY <1>1 DEF Ship, TypeOK
  <2>3. Remaining(o, k)' = IF t.status = "active" THEN t.quantity - t.shipped ELSE 0
    BY DEF Remaining
  <2>4. Remaining(o, k) = IF r.status = "active" THEN r.quantity - r.shipped ELSE 0
    BY DEF Remaining
  <2>5. q[k] > 0 => r.status = "active" /\ q[k] <= Remaining(o, k)
    BY <1>2
  <2>. HIDE DEF r, t
  <2>6. CASE q[k] = 0
    <3>1. t = r
      BY <2>2, <2>6 DEF Dispatched
    <3>2. Remaining(o, k)' = Remaining(o, k)
      BY <2>3, <2>4, <3>1
    <3>3. Remaining(o, k) = Remaining(o, k)' + q[k]
      BY <1>3, <2>6, <3>2 DEF Quantity
    <3>. QED
      BY <1>3, <2>1, <2>2, <3>1, <3>2, <3>3, Zenon DEF r, t
  <2>7. CASE q[k] > 0
    <3>1. /\ r.status = "active" /\ r.quantity \in Quantity /\ r.shipped \in Quantity
          /\ r.shipped + q[k] <= r.quantity
      BY <1>3, <2>1, <2>4, <2>5, <2>7 DEF Reservation, Quantity
    <3>2. /\ t.quantity = r.quantity /\ t.shipped = r.shipped + q[k]
          /\ t.status = IF r.shipped + q[k] = r.quantity THEN "shipped" ELSE "active"
      BY <1>3, <2>1, <2>2, <2>7 DEF Dispatched, Reservation
    <3>3. r.shipped + q[k] \in Quantity
      BY <1>3, <3>1 DEF Quantity
    <3>4. t \in Reservation
      BY <1>3, <2>1, <2>2, <2>7, <3>3 DEF Dispatched, Reservation
    <3>5. /\ Remaining(o, k) = r.quantity - r.shipped
          /\ Remaining(o, k)' = r.quantity - (r.shipped + q[k])
      BY <1>3, <2>3, <2>4, <3>1, <3>2 DEF Quantity
    <3>6. Remaining(o, k) = Remaining(o, k)' + q[k] /\ Remaining(o, k)' \in Quantity
      BY <1>3, <3>1, <3>5 DEF Quantity
    <3>7. IF t.status \in {"active", "released"} THEN t.shipped < t.quantity
          ELSE t.shipped = t.quantity
      BY <1>3, <3>1, <3>2 DEF Quantity
    <3>8. t.status # "released" /\ t.status # "none" /\ r.status = "active"
      BY <3>1, <3>2
    <3>. QED
      BY <2>2, <3>2, <3>4, <3>6, <3>7, <3>8 DEF r, t
  <2>. QED
    BY <1>3, <2>6, <2>7
<1>6. ASSUME NEW p \in Order, p # o
      PROVE  /\ resv'[p] = resv[p] /\ picked'[p] = picked[p]
             /\ inspected'[p] = inspected[p] /\ assignee'[p] = assignee[p]
             /\ \A k \in SKU : Remaining(p, k)' = Remaining(p, k)
  BY <1>1, <1>6 DEF Ship, TypeOK, Remaining
(* What leaves was inspected, hence picked. *)
<1>. QED
  BY <1>5, <1>6

(* A shipment takes the same units from balance, reservation and cart. *)
LEMMA ShipKeepsIInv ==
  ASSUME IInv, NEW w \in Worker, NEW o \in Order, NEW q \in [SKU -> Quantity],
         Ship(w, o, q)
  PROVE  IInv'
<1>. USE FulfillmentAssumption
<1>1. /\ TypeOK /\ LineMatchesReservation /\ BalanceMatchesReservations
      /\ WorkWithinReservation /\ CountedShelvesAreWhole
      /\ PendingCancellationStopsWork /\ OnlyConfirmedOrdersHoldStock
  BY DEF IInv
<1>2. /\ UNCHANGED <<orderVars, lineReserved, stocked, counting, underway>>
      /\ o \notin pendingCancel
      /\ \E k \in SKU : q[k] > 0
      /\ \A k \in SKU : q[k] > 0 =>
           /\ resv[o][k].status = "active" /\ q[k] <= Remaining(o, k)
           /\ q[k] <= inspected[o][k] /\ ~counting[k]
           /\ q[k] <= onHand[k] /\ q[k] <= reserved[k]
  BY DEF Ship
<1>3. \A k \in SKU : q[k] \in Nat /\ q[k] <= MaxQty /\ Remaining(o, k) \in Quantity
  BY <1>1, RemainingFacts DEF Quantity
(* Only a confirmed order has something left to ship. *)
<1>4. orderStatus[o] = "confirmed"
  BY <1>1, <1>2, <1>3 DEF OnlyConfirmedOrdersHoldStock, HasRemaining, Quantity
(* A line of which q[k] units leave. *)
<1>5. ASSUME NEW k \in SKU
      PROVE  /\ resv'[o][k] \in Reservation
             /\ resv'[o][k] = Dispatched(resv[o][k], q[k])
             /\ resv'[o][k].quantity = resv[o][k].quantity
             /\ resv'[o][k].status = "released" <=> resv[o][k].status = "released"
             /\ resv'[o][k].status = "none" <=> resv[o][k].status = "none"
             /\ resv[o][k].status = "released"
                  => resv'[o][k].shipped = resv[o][k].shipped
             /\ IF resv'[o][k].status \in {"active", "released"}
                THEN resv'[o][k].shipped < resv'[o][k].quantity
                ELSE resv'[o][k].shipped = resv'[o][k].quantity
             /\ Remaining(o, k) = Remaining(o, k)' + q[k]
             /\ Remaining(o, k)' \in Quantity
  BY ShipEffect
<1>6. ASSUME NEW p \in Order, p # o
      PROVE  /\ resv'[p] = resv[p] /\ picked'[p] = picked[p]
             /\ inspected'[p] = inspected[p] /\ assignee'[p] = assignee[p]
             /\ \A k \in SKU : Remaining(p, k)' = Remaining(p, k)
  BY <1>6, ShipEffect
(* What leaves was inspected, hence picked. *)
<1>7. ASSUME NEW k \in SKU
      PROVE  /\ picked'[o][k] = picked[o][k] - q[k]
             /\ inspected'[o][k] = inspected[o][k] - q[k]
             /\ picked'[o][k] \in Quantity /\ inspected'[o][k] \in Quantity
             /\ inspected'[o][k] <= picked'[o][k]
             /\ picked'[o][k] <= Remaining(o, k)'
  <2>1. /\ picked'[o][k] = picked[o][k] - q[k]
        /\ inspected'[o][k] = inspected[o][k] - q[k]
    BY <1>1 DEF Ship, TypeOK
  <2>2. /\ picked[o][k] \in Quantity /\ inspected[o][k] \in Quantity
        /\ inspected[o][k] <= picked[o][k] /\ picked[o][k] <= Remaining(o, k)
    BY <1>1 DEF TypeOK, WorkWithinReservation
  <2>3. q[k] <= inspected[o][k]
    BY <1>2, <1>3, <2>2 DEF Quantity
  <2>4. Remaining(o, k) = Remaining(o, k)' + q[k] /\ Remaining(o, k)' \in Quantity
    BY <1>5
  <2>. QED
    BY <1>3, <2>1, <2>2, <2>3, <2>4 DEF Quantity
<1>8. TypeOK'
  <2>1. resv' \in [Order -> [SKU -> Reservation]]
    <3>1. [k \in SKU |-> Dispatched(resv[o][k], q[k])] \in [SKU -> Reservation]
      BY <1>5
    <3>. QED
      BY <1>1, <3>1 DEF TypeOK, Ship
  <2>2. picked' \in [Order -> [SKU -> Quantity]]
    <3>1. [k \in SKU |-> picked[o][k] - q[k]] \in [SKU -> Quantity]
      BY <1>7
    <3>. QED
      BY <1>1, <3>1 DEF TypeOK, Ship
  <2>3. inspected' \in [Order -> [SKU -> Quantity]]
    <3>1. [k \in SKU |-> inspected[o][k] - q[k]] \in [SKU -> Quantity]
      BY <1>7
    <3>. QED
      BY <1>1, <3>1 DEF TypeOK, Ship
  <2>4. onHand' \in [SKU -> Nat] /\ reserved' \in [SKU -> Nat]
    <3>1. ASSUME NEW k \in SKU
          PROVE  onHand[k] - q[k] \in Nat /\ reserved[k] - q[k] \in Nat
      <4>1. onHand[k] \in Nat /\ reserved[k] \in Nat /\ q[k] \in Nat
        BY <1>1, <1>3 DEF TypeOK
      <4>2. q[k] = 0 \/ (q[k] <= onHand[k] /\ q[k] <= reserved[k])
        BY <1>2, <4>1
      <4>. QED
        BY <4>1, <4>2
    <3>. QED
      BY <3>1 DEF Ship
  <2>5. assignee' \in [Order -> Worker \cup {NoWorker}]
    BY <1>1 DEF TypeOK, Ship
  <2>. QED
    BY <1>1, <1>2, <2>1, <2>2, <2>3, <2>4, <2>5 DEF TypeOK, underway, orderVars
<1>9. LineMatchesReservation'
  <2>. SUFFICES ASSUME NEW p \in Order, NEW k \in SKU
               PROVE  LET r == resv'[p][k] IN
                      /\ lineReserved'[p][k] = IF r.status = "released"
                                               THEN r.shipped ELSE r.quantity
                      /\ r.quantity <= requested'[p][k]
                      /\ IF r.status \in {"active", "released"}
                         THEN r.shipped < r.quantity
                         ELSE r.shipped = r.quantity
                      /\ r.status = "none" => r.quantity = 0
    BY DEF LineMatchesReservation
  <2>1. lineReserved' = lineReserved /\ requested' = requested
    BY <1>2 DEF orderVars
  <2>2. CASE p = o
    BY <1>1, <1>5, <2>1, <2>2 DEF LineMatchesReservation
  <2>3. CASE p # o
    BY <1>1, <1>6, <2>1, <2>3 DEF LineMatchesReservation
  <2>. QED
    BY <2>2, <2>3
<1>10. BalanceMatchesReservations'
  <2>. SUFFICES ASSUME NEW k \in SKU
               PROVE  reserved'[k] = Total(Held(k)') /\ reserved'[k] <= onHand'[k]
    BY DEF BalanceMatchesReservations
  <2>1. Held(k) \in [Order -> Quantity]
    BY <1>1, RemainingFacts
  <2>2. Held(k)' \in [Order -> Quantity]
    <3>1. ASSUME NEW p \in Order PROVE Remaining(p, k)' \in Quantity
      BY <1>1, <1>5, <1>6, RemainingFacts
    <3>. QED
      BY <3>1 DEF Held
  <2>3. /\ Held(k)[o] = Held(k)'[o] + q[k]
        /\ \A p \in Order : p # o => Held(k)[p] = Held(k)'[p]
    BY <1>5, <1>6 DEF Held
  <2>4. Total(Held(k)) = Total(Held(k)') + q[k]
    BY <2>1, <2>2, <2>3, TotalGrows
  <2>5. Total(Held(k)') \in Nat
    BY <2>2, UnitsFinite
  <2>6. reserved'[k] = reserved[k] - q[k] /\ onHand'[k] = onHand[k] - q[k]
    BY DEF Ship
  <2>7. /\ reserved[k] = Total(Held(k)) /\ reserved[k] <= onHand[k]
        /\ reserved[k] \in Nat /\ onHand[k] \in Nat
    BY <1>1 DEF BalanceMatchesReservations, TypeOK
  <2>. QED
    BY <1>3, <2>4, <2>5, <2>6, <2>7
<1>11. WorkWithinReservation'
  <2>. SUFFICES ASSUME NEW p \in Order, NEW k \in SKU
               PROVE  /\ inspected'[p][k] <= picked'[p][k]
                      /\ picked'[p][k] <= Remaining(p, k)'
    BY DEF WorkWithinReservation
  <2>. QED
    BY <1>1, <1>6, <1>7 DEF WorkWithinReservation
<1>12. CountedShelvesAreWhole'
  <2>. SUFFICES ASSUME NEW k \in SKU, counting'[k], NEW p \in Order
               PROVE  picked'[p][k] = 0 /\ inspected'[p][k] = 0
    BY DEF CountedShelvesAreWhole
  <2>1. counting[k] /\ picked[p][k] = 0 /\ inspected[p][k] = 0
    BY <1>1, <1>2 DEF CountedShelvesAreWhole
  <2>2. q[k] = 0
    BY <1>2, <1>3, <2>1
  <2>. QED
    BY <1>6, <1>7, <2>1, <2>2
<1>13. PendingCancellationStopsWork'
  BY <1>1, <1>2, <1>6 DEF PendingCancellationStopsWork, orderVars, TypeOK
<1>14. OnlyConfirmedOrdersHoldStock'
  <2>. SUFFICES ASSUME NEW p \in Order, orderStatus'[p] # "confirmed"
               PROVE  /\ assignee'[p] = NoWorker
                      /\ ~HasRemaining(p)'
                      /\ orderStatus'[p] # "cancelled"
                           => resv'[p] = [k \in SKU |-> NoResv]
    BY DEF OnlyConfirmedOrdersHoldStock
  <2>1. p # o /\ orderStatus' = orderStatus
    BY <1>2, <1>4 DEF orderVars
  <2>. QED
    BY <1>1, <1>6, <2>1 DEF OnlyConfirmedOrdersHoldStock, HasRemaining
<1>. QED
  BY <1>8, <1>9, <1>10, <1>11, <1>12, <1>13, <1>14 DEF IInv

(***************************************************************************)
(* Cancellation.                                                           *)
(***************************************************************************)

(* Each line of a cancelled order gives back all it holds. *)
LEMMA CancelEffect ==
  ASSUME IInv, NEW o \in Order, Cancel(o) \/ ApproveCancellation(o)
  PROVE  /\ \A k \in SKU :
              /\ resv'[o][k] \in Reservation
              /\ resv'[o][k] = IF Remaining(o, k) > 0
                               THEN [resv[o][k] EXCEPT !.status = "released"]
                               ELSE resv[o][k]
              /\ lineReserved'[o][k] = lineReserved[o][k] - Remaining(o, k)
              /\ lineReserved'[o][k] \in Quantity
              /\ lineReserved'[o][k] = IF resv'[o][k].status = "released"
                                       THEN resv'[o][k].shipped
                                       ELSE resv'[o][k].quantity
              /\ resv'[o][k].quantity = resv[o][k].quantity
              /\ IF resv'[o][k].status \in {"active", "released"}
                 THEN resv'[o][k].shipped < resv'[o][k].quantity
                 ELSE resv'[o][k].shipped = resv'[o][k].quantity
              /\ resv'[o][k].status = "none" => resv'[o][k].quantity = 0
              /\ Remaining(o, k)' = 0
         /\ \A p \in Order \ {o} :
              /\ resv'[p] = resv[p] /\ lineReserved'[p] = lineReserved[p]
              /\ picked'[p] = picked[p] /\ inspected'[p] = inspected[p]
              /\ assignee'[p] = assignee[p] /\ orderStatus'[p] = orderStatus[p]
              /\ \A k \in SKU : Remaining(p, k)' = Remaining(p, k)
<1>. USE FulfillmentAssumption
<1>1. /\ TypeOK /\ LineMatchesReservation /\ BalanceMatchesReservations
      /\ WorkWithinReservation /\ CountedShelvesAreWhole
      /\ PendingCancellationStopsWork /\ OnlyConfirmedOrdersHoldStock
  BY DEF IInv
<1>2. /\ ReleaseReservations(o)
      /\ UNCHANGED <<requested, stocked, onHand, counting, underway>>
      /\ orderStatus' = [orderStatus EXCEPT ![o] = "cancelled"]
      /\ pendingCancel' = pendingCancel \ {o}
  BY DEF Cancel, ApproveCancellation
<1>3. \A k \in SKU : Remaining(o, k) \in Quantity
  BY <1>1, RemainingFacts
(* A line gives back all it holds. *)
<1>4. ASSUME NEW k \in SKU
      PROVE  /\ resv'[o][k] \in Reservation
             /\ resv'[o][k] = IF Remaining(o, k) > 0
                              THEN [resv[o][k] EXCEPT !.status = "released"]
                              ELSE resv[o][k]
             /\ lineReserved'[o][k] = lineReserved[o][k] - Remaining(o, k)
             /\ lineReserved'[o][k] \in Quantity
             /\ lineReserved'[o][k] = IF resv'[o][k].status = "released"
                                      THEN resv'[o][k].shipped
                                      ELSE resv'[o][k].quantity
             /\ resv'[o][k].quantity = resv[o][k].quantity
             /\ IF resv'[o][k].status \in {"active", "released"}
                THEN resv'[o][k].shipped < resv'[o][k].quantity
                ELSE resv'[o][k].shipped = resv'[o][k].quantity
             /\ resv'[o][k].status = "none" => resv'[o][k].quantity = 0
             /\ Remaining(o, k)' = 0
  <2>. DEFINE r == resv[o][k]
              t == resv'[o][k]
  <2>1. /\ r \in Reservation /\ lineReserved[o][k] \in Quantity
        /\ lineReserved[o][k] = IF r.status = "released" THEN r.shipped ELSE r.quantity
        /\ IF r.status \in {"active", "released"} THEN r.shipped < r.quantity
           ELSE r.shipped = r.quantity
        /\ r.status = "none" => r.quantity = 0
    BY <1>1 DEF TypeOK, LineMatchesReservation
  <2>2. /\ t = IF Remaining(o, k) > 0 THEN [r EXCEPT !.status = "released"] ELSE r
        /\ lineReserved'[o][k] = lineReserved[o][k] - Remaining(o, k)
    BY <1>1, <1>2 DEF ReleaseReservations, TypeOK
  <2>3. Remaining(o, k)' = IF t.status = "active" THEN t.quantity - t.shipped ELSE 0
    BY DEF Remaining
  <2>4. Remaining(o, k) = IF r.status = "active" THEN r.quantity - r.shipped ELSE 0
    BY DEF Remaining
  <2>. HIDE DEF r, t
  <2>5. CASE r.status = "active"
    <3>1. /\ r.quantity \in Quantity /\ r.shipped \in Quantity
          /\ r.shipped < r.quantity /\ lineReserved[o][k] = r.quantity
      BY <2>1, <2>5 DEF Reservation
    <3>2. Remaining(o, k) = r.quantity - r.shipped /\ Remaining(o, k) > 0
      BY <2>4, <2>5, <3>1 DEF Quantity
    <3>3. t = [r EXCEPT !.status = "released"]
      BY <2>2, <3>2
    <3>4. /\ t \in Reservation /\ t.status = "released"
          /\ t.quantity = r.quantity /\ t.shipped = r.shipped
      BY <2>1, <3>3 DEF Reservation
    <3>5. lineReserved'[o][k] = r.shipped
      BY <2>2, <3>1, <3>2 DEF Quantity
    <3>6. Remaining(o, k)' = 0
      BY <2>3, <3>4
    <3>. QED
      BY <2>2, <3>1, <3>4, <3>5, <3>6 DEF r, t
  <2>6. CASE r.status # "active"
    <3>1. Remaining(o, k) = 0
      BY <2>4, <2>6
    <3>2. t = r /\ lineReserved'[o][k] = lineReserved[o][k]
      BY <2>1, <2>2, <3>1 DEF Quantity
    <3>3. Remaining(o, k)' = 0
      BY <2>3, <2>6, <3>2
    <3>. QED
      BY <2>1, <2>2, <3>2, <3>3, Zenon DEF r, t
  <2>. QED
    BY <2>5, <2>6
<1>5. ASSUME NEW p \in Order, p # o
      PROVE  /\ resv'[p] = resv[p] /\ lineReserved'[p] = lineReserved[p]
             /\ picked'[p] = picked[p] /\ inspected'[p] = inspected[p]
             /\ assignee'[p] = assignee[p] /\ orderStatus'[p] = orderStatus[p]
             /\ \A k \in SKU : Remaining(p, k)' = Remaining(p, k)
  BY <1>1, <1>2, <1>5 DEF ReleaseReservations, DropWork, TypeOK, Remaining
<1>. QED
  BY <1>4, <1>5

(* An order that gives all back leaves the balance what others hold. *)
LEMMA CancelKeepsIInv ==
  ASSUME IInv, NEW o \in Order, Cancel(o) \/ ApproveCancellation(o)
  PROVE  IInv'
<1>. USE FulfillmentAssumption
<1>1. /\ TypeOK /\ LineMatchesReservation /\ BalanceMatchesReservations
      /\ WorkWithinReservation /\ CountedShelvesAreWhole
      /\ PendingCancellationStopsWork /\ OnlyConfirmedOrdersHoldStock
  BY DEF IInv
<1>2. /\ ReleaseReservations(o)
      /\ UNCHANGED <<requested, stocked, onHand, counting, underway>>
      /\ orderStatus' = [orderStatus EXCEPT ![o] = "cancelled"]
      /\ pendingCancel' = pendingCancel \ {o}
  BY DEF Cancel, ApproveCancellation
<1>3. \A k \in SKU : Remaining(o, k) \in Quantity
  BY <1>1, RemainingFacts
(* A line gives back all it holds. *)
<1>4. ASSUME NEW k \in SKU
      PROVE  /\ resv'[o][k] \in Reservation
             /\ resv'[o][k] = IF Remaining(o, k) > 0
                              THEN [resv[o][k] EXCEPT !.status = "released"]
                              ELSE resv[o][k]
             /\ lineReserved'[o][k] = lineReserved[o][k] - Remaining(o, k)
             /\ lineReserved'[o][k] \in Quantity
             /\ lineReserved'[o][k] = IF resv'[o][k].status = "released"
                                      THEN resv'[o][k].shipped
                                      ELSE resv'[o][k].quantity
             /\ resv'[o][k].quantity = resv[o][k].quantity
             /\ IF resv'[o][k].status \in {"active", "released"}
                THEN resv'[o][k].shipped < resv'[o][k].quantity
                ELSE resv'[o][k].shipped = resv'[o][k].quantity
             /\ resv'[o][k].status = "none" => resv'[o][k].quantity = 0
             /\ Remaining(o, k)' = 0
  BY CancelEffect
<1>5. ASSUME NEW p \in Order, p # o
      PROVE  /\ resv'[p] = resv[p] /\ lineReserved'[p] = lineReserved[p]
             /\ picked'[p] = picked[p] /\ inspected'[p] = inspected[p]
             /\ assignee'[p] = assignee[p] /\ orderStatus'[p] = orderStatus[p]
             /\ \A k \in SKU : Remaining(p, k)' = Remaining(p, k)
  BY <1>5, CancelEffect
<1>5a. ASSUME NEW p \in Order, NEW k \in SKU
       PROVE  /\ Remaining(p, k)' \in Quantity /\ Remaining(p, k) \in Quantity
              /\ p = o => Remaining(p, k)' = 0
              /\ p # o => Remaining(p, k)' = Remaining(p, k)
  <2>1. Remaining(p, k) \in Quantity
    BY <1>1, RemainingFacts
  <2>2. CASE p = o
    <3>1. Remaining(p, k)' = 0
      BY <1>4, <2>2 DEF Remaining
    <3>. QED
      BY <2>1, <2>2, <3>1 DEF Quantity
  <2>3. CASE p # o
    BY <1>5, <2>1, <2>3
  <2>. QED
    BY <2>2, <2>3
<1>6. /\ picked'[o] = NoUnits /\ inspected'[o] = NoUnits
      /\ assignee'[o] = NoWorker /\ orderStatus'[o] = "cancelled"
      /\ NoUnits \in [SKU -> Quantity]
  BY <1>1, <1>2 DEF ReleaseReservations, DropWork, TypeOK, NoUnits, Quantity
<1>7. ASSUME NEW k \in SKU
      PROVE  /\ reserved'[k] = reserved[k] - Remaining(o, k)
             /\ reserved'[k] \in Nat
  <2>1. reserved[k] \in Nat
    BY <1>1 DEF TypeOK
  <2>2. /\ Remaining(o, k) > 0 => Remaining(o, k) <= reserved[k]
        /\ reserved'[k] = reserved[k] - Remaining(o, k)
    BY <1>2 DEF ReleaseReservations
  <2>. QED
    BY <1>3, <2>1, <2>2 DEF Quantity
<1>8. TypeOK'
  <2>1. resv' \in [Order -> [SKU -> Reservation]]
    <3>1. [k \in SKU |-> IF Remaining(o, k) > 0
                         THEN [resv[o][k] EXCEPT !.status = "released"]
                         ELSE resv[o][k]] \in [SKU -> Reservation]
      BY <1>4
    <3>. QED
      BY <1>1, <1>2, <3>1 DEF TypeOK, ReleaseReservations
  <2>2. lineReserved' \in [Order -> [SKU -> Quantity]]
    <3>1. [k \in SKU |-> lineReserved[o][k] - Remaining(o, k)] \in [SKU -> Quantity]
      BY <1>4
    <3>. QED
      BY <1>1, <1>2, <3>1 DEF TypeOK, ReleaseReservations
  <2>3. picked' \in [Order -> [SKU -> Quantity]]
    BY <1>1, <1>2, <1>6 DEF TypeOK, ReleaseReservations, DropWork
  <2>4. inspected' \in [Order -> [SKU -> Quantity]]
    BY <1>1, <1>2, <1>6 DEF TypeOK, ReleaseReservations, DropWork
  <2>5. assignee' \in [Order -> Worker \cup {NoWorker}]
    BY <1>1, <1>2 DEF TypeOK, ReleaseReservations, DropWork
  <2>6. reserved' \in [SKU -> Nat]
    BY <1>2, <1>7 DEF ReleaseReservations
  <2>7. /\ orderStatus' \in [Order -> {"none", "submitted", "confirmed", "cancelled"}]
        /\ pendingCancel' \in SUBSET Order
    BY <1>1, <1>2 DEF TypeOK
  <2>. QED
    BY <1>1, <1>2, <2>1, <2>2, <2>3, <2>4, <2>5, <2>6, <2>7 DEF TypeOK, underway
<1>9. LineMatchesReservation'
  <2>. SUFFICES ASSUME NEW p \in Order, NEW k \in SKU
               PROVE  LET r == resv'[p][k] IN
                      /\ lineReserved'[p][k] = IF r.status = "released"
                                               THEN r.shipped ELSE r.quantity
                      /\ r.quantity <= requested'[p][k]
                      /\ IF r.status \in {"active", "released"}
                         THEN r.shipped < r.quantity
                         ELSE r.shipped = r.quantity
                      /\ r.status = "none" => r.quantity = 0
    BY DEF LineMatchesReservation
  <2>1. CASE p = o
    BY <1>1, <1>2, <1>4, <2>1 DEF LineMatchesReservation
  <2>2. CASE p # o
    BY <1>1, <1>2, <1>5, <2>2 DEF LineMatchesReservation
  <2>. QED
    BY <2>1, <2>2
<1>10. BalanceMatchesReservations'
  <2>. SUFFICES ASSUME NEW k \in SKU
               PROVE  reserved'[k] = Total(Held(k)') /\ reserved'[k] <= onHand'[k]
    BY DEF BalanceMatchesReservations
  <2>1. Held(k) \in [Order -> Quantity]
    BY <1>1, RemainingFacts
  <2>2. Held(k)' \in [Order -> Quantity]
    <3>1. ASSUME NEW p \in Order PROVE Remaining(p, k)' \in Quantity
      BY <1>5a
    <3>. QED
      BY <3>1 DEF Held
  <2>3. /\ Held(k)[o] = Held(k)'[o] + Remaining(o, k)
        /\ \A p \in Order : p # o => Held(k)[p] = Held(k)'[p]
    <3>1. \A p \in Order : Held(k)[p] = Remaining(p, k) /\ Held(k)'[p] = Remaining(p, k)'
      BY DEF Held
    <3>2. Held(k)'[o] = 0 /\ Held(k)[o] = Remaining(o, k)
      BY <1>5a, <3>1
    <3>3. \A p \in Order : p # o => Held(k)[p] = Held(k)'[p]
      BY <1>5a, <3>1
    <3>. QED
      BY <1>3, <3>2, <3>3 DEF Quantity
  <2>4. Total(Held(k)) = Total(Held(k)') + Remaining(o, k)
    BY <1>3, <2>1, <2>2, <2>3, TotalGrows
  <2>5. Total(Held(k)') \in Nat
    BY <2>2, UnitsFinite
  <2>6. /\ reserved[k] = Total(Held(k)) /\ reserved[k] <= onHand[k]
        /\ reserved[k] \in Nat /\ onHand[k] \in Nat /\ onHand' = onHand
    BY <1>1, <1>2 DEF BalanceMatchesReservations, TypeOK
  <2>7. reserved'[k] = Total(Held(k)')
    BY <1>3, <1>7, <2>4, <2>5, <2>6 DEF Quantity
  <2>8. reserved'[k] <= onHand'[k]
    BY <1>3, <1>7, <2>6 DEF Quantity
  <2>. QED
    BY <2>7, <2>8
<1>11. WorkWithinReservation'
  <2>. SUFFICES ASSUME NEW p \in Order, NEW k \in SKU
               PROVE  /\ inspected'[p][k] <= picked'[p][k]
                      /\ picked'[p][k] <= Remaining(p, k)'
    BY DEF WorkWithinReservation
  <2>1. CASE p = o
    BY <1>6, <1>5a, <2>1 DEF NoUnits
  <2>2. CASE p # o
    BY <1>1, <1>5, <2>2 DEF WorkWithinReservation
  <2>. QED
    BY <2>1, <2>2
<1>12. CountedShelvesAreWhole'
  <2>. SUFFICES ASSUME NEW k \in SKU, counting'[k], NEW p \in Order
               PROVE  picked'[p][k] = 0 /\ inspected'[p][k] = 0
    BY DEF CountedShelvesAreWhole
  <2>. QED
    BY <1>1, <1>2, <1>5, <1>6 DEF CountedShelvesAreWhole, NoUnits
<1>13. PendingCancellationStopsWork'
  BY <1>1, <1>2, <1>5 DEF PendingCancellationStopsWork, TypeOK
<1>14. OnlyConfirmedOrdersHoldStock'
  <2>. SUFFICES ASSUME NEW p \in Order, orderStatus'[p] # "confirmed"
               PROVE  /\ assignee'[p] = NoWorker
                      /\ ~HasRemaining(p)'
                      /\ orderStatus'[p] # "cancelled"
                           => resv'[p] = [k \in SKU |-> NoResv]
    BY DEF OnlyConfirmedOrdersHoldStock
  <2>1. CASE p = o
    <3>1. \A k \in SKU : Remaining(p, k)' = 0
      BY <1>5a, <2>1
    <3>. QED
      BY <1>6, <2>1, <3>1 DEF HasRemaining
  <2>2. CASE p # o
    BY <1>1, <1>5, <2>2 DEF OnlyConfirmedOrdersHoldStock, HasRemaining
  <2>. QED
    BY <2>1, <2>2
<1>. QED
  BY <1>8, <1>9, <1>10, <1>11, <1>12, <1>13, <1>14 DEF IInv

(***************************************************************************)
(* The loop of finalize: what it takes, and from whom.                     *)
(***************************************************************************)

(* The loop visits the orders one by one, so what holds after each of them *)
(* holds at the end: a set of orders has a smallest one.                   *)
LEMMA LeastOrder ==
  ASSUME NEW T \in SUBSET (0..NumOrders), T # {}
  PROVE  \E x \in T : \A y \in T : x <= y
<1>1. IsWellFoundedOn(OpToRel(<, Nat), Nat)
  BY NatLessThanWellFounded
<1>2. T \subseteq Nat
  OBVIOUS
<1>3. PICK x \in T : \A y \in T : ~(<<y, x>> \in OpToRel(<, Nat))
  BY <1>1, <1>2, WFMin
<1>4. \A y \in T : ~(y < x)
  BY <1>2, <1>3 DEF OpToRel
<1>. QED
  BY <1>2, <1>4

(* What is short never grows while the loop goes on.                       *)
LEMMA ShortageFalls ==
  ASSUME NEW held \in [Order -> Quantity], NEW left \in [0..NumOrders -> Nat],
         \A o \in Order : left[o - 1] = left[o] - Smaller(left[o], held[o]),
         NEW m \in 0..NumOrders, NEW n \in 0..NumOrders, m <= n
  PROVE  left[m] <= left[n]
<1>. DEFINE T == {x \in 0..NumOrders : m <= x /\ left[x] < left[m]}
<1>1. SUFFICES ASSUME T # {} PROVE FALSE
  OBVIOUS
<1>2. PICK x \in T : \A y \in T : x <= y
  BY <1>1, LeastOrder
<1>3. x - 1 \in 0..NumOrders /\ x \in Order /\ m <= x - 1 /\ x - 1 \notin T
  BY <1>2, FulfillmentAssumption DEF Order
<1>4. left[m] <= left[x - 1]
  BY <1>3
<1>5. held[x] \in Nat
  BY <1>3, FulfillmentAssumption DEF Quantity
<1>6. left[x - 1] <= left[x]
  BY <1>3, <1>5 DEF Smaller
<1>7. left[m] \in Nat /\ left[x] \in Nat /\ left[x - 1] \in Nat /\ left[x] < left[m]
  BY <1>2, <1>3
<1>. HIDE DEF T
<1>. QED
  BY <1>4, <1>6, <1>7

(* Nothing sums to nothing. *)
LEMMA TotalNothing == Total([o \in Order |-> 0]) = 0
<1>1. Units([o \in Order |-> 0]) = {}
  BY FulfillmentAssumption DEF Units
<1>. QED
  BY <1>1, FS_EmptySet DEF Total

(* What the orders up to n give. *)
UpTo(cut, n) == [o \in Order |-> IF o <= n THEN cut[o] ELSE 0]

(* The orders the loop has not seen yet give what is still short. *)
LEMMA ShortageIsTaken ==
  ASSUME NEW held \in [Order -> Quantity], NEW left \in [0..NumOrders -> Nat],
         NEW cut \in [Order -> Quantity],
         \A o \in Order : cut[o] = Smaller(left[o], held[o]) /\ left[o - 1] = left[o] - cut[o],
         left[0] = 0
  PROVE  Total(cut) = left[NumOrders]
<1>. DEFINE T == {x \in 0..NumOrders : Total(UpTo(cut, x)) # left[x]}
<1>. USE FulfillmentAssumption
<1>1. \A n \in 0..NumOrders : UpTo(cut, n) \in [Order -> Quantity]
  BY DEF UpTo, Quantity
<1>2. Total(UpTo(cut, 0)) = 0
  <2>1. UpTo(cut, 0) = [o \in Order |-> 0]
    BY DEF Order, UpTo
  <2>. QED
    BY <2>1, TotalNothing
<1>3. ASSUME T # {} PROVE FALSE
  <2>1. PICK x \in T : \A y \in T : x <= y
    BY <1>3, LeastOrder
  <2>2. x \in 0..NumOrders /\ Total(UpTo(cut, x)) # left[x]
    BY <2>1
  <2>3. x # 0
    BY <1>2, <2>2
  <2>4. x - 1 \in 0..NumOrders /\ x \in Order
    BY <2>2, <2>3 DEF Order
  <2>5. x - 1 \notin T
    BY <2>1, <2>2
  <2>6. Total(UpTo(cut, x - 1)) = left[x - 1]
    BY <2>4, <2>5
  <2>7. /\ UpTo(cut, x)[x] = UpTo(cut, x - 1)[x] + cut[x]
        /\ \A p \in Order : p # x => UpTo(cut, x)[p] = UpTo(cut, x - 1)[p]
    BY <2>4 DEF Order, Quantity, UpTo
  <2>8. Total(UpTo(cut, x)) = Total(UpTo(cut, x - 1)) + cut[x]
    <3>1. PICK f \in [Order -> Quantity] : f = UpTo(cut, x)
      BY <1>1, <2>2
    <3>2. PICK g \in [Order -> Quantity] : g = UpTo(cut, x - 1)
      BY <1>1, <2>4
    <3>3. cut[x] \in Quantity
      BY <2>4
    <3>4. f[x] = g[x] + cut[x] /\ \A p \in Order : p # x => f[p] = g[p]
      BY <2>7, <3>1, <3>2
    <3>5. Total(f) = Total(g) + cut[x]
      BY <2>4, <3>3, <3>4, TotalGrows
    <3>. QED
      BY <3>1, <3>2, <3>5
  <2>9. left[x] \in Nat /\ cut[x] \in Nat /\ left[x - 1] = left[x] - cut[x]
    BY <2>4 DEF Quantity
  <2>10. Total(UpTo(cut, x)) = left[x]
    BY <2>6, <2>8, <2>9
  <2>. QED
    BY <2>2, <2>10
<1>4. UpTo(cut, NumOrders) = cut
  BY DEF Order, UpTo
<1>5. Total(UpTo(cut, NumOrders)) = left[NumOrders]
  <2>1. NumOrders \in 0..NumOrders /\ NumOrders \notin T
    BY <1>3
  <2>. QED
    BY <2>1
<1>. QED
  BY <1>4, <1>5

(* The loop takes the shortage, from each order at most what it holds, and *)
(* nothing from an order while a newer one has units left.                 *)
LEMMA LoopTakesShortage ==
  ASSUME NEW held \in [Order -> Quantity], NEW shortage \in Nat,
         NEW cut \in [Order -> Quantity], NewestFirst(held, shortage, cut)
  PROVE  /\ \A o \in Order : cut[o] <= held[o]
         /\ Total(cut) = shortage
         /\ \A older, newer \in Order :
              older < newer /\ cut[older] > 0 => cut[newer] = held[newer]
<1>. USE FulfillmentAssumption
<1>1. PICK left \in [0..NumOrders -> 0..shortage] :
        /\ left[NumOrders] = shortage
        /\ \A o \in Order : /\ cut[o] = Smaller(left[o], held[o])
                            /\ left[o - 1] = left[o] - cut[o]
        /\ left[0] = 0
  BY DEF NewestFirst
<1>2. left \in [0..NumOrders -> Nat]
  OBVIOUS
<1>3. \A o \in Order : /\ held[o] \in Nat /\ left[o] \in Nat
                       /\ left[o - 1] = left[o] - Smaller(left[o], held[o])
  BY <1>1, <1>2 DEF Quantity, Order
<1>4. \A o \in Order : cut[o] <= held[o]
  BY <1>1, <1>3 DEF Smaller
<1>5. Total(cut) = shortage
  BY <1>1, <1>2, ShortageIsTaken
<1>6. ASSUME NEW older \in Order, NEW newer \in Order, older < newer, cut[older] > 0
      PROVE  cut[newer] = held[newer]
  <2>1. older \in 0..NumOrders /\ newer - 1 \in 0..NumOrders /\ older <= newer - 1
    BY <1>6 DEF Order
  <2>2. left[older] <= left[newer - 1]
    BY <1>2, <1>3, <2>1, ShortageFalls
  <2>3. left[older] > 0
    BY <1>1, <1>3, <1>6 DEF Smaller
  <2>4. left[newer - 1] \in Nat /\ left[newer - 1] > 0
    BY <1>2, <2>1, <2>2, <2>3
  <2>. QED
    BY <1>1, <1>3, <2>4 DEF Smaller
<1>. QED
  BY <1>4, <1>5, <1>6

(***************************************************************************)
(* The end of a stock count.                                               *)
(***************************************************************************)

(* The writes of finalize for one choice of the units taken back. *)
CountShortens(k, counted, cut) ==
  /\ NewestFirst(Held(k), Excess(reserved[k], counted), cut)
  /\ resv' = [o \in Order |->
       [resv[o] EXCEPT ![k] = Shortened(resv[o][k], cut[o])]]
  /\ lineReserved' = [o \in Order |->
       [lineReserved[o] EXCEPT ![k] = lineReserved[o][k] - cut[o]]]
  /\ reserved' = [reserved EXCEPT ![k] = reserved[k] - Total(cut)]
  /\ onHand' = [onHand EXCEPT ![k] = counted]

(* What the end of a count does to the line of each order. *)
LEMMA FinalizeEffect ==
  ASSUME IInv, NEW k \in SKU, NEW counted \in 0..MaxStock,
         NEW cut \in [Order -> Quantity], CountShortens(k, counted, cut)
  PROVE  /\ \A o \in Order :
              /\ resv'[o][k] \in Reservation
              /\ resv'[o][k] = Shortened(resv[o][k], cut[o])
              /\ lineReserved'[o][k] = lineReserved[o][k] - cut[o]
              /\ lineReserved'[o][k] \in Quantity
              /\ lineReserved'[o][k] = IF resv'[o][k].status = "released"
                                       THEN resv'[o][k].shipped
                                       ELSE resv'[o][k].quantity
              /\ resv'[o][k].quantity <= requested[o][k]
              /\ IF resv'[o][k].status \in {"active", "released"}
                 THEN resv'[o][k].shipped < resv'[o][k].quantity
                 ELSE resv'[o][k].shipped = resv'[o][k].quantity
              /\ resv'[o][k].status = "none" => resv'[o][k].quantity = 0
              /\ Remaining(o, k) = Remaining(o, k)' + cut[o]
              /\ Remaining(o, k)' \in Quantity
         /\ \A o \in Order, j \in SKU \ {k} :
              /\ resv'[o][j] = resv[o][j] /\ lineReserved'[o][j] = lineReserved[o][j]
              /\ Remaining(o, j)' = Remaining(o, j)
              /\ reserved'[j] = reserved[j] /\ onHand'[j] = onHand[j]
<1>. USE FulfillmentAssumption
<1>1. /\ TypeOK /\ LineMatchesReservation /\ BalanceMatchesReservations
      /\ WorkWithinReservation /\ CountedShelvesAreWhole
      /\ PendingCancellationStopsWork /\ OnlyConfirmedOrdersHoldStock
  BY DEF IInv
<1>2. /\ resv' = [o \in Order |->
             [resv[o] EXCEPT ![k] = Shortened(resv[o][k], cut[o])]]
      /\ lineReserved' = [o \in Order |->
             [lineReserved[o] EXCEPT ![k] = lineReserved[o][k] - cut[o]]]
      /\ reserved' = [reserved EXCEPT ![k] = reserved[k] - Total(cut)]
  BY DEF CountShortens
<1>3. onHand' = [onHand EXCEPT ![k] = counted]
  BY DEF CountShortens
<1>4. /\ \A o \in Order : cut[o] <= Remaining(o, k)
      /\ Total(cut) = Excess(reserved[k], counted)
  <2>1. Held(k) \in [Order -> Quantity] /\ Excess(reserved[k], counted) \in Nat
    BY <1>1, RemainingFacts DEF TypeOK, Excess
  <2>2. NewestFirst(Held(k), Excess(reserved[k], counted), cut)
    BY DEF CountShortens
  <2>. QED
    BY <2>1, <2>2, LoopTakesShortage DEF Held
<1>5. \A o \in Order, j \in SKU : Remaining(o, j) \in Quantity
  BY <1>1, RemainingFacts
(* The line of each order at the SKU counted. *)
<1>6. ASSUME NEW o \in Order
      PROVE  /\ resv'[o][k] \in Reservation
             /\ resv'[o][k] = Shortened(resv[o][k], cut[o])
             /\ lineReserved'[o][k] = lineReserved[o][k] - cut[o]
             /\ lineReserved'[o][k] \in Quantity
             /\ lineReserved'[o][k] = IF resv'[o][k].status = "released"
                                      THEN resv'[o][k].shipped
                                      ELSE resv'[o][k].quantity
             /\ resv'[o][k].quantity <= requested[o][k]
             /\ IF resv'[o][k].status \in {"active", "released"}
                THEN resv'[o][k].shipped < resv'[o][k].quantity
                ELSE resv'[o][k].shipped = resv'[o][k].quantity
             /\ resv'[o][k].status = "none" => resv'[o][k].quantity = 0
             /\ Remaining(o, k) = Remaining(o, k)' + cut[o]
             /\ Remaining(o, k)' \in Quantity
  <2>. DEFINE r == resv[o][k]
              t == resv'[o][k]
              c == cut[o]
  <2>1. /\ r \in Reservation /\ lineReserved[o][k] \in Quantity
        /\ lineReserved[o][k] = IF r.status = "released" THEN r.shipped ELSE r.quantity
        /\ r.quantity <= requested[o][k] /\ requested[o][k] \in Quantity
        /\ IF r.status \in {"active", "released"} THEN r.shipped < r.quantity
           ELSE r.shipped = r.quantity
        /\ r.status = "none" => r.quantity = 0
    BY <1>1 DEF TypeOK, LineMatchesReservation
  <2>2. /\ t = Shortened(r, c)
        /\ lineReserved'[o][k] = lineReserved[o][k] - c
    BY <1>1, <1>2 DEF TypeOK
  <2>3. Remaining(o, k)' = IF t.status = "active" THEN t.quantity - t.shipped ELSE 0
    BY DEF Remaining
  <2>4. Remaining(o, k) = IF r.status = "active" THEN r.quantity - r.shipped ELSE 0
    BY DEF Remaining
  <2>5. c \in Quantity /\ c <= Remaining(o, k) /\ Remaining(o, k) \in Quantity
    BY <1>4, <1>5
  <2>. HIDE DEF r, t, c
  <2>6. CASE c = 0
    <3>1. t = r
      BY <2>2, <2>6 DEF Shortened
    <3>2. lineReserved'[o][k] = lineReserved[o][k]
      BY <2>1, <2>2, <2>6 DEF Quantity
    <3>3. Remaining(o, k)' = Remaining(o, k)
      BY <2>3, <2>4, <3>1
    <3>4. Remaining(o, k) = Remaining(o, k)' + c
      BY <2>5, <2>6, <3>3 DEF Quantity
    <3>. QED
      BY <2>1, <2>2, <2>5, <3>1, <3>2, <3>3, <3>4, Zenon DEF r, t, c
  <2>7. CASE c # 0
    <3>1. /\ r.status = "active" /\ r.quantity \in Quantity /\ r.shipped \in Quantity
          /\ r.shipped < r.quantity /\ lineReserved[o][k] = r.quantity
          /\ c > 0 /\ c <= r.quantity - r.shipped
          /\ Remaining(o, k) = r.quantity - r.shipped
      BY <2>1, <2>4, <2>5, <2>7 DEF Reservation, Quantity
    <3>2. CASE c = r.quantity - r.shipped
      <4>1. t = [r EXCEPT !.status = "released"]
        BY <2>2, <2>7, <3>2 DEF Shortened
      <4>2. /\ t \in Reservation /\ t.status = "released"
            /\ t.quantity = r.quantity /\ t.shipped = r.shipped
        BY <2>1, <4>1 DEF Reservation
      <4>3. lineReserved'[o][k] = r.shipped
        BY <2>2, <3>1, <3>2 DEF Quantity
      <4>4. Remaining(o, k)' = 0
        BY <2>3, <4>2
      <4>5. Remaining(o, k) = Remaining(o, k)' + c /\ Remaining(o, k)' \in Quantity
        BY <3>1, <3>2, <4>4 DEF Quantity
      <4>. QED
        BY <2>1, <2>2, <3>1, <4>2, <4>3, <4>5 DEF r, t, c
    <3>3. CASE c # r.quantity - r.shipped
      <4>1. t = [r EXCEPT !.quantity = r.quantity - c]
        BY <2>2, <2>7, <3>3 DEF Shortened
      <4>2. r.quantity - c \in Quantity /\ r.shipped < r.quantity - c
        BY <2>5, <3>1, <3>3 DEF Quantity
      <4>3. /\ t \in Reservation /\ t.status = "active"
            /\ t.quantity = r.quantity - c /\ t.shipped = r.shipped
        BY <2>1, <3>1, <4>1, <4>2 DEF Reservation
      <4>4. lineReserved'[o][k] = t.quantity
        BY <2>2, <3>1, <4>3
      <4>5. Remaining(o, k)' = r.quantity - c - r.shipped
        BY <2>3, <4>3
      <4>6. Remaining(o, k) = Remaining(o, k)' + c /\ Remaining(o, k)' \in Quantity
        BY <2>5, <3>1, <4>2, <4>5 DEF Quantity
      <4>7. t.quantity <= requested[o][k] /\ t.shipped < t.quantity
        BY <2>1, <2>5, <3>1, <4>2, <4>3 DEF Quantity
      <4>8. lineReserved'[o][k] \in Quantity
        BY <4>2, <4>3, <4>4
      <4>. QED
        BY <2>2, <4>3, <4>4, <4>6, <4>7, <4>8 DEF r, t, c
    <3>. QED
      BY <3>2, <3>3
  <2>. QED
    BY <2>6, <2>7
(* Other SKUs keep their reservations. *)
<1>7. ASSUME NEW o \in Order, NEW j \in SKU, j # k
      PROVE  /\ resv'[o][j] = resv[o][j] /\ lineReserved'[o][j] = lineReserved[o][j]
             /\ Remaining(o, j)' = Remaining(o, j)
             /\ reserved'[j] = reserved[j] /\ onHand'[j] = onHand[j]
  BY <1>1, <1>2, <1>3, <1>7 DEF TypeOK, Remaining
<1>. QED
  BY <1>6, <1>7

(* A count that falls short takes the shortage from the reservations. *)
LEMMA FinalizeKeepsIInv ==
  ASSUME IInv, NEW k \in SKU, NEW counted \in 0..MaxStock,
         FinalizeCount(k, counted)
  PROVE  IInv'
<1>. USE FulfillmentAssumption
<1>1. /\ TypeOK /\ LineMatchesReservation /\ BalanceMatchesReservations
      /\ WorkWithinReservation /\ CountedShelvesAreWhole
      /\ PendingCancellationStopsWork /\ OnlyConfirmedOrdersHoldStock
  BY DEF IInv
<1>2. PICK cut \in [Order -> Quantity] :
        /\ NewestFirst(Held(k), Excess(reserved[k], counted), cut)
        /\ resv' = [o \in Order |->
             [resv[o] EXCEPT ![k] = Shortened(resv[o][k], cut[o])]]
        /\ lineReserved' = [o \in Order |->
             [lineReserved[o] EXCEPT ![k] = lineReserved[o][k] - cut[o]]]
        /\ reserved' = [reserved EXCEPT ![k] = reserved[k] - Total(cut)]
  BY DEF FinalizeCount
<1>3. /\ counting[k] /\ counting' = [counting EXCEPT ![k] = FALSE]
      /\ onHand' = [onHand EXCEPT ![k] = counted]
      /\ UNCHANGED <<orderVars, workVars, stocked, underway>>
  BY DEF FinalizeCount
<1>3a. CountShortens(k, counted, cut)
  BY <1>2, <1>3 DEF CountShortens
<1>4. /\ \A o \in Order : cut[o] <= Remaining(o, k)
      /\ Total(cut) = Excess(reserved[k], counted)
  <2>1. Held(k) \in [Order -> Quantity] /\ Excess(reserved[k], counted) \in Nat
    BY <1>1, RemainingFacts DEF TypeOK, Excess
  <2>. QED
    BY <1>2, <2>1, LoopTakesShortage DEF Held
<1>5. \A o \in Order, j \in SKU : Remaining(o, j) \in Quantity
  BY <1>1, RemainingFacts
(* The line of each order at the SKU counted. *)
<1>6. ASSUME NEW o \in Order
      PROVE  /\ resv'[o][k] \in Reservation
             /\ resv'[o][k] = Shortened(resv[o][k], cut[o])
             /\ lineReserved'[o][k] = lineReserved[o][k] - cut[o]
             /\ lineReserved'[o][k] \in Quantity
             /\ lineReserved'[o][k] = IF resv'[o][k].status = "released"
                                      THEN resv'[o][k].shipped
                                      ELSE resv'[o][k].quantity
             /\ resv'[o][k].quantity <= requested[o][k]
             /\ IF resv'[o][k].status \in {"active", "released"}
                THEN resv'[o][k].shipped < resv'[o][k].quantity
                ELSE resv'[o][k].shipped = resv'[o][k].quantity
             /\ resv'[o][k].status = "none" => resv'[o][k].quantity = 0
             /\ Remaining(o, k) = Remaining(o, k)' + cut[o]
             /\ Remaining(o, k)' \in Quantity
  BY <1>3a, FinalizeEffect
(* Other SKUs keep their reservations. *)
<1>7. ASSUME NEW o \in Order, NEW j \in SKU, j # k
      PROVE  /\ resv'[o][j] = resv[o][j] /\ lineReserved'[o][j] = lineReserved[o][j]
             /\ Remaining(o, j)' = Remaining(o, j)
             /\ reserved'[j] = reserved[j] /\ onHand'[j] = onHand[j]
  BY <1>3a, <1>7, FinalizeEffect
<1>8. ASSUME NEW o \in Order, NEW j \in SKU
      PROVE  /\ Remaining(o, j) \in Quantity /\ Remaining(o, j)' \in Quantity
             /\ Remaining(o, j)' <= Remaining(o, j)
  <2>1. CASE j = k
    <3>1. cut[o] \in Quantity /\ Remaining(o, k) \in Quantity
      BY <1>5
    <3>2. /\ Remaining(o, k) = Remaining(o, k)' + cut[o]
          /\ Remaining(o, k)' \in Quantity
      BY <1>6
    <3>3. Remaining(o, k)' <= Remaining(o, k)
      BY <3>1, <3>2 DEF Quantity
    <3>4. Remaining(o, j)' = Remaining(o, k)' /\ Remaining(o, j) = Remaining(o, k)
      BY <2>1 DEF Remaining
    <3>. QED
      BY <3>1, <3>2, <3>3, <3>4
  <2>2. CASE j # k
    BY <1>5, <1>7, <2>2 DEF Quantity
  <2>. QED
    BY <2>1, <2>2
(* What the balance and the orders hold goes down by the same quantity. *)
<1>9. /\ reserved'[k] = Total(Held(k)') /\ reserved'[k] <= counted
      /\ reserved'[k] \in Nat /\ onHand'[k] = counted
  <2>1. Held(k) \in [Order -> Quantity]
    BY <1>1, RemainingFacts
  <2>2. Held(k)' \in [Order -> Quantity]
    BY <1>8 DEF Held
  <2>3. \A o \in Order : Held(k)[o] = Held(k)'[o] + cut[o]
    BY <1>6 DEF Held
  <2>4. Total(Held(k)) = Total(Held(k)') + Total(cut)
    BY <2>1, <2>2, <2>3, TotalMinus
  <2>5. Total(Held(k)') \in Nat /\ Total(cut) \in Nat
    BY <2>2, UnitsFinite
  <2>6. reserved'[k] = reserved[k] - Total(cut) /\ onHand'[k] = counted
    BY <1>1, <1>2, <1>3 DEF TypeOK
  <2>7. reserved[k] = Total(Held(k)) /\ reserved[k] \in Nat
    BY <1>1 DEF BalanceMatchesReservations, TypeOK
  <2>8. reserved'[k] = Total(Held(k)')
    BY <2>4, <2>5, <2>6, <2>7
  <2>9. reserved[k] - Total(cut) <= counted
    BY <1>4, <2>7 DEF Excess
  <2>. QED
    BY <2>5, <2>6, <2>8, <2>9
<1>10. TypeOK'
  <2>1. resv' \in [Order -> [SKU -> Reservation]]
    <3>1. ASSUME NEW o \in Order
          PROVE  [resv[o] EXCEPT ![k] = Shortened(resv[o][k], cut[o])]
                   \in [SKU -> Reservation]
      BY <1>1, <1>6 DEF TypeOK
    <3>. QED
      BY <1>2, <3>1
  <2>2. lineReserved' \in [Order -> [SKU -> Quantity]]
    <3>1. ASSUME NEW o \in Order
          PROVE  [lineReserved[o] EXCEPT ![k] = lineReserved[o][k] - cut[o]]
                   \in [SKU -> Quantity]
      BY <1>1, <1>6 DEF TypeOK
    <3>. QED
      BY <1>2, <3>1
  <2>3. reserved' \in [SKU -> Nat]
    BY <1>1, <1>2, <1>9 DEF TypeOK
  <2>4. onHand' \in [SKU -> Nat] /\ counting' \in [SKU -> BOOLEAN]
    BY <1>1, <1>3 DEF TypeOK
  <2>. QED
    BY <1>1, <1>3, <2>1, <2>2, <2>3, <2>4 DEF TypeOK, underway, orderVars, workVars
<1>11. LineMatchesReservation'
  <2>. SUFFICES ASSUME NEW o \in Order, NEW j \in SKU
               PROVE  LET r == resv'[o][j] IN
                      /\ lineReserved'[o][j] = IF r.status = "released"
                                               THEN r.shipped ELSE r.quantity
                      /\ r.quantity <= requested'[o][j]
                      /\ IF r.status \in {"active", "released"}
                         THEN r.shipped < r.quantity
                         ELSE r.shipped = r.quantity
                      /\ r.status = "none" => r.quantity = 0
    BY DEF LineMatchesReservation
  <2>1. requested' = requested
    BY <1>3 DEF orderVars
  <2>2. CASE j = k
    BY <1>6, <2>1, <2>2
  <2>3. CASE j # k
    BY <1>1, <1>7, <2>1, <2>3 DEF LineMatchesReservation
  <2>. QED
    BY <2>2, <2>3
<1>12. BalanceMatchesReservations'
  <2>. SUFFICES ASSUME NEW j \in SKU
               PROVE  reserved'[j] = Total(Held(j)') /\ reserved'[j] <= onHand'[j]
    BY DEF BalanceMatchesReservations
  <2>1. CASE j = k
    <3>1. Held(j)' = Held(k)'
      BY <2>1 DEF Held, Remaining
    <3>2. reserved'[j] = Total(Held(k)')
      BY <1>9, <2>1
    <3>3. reserved'[j] <= onHand'[j]
      BY <1>9, <2>1
    <3>. QED
      BY <3>1, <3>2, <3>3
  <2>2. CASE j # k
    <3>1. Held(j)' = Held(j)
      BY <1>7, <2>2 DEF Held
    <3>. QED
      <4>1. reserved'[j] = reserved[j] /\ onHand'[j] = onHand[j]
        BY <1>1, <1>2, <1>3, <2>2 DEF TypeOK
      <4>2. reserved[j] = Total(Held(j)) /\ reserved[j] <= onHand[j]
        BY <1>1 DEF BalanceMatchesReservations
      <4>. QED
        BY <3>1, <4>1, <4>2
  <2>. QED
    BY <2>1, <2>2
<1>13. WorkWithinReservation'
  <2>. SUFFICES ASSUME NEW o \in Order, NEW j \in SKU
               PROVE  /\ inspected'[o][j] <= picked'[o][j]
                      /\ picked'[o][j] <= Remaining(o, j)'
    BY DEF WorkWithinReservation
  <2>1. picked' = picked /\ inspected' = inspected
    BY <1>3 DEF workVars
  <2>2. CASE j = k
    <3>1. picked[o][j] = 0 /\ inspected[o][j] = 0
      BY <1>1, <1>3, <2>2 DEF CountedShelvesAreWhole
    <3>. QED
      BY <1>8, <2>1, <3>1 DEF Quantity
  <2>3. CASE j # k
    BY <1>1, <1>7, <2>1, <2>3 DEF WorkWithinReservation
  <2>. QED
    BY <2>2, <2>3
<1>14. CountedShelvesAreWhole' /\ PendingCancellationStopsWork'
  BY <1>1, <1>3 DEF CountedShelvesAreWhole, PendingCancellationStopsWork,
                    orderVars, workVars, TypeOK
<1>15. OnlyConfirmedOrdersHoldStock'
  <2>. SUFFICES ASSUME NEW o \in Order, orderStatus'[o] # "confirmed"
               PROVE  /\ assignee'[o] = NoWorker
                      /\ ~HasRemaining(o)'
                      /\ orderStatus'[o] # "cancelled"
                           => resv'[o] = [j \in SKU |-> NoResv]
    BY DEF OnlyConfirmedOrdersHoldStock
  <2>1. /\ orderStatus[o] # "confirmed" /\ orderStatus' = orderStatus
        /\ assignee' = assignee
    BY <1>3 DEF orderVars, workVars
  <2>2. /\ assignee[o] = NoWorker
        /\ \A j \in SKU : ~(Remaining(o, j) > 0)
        /\ orderStatus[o] # "cancelled" => resv[o] = [j \in SKU |-> NoResv]
    BY <1>1, <2>1 DEF OnlyConfirmedOrdersHoldStock, HasRemaining
  <2>3. ~HasRemaining(o)'
    <3>1. \A j \in SKU : ~(Remaining(o, j)' > 0)
      BY <1>8, <2>2 DEF Quantity
    <3>. QED
      BY <3>1 DEF HasRemaining
  <2>4. cut[o] = 0
    BY <1>4, <1>5, <2>2 DEF Quantity
  <2>5. resv'[o] = resv[o]
    <3>1. resv'[o] = [resv[o] EXCEPT ![k] = resv[o][k]]
      BY <1>2, <2>4 DEF Shortened
    <3>. QED
      BY <1>1, <3>1 DEF TypeOK
  <2>. QED
    BY <2>1, <2>2, <2>3, <2>5
<1>. QED
  BY <1>10, <1>11, <1>12, <1>13, <1>14, <1>15 DEF IInv

(***************************************************************************)
(* The theorems.                                                           *)
(***************************************************************************)

(* Every command keeps the invariant. *)
LEMMA NextIInv == IInv /\ [Next]_vars => IInv'
<1>. SUFFICES ASSUME IInv, [Next]_vars PROVE IInv'
  OBVIOUS
<1>1. CASE \E o \in Order : OrderStep(o)
  <2>. PICK o \in Order : OrderStep(o)
    BY <1>1
  <2>1. CASE \E want \in [SKU -> Quantity] : Submit(o, want)
    BY <2>1, SubmitKeepsIInv
  <2>2. CASE Confirm(o) \/ Allocate(o)
    BY <2>2, ReserveKeepsIInv
  <2>3. CASE Cancel(o) \/ ApproveCancellation(o)
    BY <2>3, CancelKeepsIInv
  <2>4. CASE RequestCancellation(o) \/ RejectCancellation(o)
    BY <2>4, RequestKeepsIInv
  <2>. QED
    BY <2>1, <2>2, <2>3, <2>4 DEF OrderStep
<1>2. CASE \E w \in Worker, o \in Order : WorkStep(w, o)
  <2>. PICK w \in Worker, o \in Order : WorkStep(w, o)
    BY <1>2
  <2>1. CASE ClaimWork(w, o) \/ ReleaseWork(w, o)
    <3>1. [k \in SKU |-> 0] \in [SKU -> Quantity] /\ {} \in SUBSET SKU
      BY FulfillmentAssumption DEF Quantity
    <3>. QED
      BY <2>1, <3>1, WorkKeepsIInv
  <2>2. CASE \E ks \in SUBSET SKU, q \in [SKU -> Quantity] :
               Pick(w, o, ks, q) \/ Inspect(w, o, ks, q)
    BY <2>2, WorkKeepsIInv
  <2>3. CASE \E q \in [SKU -> Quantity] : Ship(w, o, q)
    BY <2>3, ShipKeepsIInv
  <2>. QED
    BY <2>1, <2>2, <2>3 DEF WorkStep
<1>3. CASE \E k \in SKU : StockStep(k)
  <2>. PICK k \in SKU : StockStep(k)
    BY <1>3
  <2>1. CASE \E counted \in 0..MaxStock : FinalizeCount(k, counted)
    BY <2>1, FinalizeKeepsIInv
  <2>2. CASE \/ StartCount(k) \/ CancelCount(k) \/ FindNoRow(k) \/ ReadImport(k)
             \/ \E n \in 0..MaxStock : Adjust(k, n) \/ ApplyImport(k, n)
    <3>1. [j \in SKU |-> 0] \in [SKU -> 0..MaxStock] /\ 0 \in 0..MaxStock
      BY FulfillmentAssumption
    <3>. QED
      BY <2>2, <3>1, StockKeepsIInv
  <2>. QED
    BY <2>1, <2>2 DEF StockStep
<1>4. CASE \E q \in [SKU -> 0..MaxStock] : Receive(q)
  <2>. PICK q \in [SKU -> 0..MaxStock] : Receive(q)
    BY <1>4
  <2>1. SKU # {} /\ 0 \in 0..MaxStock
    BY FulfillmentAssumption DEF Receive
  <2>. QED
    BY <2>1, StockKeepsIInv
<1>5. CASE UNCHANGED vars
  <2>. USE <1>5 DEF vars, orderVars, resvVars, workVars, stockVars, underway
  <2>1. TypeOK' /\ LineMatchesReservation' /\ CountedShelvesAreWhole'
    BY DEF IInv, TypeOK, LineMatchesReservation, CountedShelvesAreWhole
  <2>2. BalanceMatchesReservations' /\ WorkWithinReservation'
    BY DEF IInv, BalanceMatchesReservations, WorkWithinReservation, Held, Remaining
  <2>3. PendingCancellationStopsWork' /\ OnlyConfirmedOrdersHoldStock'
    BY DEF IInv, PendingCancellationStopsWork, OnlyConfirmedOrdersHoldStock,
           HasRemaining, Remaining
  <2>. QED
    BY <2>1, <2>2, <2>3 DEF IInv
<1>. QED
  BY <1>1, <1>2, <1>3, <1>4, <1>5 DEF Next

(* The invariant holds in every state the commands can reach. *)
THEOREM Invariance == Spec => []IInv
<1>. QED
  BY InitIInv, NextIInv, PTL DEF Spec

(* Quantities of a line never leave their bound, stock never goes below 0. *)
THEOREM TypeCorrect == Spec => []TypeOK
<1>1. IInv => TypeOK
  BY DEF IInv
<1>. QED
  BY <1>1, Invariance, PTL

(* However many orders share a SKU, its balance reserves exactly what their *)
(* active reservations hold, and the stock on hand covers it.               *)
THEOREM BalanceCorrect == Spec => []BalanceMatchesReservations
<1>1. IInv => BalanceMatchesReservations
  BY DEF IInv
<1>. QED
  BY <1>1, Invariance, PTL

(* Order lines and their reservations never disagree, however often the    *)
(* reservation was released, revived, shortened or partly shipped.         *)
THEOREM LineCorrect == Spec => []LineMatchesReservation
<1>1. IInv => LineMatchesReservation
  BY DEF IInv
<1>. QED
  BY <1>1, Invariance, PTL

(* Picked and inspected quantities stay within the reservation.            *)
THEOREM WorkCorrect == Spec => []WorkWithinReservation
<1>1. IInv => WorkWithinReservation
  BY DEF IInv
<1>. QED
  BY <1>1, Invariance, PTL

(* Nothing of a SKU is off the shelf while it is counted.                  *)
THEOREM CountedShelvesCorrect == Spec => []CountedShelvesAreWhole
<1>1. IInv => CountedShelvesAreWhole
  BY DEF IInv
<1>. QED
  BY <1>1, Invariance, PTL

(* An order whose cancellation is asked for is worked on by nobody.        *)
THEOREM CancellationCorrect == Spec => []PendingCancellationStopsWork
<1>1. IInv => PendingCancellationStopsWork
  BY DEF IInv
<1>. QED
  BY <1>1, Invariance, PTL

(* Stock is held, and shipped, only for confirmed orders.                  *)
THEOREM OrdersCorrect == Spec => []OnlyConfirmedOrdersHoldStock
<1>1. IInv => OnlyConfirmedOrdersHoldStock
  BY DEF IInv
<1>. QED
  BY <1>1, Invariance, PTL

=============================================================================
