----------------------- MODULE FulfillmentRefinement -----------------------
(***************************************************************************)
(* Proofs about the steps of Fulfillment: what a command may never do, and *)
(* that every command is a step of StockLedger or changes nothing there.   *)
(***************************************************************************)
EXTENDS FulfillmentProofs

(***************************************************************************)
(* The commands in four kinds: those that leave reservations alone, those  *)
(* that reserve, ship, release, and the end of a count.                    *)
(***************************************************************************)
LeavesReservations ==
  UNCHANGED <<resvVars, reserved>>

(* Commands by what they may do to a reservation. *)
LEMMA StepKinds ==
  ASSUME [Next]_vars
  PROVE  \/ LeavesReservations
         \/ \E o \in Order : Confirm(o) \/ Allocate(o)
         \/ \E w \in Worker, o \in Order, q \in [SKU -> Quantity] : Ship(w, o, q)
         \/ \E o \in Order : Cancel(o) \/ ApproveCancellation(o)
         \/ \E k \in SKU, counted \in 0..MaxStock : FinalizeCount(k, counted)
<1>. USE DEF LeavesReservations, resvVars, stockVars, workVars, orderVars
<1>1. CASE \E o \in Order : OrderStep(o)
  BY <1>1 DEF OrderStep, Submit, RequestCancellation, RejectCancellation
<1>2. CASE \E w \in Worker, o \in Order : WorkStep(w, o)
  BY <1>2 DEF WorkStep, ClaimWork, ReleaseWork, Pick, Inspect
<1>3. CASE \E k \in SKU : StockStep(k)
  BY <1>3 DEF StockStep, StartCount, CancelCount, Adjust, FindNoRow, ReadImport, ApplyImport
<1>4. CASE \E q \in [SKU -> 0..MaxStock] : Receive(q)
  BY <1>4 DEF Receive
<1>5. CASE UNCHANGED vars
  BY <1>5 DEF vars
<1>. QED
  BY <1>1, <1>2, <1>3, <1>4, <1>5 DEF Next

(***************************************************************************)
(* What has shipped is final.                                              *)
(***************************************************************************)

(* One command: shipped quantities change only by a shipment. *)
LEMMA ShippedStep ==
  ASSUME IInv, [Next]_vars, NEW o \in Order, NEW k \in SKU,
         resv'[o][k].shipped # resv[o][k].shipped
  PROVE  /\ resv'[o][k].shipped > resv[o][k].shipped
         /\ resv'[o][k].shipped - resv[o][k].shipped <= inspected[o][k]
         /\ orderStatus[o] = "confirmed"
         /\ o \notin pendingCancel
<1>1. /\ TypeOK /\ OnlyConfirmedOrdersHoldStock /\ LineMatchesReservation
      /\ resv[o][k] \in Reservation
  BY DEF IInv, TypeOK
<1>2. CASE LeavesReservations
  BY <1>2 DEF LeavesReservations, resvVars
<1>3. ASSUME NEW p \in Order, Confirm(p) \/ Allocate(p) PROVE FALSE
  <2>1. CASE p = o
    <3>1. resv'[o][k] = Granted(resv[o][k], Fill(o)[k])
      BY <1>3, <2>1, ReserveEffect
    <3>2. resv'[o][k].shipped = resv[o][k].shipped
      BY <1>1, <3>1 DEF Granted, Reservation
    <3>. QED
      BY <3>2
  <2>2. CASE p # o
    BY <1>3, <2>2, ReserveEffect
  <2>. QED
    BY <2>1, <2>2
<1>4. ASSUME NEW p \in Order, Cancel(p) \/ ApproveCancellation(p) PROVE FALSE
  <2>1. CASE p = o
    <3>1. \/ resv'[o][k] = [resv[o][k] EXCEPT !.status = "released"]
          \/ resv'[o][k] = resv[o][k]
      BY <1>4, <2>1, CancelEffect
    <3>2. resv'[o][k].shipped = resv[o][k].shipped
      BY <1>1, <3>1 DEF Reservation
    <3>. QED
      BY <3>2
  <2>2. CASE p # o
    BY <1>4, <2>2, CancelEffect
  <2>. QED
    BY <2>1, <2>2
<1>5. ASSUME NEW j \in SKU, NEW counted \in 0..MaxStock, FinalizeCount(j, counted)
      PROVE  FALSE
  <2>1. PICK cut \in [Order -> Quantity] : CountShortens(j, counted, cut)
    BY <1>5 DEF FinalizeCount, CountShortens
  <2>2. CASE j = k
    <3>1. resv'[o][k] = Shortened(resv[o][k], cut[o])
      BY <2>1, <2>2, FinalizeEffect
    <3>2. resv'[o][k].shipped = resv[o][k].shipped
      BY <1>1, <3>1 DEF Shortened, Reservation
    <3>. QED
      BY <3>2
  <2>3. CASE j # k
    BY <2>1, <2>3, FinalizeEffect
  <2>. QED
    BY <2>2, <2>3
<1>6. ASSUME NEW w \in Worker, NEW p \in Order, NEW q \in [SKU -> Quantity],
             Ship(w, p, q)
      PROVE  /\ resv'[o][k].shipped > resv[o][k].shipped
             /\ resv'[o][k].shipped - resv[o][k].shipped <= inspected[o][k]
             /\ orderStatus[o] = "confirmed"
             /\ o \notin pendingCancel
  <2>1. p = o
    BY <1>6, ShipEffect
  <2>2. resv'[o][k] = Dispatched(resv[o][k], q[k])
    BY <1>6, <2>1, ShipEffect
  <2>3. q[k] \in Nat /\ q[k] > 0
    BY <2>2, FulfillmentAssumption DEF Dispatched, Quantity
  <2>4. resv'[o][k].shipped = resv[o][k].shipped + q[k]
    BY <1>1, <2>2, <2>3 DEF Dispatched, Reservation
  <2>5. /\ q[k] <= inspected[o][k] /\ o \notin pendingCancel
        /\ q[k] <= Remaining(o, k)
    BY <1>6, <2>1, <2>3 DEF Ship
  <2>6. orderStatus[o] = "confirmed"
    <3>1. Remaining(o, k) \in Nat
      BY <1>1, RemainingFacts DEF Quantity
    <3>. QED
      BY <1>1, <2>3, <2>5, <3>1 DEF OnlyConfirmedOrdersHoldStock, HasRemaining
  <2>7. resv[o][k].shipped \in Nat
    BY <1>1, FulfillmentAssumption DEF Reservation, Quantity
  <2>. QED
    BY <2>3, <2>4, <2>5, <2>6, <2>7
<1>. QED
  BY <1>2, <1>3, <1>4, <1>5, <1>6, StepKinds

(* No command takes back what has shipped, and what ships was inspected for *)
(* a confirmed order without an open cancellation request.                  *)
THEOREM ShippedFinal == Spec => ShippedUnitsAreFinal
<1>1. IInv /\ [Next]_vars =>
        [\A o \in Order, k \in SKU :
           LET before == resv[o][k].shipped
               after == resv'[o][k].shipped IN
           after # before =>
             /\ after > before
             /\ after - before <= inspected[o][k]
             /\ orderStatus[o] = "confirmed"
             /\ o \notin pendingCancel]_vars
  BY ShippedStep
<1>. QED
  BY <1>1, Invariance, PTL DEF Spec, ShippedUnitsAreFinal

(***************************************************************************)
(* A count freezes the reservations of its SKU.                            *)
(***************************************************************************)

(* One command: reservations of a SKU under count stay as they are. *)
LEMMA CountStep ==
  ASSUME IInv, [Next]_vars, NEW k \in SKU, counting[k], counting'[k]
  PROVE  /\ reserved'[k] = reserved[k]
         /\ \A o \in Order : resv'[o][k] = resv[o][k]
<1>1. TypeOK /\ LineMatchesReservation /\ OnlyConfirmedOrdersHoldStock
  BY DEF IInv
<1>1a. \A o \in Order : /\ Remaining(o, k) \in Nat
                        /\ requested[o][k] \in Nat /\ lineReserved[o][k] \in Nat
                        /\ lineReserved[o][k] <= requested[o][k]
  <2>. SUFFICES ASSUME NEW o \in Order
               PROVE  /\ Remaining(o, k) \in Nat
                      /\ requested[o][k] \in Nat /\ lineReserved[o][k] \in Nat
                      /\ lineReserved[o][k] <= requested[o][k]
    OBVIOUS
  <2>1. /\ requested[o][k] \in Nat /\ lineReserved[o][k] \in Nat
        /\ resv[o][k] \in Reservation
    BY <1>1, FulfillmentAssumption DEF TypeOK, Quantity
  <2>2. lineReserved[o][k] <= requested[o][k]
    BY <1>1, <2>1, FulfillmentAssumption
       DEF LineMatchesReservation, Reservation, Quantity
  <2>3. Remaining(o, k) \in Nat
    BY <1>1, RemainingFacts, FulfillmentAssumption DEF Quantity
  <2>. QED
    BY <2>1, <2>2, <2>3
<1>2. CASE LeavesReservations
  BY <1>2 DEF LeavesReservations, resvVars
<1>3. ASSUME NEW o \in Order, Confirm(o) \/ Allocate(o)
      PROVE  /\ reserved'[k] = reserved[k]
             /\ \A p \in Order : resv'[p][k] = resv[p][k]
  <2>1. requested[o][k] = 0
    BY <1>1a, <1>3 DEF Confirm, Allocate, Lines
  <2>2. lineReserved[o][k] = 0
    BY <1>1a, <2>1
  <2>3. /\ Fill(o)[k] \in Nat /\ lineReserved[o][k] + Fill(o)[k] <= requested[o][k]
    BY FillFacts, FulfillmentAssumption DEF Quantity
  <2>4. Fill(o)[k] = 0
    BY <2>1, <2>2, <2>3
  <2>5. reserved'[k] = reserved[k]
    <3>1. reserved'[k] = reserved[k] + Fill(o)[k]
      BY <1>3 DEF Confirm, Allocate, Reserve
    <3>. QED
      BY <1>1, <2>4, <3>1 DEF TypeOK
  <2>6. resv'[o][k] = resv[o][k]
    BY <1>3, <2>4, ReserveEffect DEF Granted
  <2>7. ASSUME NEW p \in Order, p # o PROVE resv'[p][k] = resv[p][k]
    BY <1>3, <2>7, ReserveEffect
  <2>. QED
    BY <2>5, <2>6, <2>7
<1>4. ASSUME NEW w \in Worker, NEW o \in Order, NEW q \in [SKU -> Quantity],
             Ship(w, o, q)
      PROVE  /\ reserved'[k] = reserved[k]
             /\ \A p \in Order : resv'[p][k] = resv[p][k]
  <2>1. q[k] = 0
    BY <1>4, FulfillmentAssumption DEF Ship, Quantity
  <2>2. reserved'[k] = reserved[k]
    BY <1>1, <1>4, <2>1 DEF Ship, TypeOK
  <2>3. resv'[o][k] = resv[o][k]
    <3>1. resv'[o][k] = Dispatched(resv[o][k], q[k])
      BY <1>4, ShipEffect
    <3>. QED
      BY <2>1, <3>1 DEF Dispatched
  <2>4. ASSUME NEW p \in Order, p # o PROVE resv'[p][k] = resv[p][k]
    BY <1>4, <2>4, ShipEffect
  <2>. QED
    BY <2>2, <2>3, <2>4
<1>5. ASSUME NEW o \in Order, Cancel(o) \/ ApproveCancellation(o)
      PROVE  /\ reserved'[k] = reserved[k]
             /\ \A p \in Order : resv'[p][k] = resv[p][k]
  <2>1. ReleaseReservations(o)
    BY <1>5 DEF Cancel, ApproveCancellation
  <2>2. Remaining(o, k) = 0
    BY <1>1a, <2>1 DEF ReleaseReservations
  <2>3. reserved'[k] = reserved[k]
    BY <1>1, <2>1, <2>2 DEF ReleaseReservations, TypeOK
  <2>4. resv'[o][k] = resv[o][k]
    <3>1. ~(Remaining(o, k) > 0)
      BY <2>2
    <3>. QED
      BY <1>5, <3>1, CancelEffect
  <2>5. ASSUME NEW p \in Order, p # o PROVE resv'[p][k] = resv[p][k]
    BY <1>5, <2>5, CancelEffect
  <2>. QED
    BY <2>3, <2>4, <2>5
<1>6. ASSUME NEW j \in SKU, NEW counted \in 0..MaxStock, FinalizeCount(j, counted)
      PROVE  /\ reserved'[k] = reserved[k]
             /\ \A p \in Order : resv'[p][k] = resv[p][k]
  <2>1. j # k
    BY <1>1, <1>6 DEF FinalizeCount, TypeOK
  <2>2. PICK cut \in [Order -> Quantity] : CountShortens(j, counted, cut)
    BY <1>6 DEF FinalizeCount, CountShortens
  <2>3. reserved'[k] = reserved[k]
    BY <1>1, <2>1, <2>2 DEF CountShortens, TypeOK
  <2>4. \A p \in Order : resv'[p][k] = resv[p][k]
    BY <2>1, <2>2, FinalizeEffect
  <2>. QED
    BY <2>3, <2>4
<1>. QED
  BY <1>2, <1>3, <1>4, <1>5, <1>6, StepKinds

(* One command: the stock of a SKU under count changes by an import, or it *)
(* grows by a receipt or return that found no row.                         *)
LEMMA CountStockStep ==
  ASSUME IInv, [Next]_vars, NEW k \in SKU, counting[k], counting'[k], onHand'[k] # onHand[k]
  PROVE  \/ k \in importing /\ k \notin importing'
         \/ k \in unlocked /\ onHand'[k] > onHand[k]
<1>1. TypeOK
  BY DEF IInv
<1>2. ASSUME NEW o \in Order, OrderStep(o) PROVE FALSE
  BY <1>2 DEF OrderStep, Submit, Confirm, Allocate, Reserve, Cancel, RequestCancellation,
              ApproveCancellation, RejectCancellation, stockVars
<1>3. ASSUME NEW w \in Worker, NEW o \in Order, WorkStep(w, o) PROVE FALSE
  <2>1. ASSUME NEW q \in [SKU -> Quantity], Ship(w, o, q) PROVE FALSE
    <3>1. q[k] = 0
      BY <2>1, FulfillmentAssumption DEF Ship, Quantity
    <3>2. onHand'[k] = onHand[k] - q[k]
      BY <2>1 DEF Ship
    <3>. QED
      BY <1>1, <3>1, <3>2 DEF TypeOK
  <2>. QED
    BY <1>3, <2>1 DEF WorkStep, ClaimWork, ReleaseWork, Pick, Inspect, stockVars
<1>4. ASSUME NEW j \in SKU, NEW counted \in 0..MaxStock, FinalizeCount(j, counted) PROVE FALSE
  BY <1>1, <1>4 DEF FinalizeCount, TypeOK
<1>5. ASSUME NEW j \in SKU, NEW next \in 0..MaxStock, Adjust(j, next) PROVE FALSE
  BY <1>1, <1>5 DEF Adjust, TypeOK
<1>6. ASSUME NEW j \in SKU, NEW quantity \in 0..MaxStock, ApplyImport(j, quantity)
      PROVE  k \in importing /\ k \notin importing'
  BY <1>1, <1>6 DEF ApplyImport, TypeOK
<1>7. ASSUME NEW j \in SKU,
             StartCount(j) \/ CancelCount(j) \/ FindNoRow(j) \/ ReadImport(j)
      PROVE  FALSE
  BY <1>7 DEF StartCount, CancelCount, FindNoRow, ReadImport
<1>8. ASSUME NEW q \in [SKU -> 0..MaxStock], Receive(q)
      PROVE  k \in unlocked /\ onHand'[k] > onHand[k]
  <2>1. onHand'[k] = onHand[k] + q[k]
    BY <1>8 DEF Receive
  <2>2. onHand[k] \in Nat /\ q[k] \in Nat
    BY <1>1, FulfillmentAssumption DEF TypeOK
  <2>3. q[k] > 0
    BY <2>1, <2>2
  <2>4. k \in unlocked
    BY <1>8, <2>3 DEF Receive
  <2>. QED
    BY <2>1, <2>2, <2>3, <2>4
<1>9. CASE UNCHANGED vars
  BY <1>9 DEF vars, stockVars
<1>. QED
  BY <1>2, <1>3, <1>4, <1>5, <1>6, <1>7, <1>8, <1>9 DEF Next, StockStep

(* Between its start and its end a count sees the reservations of its SKU  *)
(* unchanged, so the shortage it computes at the end is the one it counted. *)
(* The stock it counts changes by an import that was analyzed before, or   *)
(* grows by a receipt or a return that found no row to lock; no other      *)
(* command of any order, worker or administrator touches it.               *)
THEOREM CountFreezes == Spec => CountFreezesReservations
<1>1. IInv /\ [Next]_vars =>
        [\A k \in SKU : counting[k] /\ counting'[k] =>
           /\ reserved'[k] = reserved[k]
           /\ \A o \in Order : resv'[o][k] = resv[o][k]
           /\ onHand'[k] # onHand[k] =>
                \/ k \in importing /\ k \notin importing'
                \/ k \in unlocked /\ onHand'[k] > onHand[k]]_vars
  BY CountStep, CountStockStep
<1>. QED
  BY <1>1, Invariance, PTL DEF Spec, CountFreezesReservations

(***************************************************************************)
(* Only the end of a count strands a worker.                               *)
(***************************************************************************)

(* One command: who is assigned to an order that holds nothing was so      *)
(* before, or a count has just ended.                                      *)
LEMMA StrandedStep ==
  ASSUME IInv, [Next]_vars, NEW o \in Order,
         assignee'[o] # NoWorker, ~HasRemaining(o)'
  PROVE  \/ assignee'[o] = assignee[o] /\ ~HasRemaining(o)
         \/ \E k \in SKU : counting[k] /\ ~counting'[k]
<1>1. TypeOK /\ \A k \in SKU : Remaining(o, k) \in Nat
  BY RemainingFacts, FulfillmentAssumption DEF IInv, Quantity
<1>2. \A k \in SKU : ~(Remaining(o, k)' > 0)
  BY DEF HasRemaining
<1>3. CASE assignee' = assignee /\ UNCHANGED resvVars
  BY <1>2, <1>3 DEF resvVars, HasRemaining, Remaining
<1>4. ASSUME NEW p \in Order, Confirm(p) \/ Allocate(p)
      PROVE  assignee'[o] = assignee[o] /\ ~HasRemaining(o)
  <2>1. assignee' = assignee
    BY <1>4 DEF Confirm, Allocate, workVars
  <2>2. ASSUME NEW k \in SKU PROVE Remaining(o, k)' \in Nat /\ Remaining(o, k)' >= Remaining(o, k)
    <3>1. CASE p = o
      <4>1. Remaining(o, k)' = Remaining(o, k) + Fill(o)[k]
        BY <1>4, <3>1, ReserveEffect
      <4>2. Fill(o)[k] \in Nat
        BY <1>4, <3>1, FillFacts, FulfillmentAssumption DEF Quantity
      <4>. QED
        BY <1>1, <4>1, <4>2
    <3>2. CASE p # o
      <4>1. Remaining(o, k)' = Remaining(o, k)
        BY <1>4, <3>2, ReserveEffect
      <4>. QED
        BY <1>1, <4>1
    <3>. QED
      BY <3>1, <3>2
  <2>. QED
    BY <1>1, <1>2, <2>1, <2>2 DEF HasRemaining
<1>5. ASSUME NEW w \in Worker, NEW p \in Order, NEW q \in [SKU -> Quantity], Ship(w, p, q)
      PROVE  assignee'[o] = assignee[o] /\ ~HasRemaining(o)
  <2>1. CASE p = o
    <3>1. PICK k \in SKU : Remaining(o, k) > q[k]
      BY <1>1, <1>5, <2>1 DEF Ship, TypeOK
    <3>2. Remaining(o, k) = Remaining(o, k)' + q[k] /\ Remaining(o, k)' \in Nat
      BY <1>5, <2>1, ShipEffect, FulfillmentAssumption DEF Quantity
    <3>3. q[k] \in Nat
      BY FulfillmentAssumption DEF Quantity
    <3>. QED
      BY <1>2, <3>1, <3>2, <3>3
  <2>2. CASE p # o
    BY <1>2, <1>5, <2>2, ShipEffect DEF HasRemaining
  <2>. QED
    BY <2>1, <2>2
<1>6. ASSUME NEW p \in Order, Cancel(p) \/ ApproveCancellation(p)
      PROVE  assignee'[o] = assignee[o] /\ ~HasRemaining(o)
  <2>1. assignee' = [assignee EXCEPT ![p] = NoWorker]
    BY <1>6 DEF Cancel, ApproveCancellation, ReleaseReservations, DropWork
  <2>2. p # o
    BY <1>1, <2>1 DEF TypeOK
  <2>. QED
    BY <1>2, <1>6, <2>2, CancelEffect DEF HasRemaining
<1>7. ASSUME NEW k \in SKU, NEW counted \in 0..MaxStock, FinalizeCount(k, counted)
      PROVE  counting[k] /\ ~counting'[k]
  BY <1>1, <1>7 DEF FinalizeCount, TypeOK
<1>8. ASSUME NEW p \in Order, RequestCancellation(p)
      PROVE  assignee'[o] = assignee[o] /\ ~HasRemaining(o)
  <2>1. assignee' = [assignee EXCEPT ![p] = NoWorker] /\ UNCHANGED resvVars
    BY <1>8 DEF RequestCancellation, DropWork
  <2>. QED
    BY <1>1, <1>2, <2>1 DEF TypeOK, resvVars, HasRemaining, Remaining
<1>9. ASSUME NEW w \in Worker, NEW p \in Order, ClaimWork(w, p) \/ ReleaseWork(w, p)
      PROVE  assignee'[o] = assignee[o] /\ ~HasRemaining(o)
  <2>1. UNCHANGED resvVars /\ (HasRemaining(o)' <=> HasRemaining(o))
    BY <1>9 DEF ClaimWork, ReleaseWork, resvVars, HasRemaining, Remaining
  <2>. QED
    BY <1>1, <1>9, <2>1 DEF ClaimWork, ReleaseWork, TypeOK
<1>10. CASE \E p \in Order : OrderStep(p)
  BY <1>3, <1>4, <1>6, <1>8, <1>10 DEF OrderStep, Submit, RejectCancellation, workVars
<1>11. CASE \E w \in Worker, p \in Order : WorkStep(w, p)
  BY <1>3, <1>5, <1>9, <1>11 DEF WorkStep, Pick, Inspect
<1>12. CASE \E k \in SKU : StockStep(k)
  BY <1>3, <1>7, <1>12 DEF StockStep, StartCount, CancelCount, Adjust, FindNoRow, ReadImport,
                          ApplyImport, workVars
<1>13. CASE \E q \in [SKU -> 0..MaxStock] : Receive(q)
  BY <1>3, <1>13 DEF Receive, workVars
<1>14. CASE UNCHANGED vars
  BY <1>3, <1>14 DEF vars, workVars
<1>. QED
  BY <1>10, <1>11, <1>12, <1>13, <1>14 DEF Next

(* Shipments, cancellations and claims leave nobody assigned to an order    *)
(* that holds nothing; only the end of a count does.                       *)
THEOREM OnlyCountsStrand == Spec => StrandedOnlyByCount
<1>1. IInv /\ [Next]_vars =>
        [\A o \in Order : assignee'[o] # NoWorker /\ ~HasRemaining(o)' =>
           \/ assignee'[o] = assignee[o] /\ ~HasRemaining(o)
           \/ \E k \in SKU : counting[k] /\ ~counting'[k]]_vars
  BY StrandedStep
<1>. QED
  BY <1>1, Invariance, PTL DEF Spec, StrandedOnlyByCount

(***************************************************************************)
(* A shortfall falls on the newest orders.                                 *)
(***************************************************************************)

(* The end of a count: an older order loses units after newer ones. *)
LEMMA ShortfallStep ==
  ASSUME IInv, [Next]_vars, NEW k \in SKU, counting[k], ~counting'[k],
         NEW older \in Order, NEW newer \in Order,
         older < newer, Remaining(newer, k)' > 0
  PROVE  Remaining(older, k)' = Remaining(older, k)
<1>1. TypeOK
  BY DEF IInv
<1>2. CASE LeavesReservations
  BY <1>2 DEF LeavesReservations, resvVars, Remaining
<1>3. ASSUME \/ \E o \in Order : Confirm(o) \/ Allocate(o)
             \/ \E o \in Order : Cancel(o) \/ ApproveCancellation(o)
             \/ \E w \in Worker, o \in Order, q \in [SKU -> Quantity] : Ship(w, o, q)
      PROVE  FALSE
  BY <1>3 DEF Confirm, Allocate, Cancel, ApproveCancellation, Ship
<1>4. ASSUME NEW j \in SKU, NEW counted \in 0..MaxStock, FinalizeCount(j, counted)
      PROVE  Remaining(older, k)' = Remaining(older, k)
  <2>1. j = k
    BY <1>1, <1>4 DEF FinalizeCount, TypeOK
  <2>2. PICK cut \in [Order -> Quantity] : CountShortens(k, counted, cut)
    <3>1. FinalizeCount(k, counted)
      BY <1>4, <2>1, Zenon
    <3>. QED
      BY <3>1 DEF FinalizeCount, CountShortens
  <2>3. /\ Remaining(newer, k) = Remaining(newer, k)' + cut[newer]
        /\ Remaining(older, k) = Remaining(older, k)' + cut[older]
    BY <2>2, FinalizeEffect
  <2>4. /\ cut[older] \in Nat /\ cut[newer] \in Nat
        /\ Remaining(newer, k)' \in Nat /\ Remaining(older, k)' \in Nat
    BY <2>2, FinalizeEffect, FulfillmentAssumption DEF Quantity
  <2>5. cut[older] > 0 => cut[newer] = Remaining(newer, k)
    <3>1. Held(k) \in [Order -> Quantity] /\ Excess(reserved[k], counted) \in Nat
      BY <1>1, RemainingFacts DEF IInv, TypeOK, Excess
    <3>2. NewestFirst(Held(k), Excess(reserved[k], counted), cut)
      BY <2>2 DEF CountShortens
    <3>3. cut[older] > 0 => cut[newer] = Held(k)[newer]
      BY <3>1, <3>2, LoopTakesShortage
    <3>. QED
      BY <3>3 DEF Held
  <2>6. cut[older] = 0
    BY <2>3, <2>4, <2>5
  <2>. QED
    BY <2>3, <2>4, <2>6
<1>. QED
  BY <1>2, <1>3, <1>4, StepKinds

(* A count that finds too little takes units of an order only when every   *)
(* newer order has lost all it held of the SKU.  The loop of finalize sees *)
(* one order at a time and what is still short; that it comes to this is   *)
(* LoopTakesShortage, by induction over the orders it visits.              *)
THEOREM ShortfallOrder == Spec => ShortfallFallsOnNewest
<1>1. IInv /\ [Next]_vars =>
        [\A k \in SKU : counting[k] /\ ~counting'[k] =>
           \A older, newer \in Order :
             older < newer /\ Remaining(newer, k)' > 0
               => Remaining(older, k)' = Remaining(older, k)]_vars
  BY ShortfallStep
<1>. QED
  BY <1>1, Invariance, PTL DEF Spec, ShortfallFallsOnNewest

(***************************************************************************)
(* Fulfillment implements StockLedger.                                     *)
(***************************************************************************)

(* What the ledger sees of a state. *)
Free == [k \in SKU |-> onHand[k] - reserved[k]]
HeldBy(o) == [k \in SKU |-> Remaining(o, k)]
GoneTo(o) == [k \in SKU |-> resv[o][k].shipped]

(* The empty database is the empty ledger. *)
LEMMA LedgerInit == Init => Ledger!Init
<1>. SUFFICES ASSUME Init PROVE Ledger!Init
  OBVIOUS
<1>1. \A o \in Order, k \in SKU : Remaining(o, k) = 0 /\ resv[o][k].shipped = 0
  BY DEF Init, Remaining, NoResv
<1>2. \A k \in SKU : onHand[k] - reserved[k] = 0
  BY DEF Init, NoUnits
<1>. QED
  BY <1>1, <1>2 DEF Ledger!Init

(* A command that leaves what orders hold and have got is a restock. *)
LEMMA LedgerRestock ==
  ASSUME IInv', \A o \in Order : HeldBy(o)' = HeldBy(o) /\ GoneTo(o)' = GoneTo(o)
  PROVE  Ledger!Restock
<1>1. Free' \in [SKU -> Nat]
  <2>1. \A k \in SKU : /\ onHand'[k] \in Nat /\ reserved'[k] \in Nat
                       /\ reserved'[k] <= onHand'[k]
    BY DEF IInv, TypeOK, BalanceMatchesReservations
  <2>. QED
    BY <2>1 DEF Free
<1>. QED
  BY <1>1 DEF Ledger!Restock, Free, HeldBy, GoneTo

(* Confirm and allocate commit free units to one order. *)
LEMMA LedgerReserve ==
  ASSUME IInv, NEW o \in Order, Confirm(o) \/ Allocate(o)
  PROVE  Ledger!Commit(o)
<1>1. /\ TypeOK /\ LineMatchesReservation /\ \A k \in SKU : resv[o][k] \in Reservation
      /\ \A k \in SKU : Remaining(o, k) \in Nat
      /\ \A k \in SKU : Fill(o)[k] \in Nat
  BY RemainingFacts, FillFacts, FulfillmentAssumption DEF IInv, TypeOK, Quantity
<1>2. ASSUME NEW p \in Order \ {o}
      PROVE  HeldBy(p)' = HeldBy(p) /\ GoneTo(p)' = GoneTo(p)
  <2>1. /\ resv'[p] = resv[p]
        /\ \A k \in SKU : Remaining(p, k)' = Remaining(p, k)
    BY ReserveEffect
  <2>. QED
    BY <2>1 DEF HeldBy, GoneTo
<1>3. GoneTo(o)' = GoneTo(o)
  <2>1. ASSUME NEW k \in SKU PROVE resv'[o][k].shipped = resv[o][k].shipped
    <3>1. resv'[o][k] = Granted(resv[o][k], Fill(o)[k]) /\ resv[o][k] \in Reservation
      BY <1>1, ReserveEffect
    <3>. QED
      BY <3>1 DEF Granted, Reservation
  <2>. QED
    BY <2>1 DEF GoneTo
<1>4. ASSUME NEW k \in SKU
      PROVE  /\ HeldBy(o)'[k] >= HeldBy(o)[k]
             /\ Free'[k] + HeldBy(o)'[k] = Free[k] + HeldBy(o)[k]
  <2>1. Remaining(o, k)' = Remaining(o, k) + Fill(o)[k]
    BY ReserveEffect
  <2>2. reserved'[k] = reserved[k] + Fill(o)[k] /\ onHand' = onHand
    BY DEF Confirm, Allocate, Reserve
  <2>3. onHand[k] \in Nat /\ reserved[k] \in Nat
    BY <1>1 DEF TypeOK
  <2>4. /\ HeldBy(o)'[k] = Remaining(o, k)' /\ HeldBy(o)[k] = Remaining(o, k)
        /\ Free'[k] = onHand'[k] - reserved'[k] /\ Free[k] = onHand[k] - reserved[k]
    BY DEF HeldBy, Free
  <2>. QED
    BY <1>1, <2>1, <2>2, <2>3, <2>4
<1>. QED
  BY <1>2, <1>3, <1>4 DEF Ledger!Commit, Ledger!OnlyOrder, Free, HeldBy, GoneTo

(* A shipment dispatches units its order holds. *)
LEMMA LedgerShip ==
  ASSUME IInv, NEW w \in Worker, NEW o \in Order, NEW q \in [SKU -> Quantity],
         Ship(w, o, q)
  PROVE  Ledger!Dispatch(o)
<1>1. /\ TypeOK /\ \A k \in SKU : resv[o][k] \in Reservation
      /\ \A k \in SKU : q[k] \in Nat
  BY FulfillmentAssumption DEF IInv, TypeOK, Quantity
<1>2. ASSUME NEW p \in Order \ {o}
      PROVE  HeldBy(p)' = HeldBy(p) /\ GoneTo(p)' = GoneTo(p)
  <2>1. /\ resv'[p] = resv[p]
        /\ \A k \in SKU : Remaining(p, k)' = Remaining(p, k)
    BY ShipEffect
  <2>. QED
    BY <2>1 DEF HeldBy, GoneTo
<1>3. Free' = Free
  <2>1. ASSUME NEW k \in SKU
        PROVE  onHand'[k] - reserved'[k] = onHand[k] - reserved[k]
    <3>1. onHand'[k] = onHand[k] - q[k] /\ reserved'[k] = reserved[k] - q[k]
      BY DEF Ship
    <3>2. onHand[k] \in Nat /\ reserved[k] \in Nat
      BY <1>1 DEF TypeOK
    <3>. QED
      BY <1>1, <3>1, <3>2
  <2>. QED
    BY <2>1 DEF Free
<1>4. ASSUME NEW k \in SKU
      PROVE  /\ GoneTo(o)'[k] >= GoneTo(o)[k]
             /\ HeldBy(o)'[k] + GoneTo(o)'[k] = HeldBy(o)[k] + GoneTo(o)[k]
  <2>1. /\ resv'[o][k] = Dispatched(resv[o][k], q[k])
        /\ Remaining(o, k) = Remaining(o, k)' + q[k]
        /\ Remaining(o, k)' \in Nat
    BY ShipEffect, FulfillmentAssumption DEF Quantity
  <2>2. resv[o][k].shipped \in Nat
    BY <1>1, FulfillmentAssumption DEF Reservation, Quantity
  <2>3. resv'[o][k].shipped = resv[o][k].shipped + q[k]
    BY <1>1, <2>1, <2>2 DEF Dispatched, Reservation
  <2>4. /\ HeldBy(o)'[k] = Remaining(o, k)' /\ HeldBy(o)[k] = Remaining(o, k)
        /\ GoneTo(o)'[k] = resv'[o][k].shipped /\ GoneTo(o)[k] = resv[o][k].shipped
    BY DEF HeldBy, GoneTo
  <2>. QED
    BY <1>1, <2>1, <2>2, <2>3, <2>4
<1>. QED
  BY <1>2, <1>3, <1>4 DEF Ledger!Dispatch, Ledger!OnlyOrder, Free, HeldBy, GoneTo

(* A cancelled order returns all it holds. *)
LEMMA LedgerReturn ==
  ASSUME IInv, NEW o \in Order, Cancel(o) \/ ApproveCancellation(o)
  PROVE  Ledger!Return(o)
<1>1. /\ TypeOK /\ \A k \in SKU : resv[o][k] \in Reservation
      /\ \A k \in SKU : Remaining(o, k) \in Nat
  BY RemainingFacts, FulfillmentAssumption DEF IInv, TypeOK, Quantity
<1>2. ASSUME NEW p \in Order \ {o}
      PROVE  HeldBy(p)' = HeldBy(p) /\ GoneTo(p)' = GoneTo(p)
  <2>1. /\ resv'[p] = resv[p]
        /\ \A k \in SKU : Remaining(p, k)' = Remaining(p, k)
    BY CancelEffect
  <2>. QED
    BY <2>1 DEF HeldBy, GoneTo
<1>3. GoneTo(o)' = GoneTo(o)
  <2>1. ASSUME NEW k \in SKU PROVE resv'[o][k].shipped = resv[o][k].shipped
    <3>1. /\ resv[o][k] \in Reservation
          /\ \/ resv'[o][k] = [resv[o][k] EXCEPT !.status = "released"]
             \/ resv'[o][k] = resv[o][k]
      BY <1>1, CancelEffect
    <3>. QED
      BY <3>1 DEF Reservation
  <2>. QED
    BY <2>1 DEF GoneTo
<1>4. ASSUME NEW k \in SKU
      PROVE  HeldBy(o)'[k] = 0 /\ Free'[k] = Free[k] + HeldBy(o)[k]
  <2>1. Remaining(o, k)' = 0
    BY CancelEffect
  <2>2. reserved'[k] = reserved[k] - Remaining(o, k) /\ onHand' = onHand
    BY DEF Cancel, ApproveCancellation, ReleaseReservations
  <2>3. onHand[k] \in Nat /\ reserved[k] \in Nat
    BY <1>1 DEF TypeOK
  <2>4. /\ HeldBy(o)'[k] = Remaining(o, k)' /\ HeldBy(o)[k] = Remaining(o, k)
        /\ Free'[k] = onHand'[k] - reserved'[k] /\ Free[k] = onHand[k] - reserved[k]
    BY DEF HeldBy, Free
  <2>. QED
    BY <1>1, <2>1, <2>2, <2>3, <2>4
<1>. QED
  BY <1>2, <1>3, <1>4 DEF Ledger!Return, Ledger!OnlyOrder, Free, HeldBy, GoneTo

(* A sum is at least each of its terms; here, a zero sum has zero terms. *)
LEMMA TotalZero ==
  ASSUME NEW f \in [Order -> Quantity], Total(f) = 0, NEW o \in Order
  PROVE  f[o] = 0
<1>1. Units(f) = {}
  BY UnitsFinite, FS_EmptySet DEF Total
<1>2. f[o] \in Nat /\ f[o] <= MaxQty /\ MaxQty \in Nat
  BY FulfillmentAssumption DEF Quantity
<1>3. SUFFICES ASSUME f[o] > 0 PROVE FALSE
  BY <1>2
<1>4. <<o, 1>> \in Units(f)
  BY <1>2, <1>3 DEF Units
<1>. QED
  BY <1>1, <1>4

(* The end of a count restocks, or is a shortfall with nothing left free. *)
LEMMA LedgerFinalize ==
  ASSUME IInv, IInv', NEW k \in SKU, NEW counted \in 0..MaxStock,
         FinalizeCount(k, counted)
  PROVE  Ledger!Restock \/ Ledger!Shortfall(k)
<1>1. TypeOK /\ \A o \in Order, j \in SKU : resv[o][j] \in Reservation
  BY DEF IInv, TypeOK
<1>2. PICK cut \in [Order -> Quantity] : CountShortens(k, counted, cut)
  BY DEF FinalizeCount, CountShortens
<1>3. \A o \in Order : GoneTo(o)' = GoneTo(o)
  <2>. SUFFICES ASSUME NEW o \in Order, NEW j \in SKU
               PROVE  resv'[o][j].shipped = resv[o][j].shipped
    BY DEF GoneTo
  <2>1. CASE j = k
    <3>1. resv'[o][k] = Shortened(resv[o][k], cut[o])
      BY <1>2, FinalizeEffect
    <3>. QED
      BY <1>1, <2>1, <3>1 DEF Shortened, Reservation
  <2>2. CASE j # k
    BY <1>2, <2>2, FinalizeEffect
  <2>. QED
    BY <2>1, <2>2
<1>4. \A o \in Order : /\ Remaining(o, k) = Remaining(o, k)' + cut[o]
                       /\ Remaining(o, k)' \in Nat /\ cut[o] \in Nat
                       /\ \A j \in SKU \ {k} : Remaining(o, j)' = Remaining(o, j)
  BY <1>2, FinalizeEffect, FulfillmentAssumption DEF Quantity
<1>5. /\ reserved' = [reserved EXCEPT ![k] = reserved[k] - Total(cut)]
      /\ onHand' = [onHand EXCEPT ![k] = counted]
      /\ Total(cut) = Excess(reserved[k], counted) /\ Total(cut) \in Nat
  <2>1. Held(k) \in [Order -> Quantity] /\ Excess(reserved[k], counted) \in Nat
    BY <1>1, RemainingFacts DEF IInv, TypeOK, Excess
  <2>2. NewestFirst(Held(k), Excess(reserved[k], counted), cut)
    BY <1>2 DEF CountShortens
  <2>3. Total(cut) = Excess(reserved[k], counted)
    BY <2>1, <2>2, LoopTakesShortage
  <2>. QED
    BY <1>2, <2>1, <2>3 DEF CountShortens
<1>6. reserved[k] \in Nat /\ counted \in Nat
  BY <1>1 DEF TypeOK
<1>7. CASE reserved[k] <= counted
  <2>1. Total(cut) = 0
    BY <1>5, <1>6, <1>7 DEF Excess
  <2>2. \A o \in Order : cut[o] = 0
    BY <2>1, TotalZero
  <2>3. ASSUME NEW o \in Order PROVE HeldBy(o)' = HeldBy(o)
    <3>1. \A j \in SKU : Remaining(o, j)' = Remaining(o, j)
      <4>1. Remaining(o, k)' = Remaining(o, k)
        BY <1>4, <2>2
      <4>. QED
        BY <1>4, <4>1 DEF Remaining
    <3>. QED
      BY <3>1 DEF HeldBy
  <2>. QED
    BY <1>3, <2>3, LedgerRestock
<1>8. CASE reserved[k] > counted
  <2>1. Total(cut) = reserved[k] - counted
    BY <1>5, <1>6, <1>8 DEF Excess
  <2>2. Free' = [Free EXCEPT ![k] = 0]
    <3>1. \A j \in SKU : onHand'[j] - reserved'[j] = IF j = k THEN 0
                                                    ELSE onHand[j] - reserved[j]
      BY <1>1, <1>5, <1>6, <2>1 DEF TypeOK
    <3>. QED
      BY <3>1 DEF Free
  <2>3. ASSUME NEW o \in Order
        PROVE  /\ HeldBy(o)'[k] <= HeldBy(o)[k]
               /\ \A j \in SKU \ {k} : HeldBy(o)'[j] = HeldBy(o)[j]
    <3>1. \A j \in SKU : HeldBy(o)'[j] = Remaining(o, j)' /\ HeldBy(o)[j] = Remaining(o, j)
      BY DEF HeldBy
    <3>2. Remaining(o, k)' <= Remaining(o, k)
      BY <1>4
    <3>. QED
      BY <1>4, <3>1, <3>2
  <2>4. Ledger!Shortfall(k)
    BY <1>3, <2>2, <2>3 DEF Ledger!Shortfall, Free, HeldBy, GoneTo
  <2>. QED
    BY <2>4
<1>. QED
  BY <1>6, <1>7, <1>8

(* Every command is a step of the ledger or leaves it alone. *)
LEMMA LedgerStep == IInv /\ IInv' /\ [Next]_vars => [Ledger!Next]_Ledger!ledger
<1>. SUFFICES ASSUME IInv, IInv', [Next]_vars PROVE Ledger!Next
  OBVIOUS
<1>1. CASE LeavesReservations
  <2>1. \A o \in Order : HeldBy(o)' = HeldBy(o) /\ GoneTo(o)' = GoneTo(o)
    BY <1>1 DEF LeavesReservations, resvVars, HeldBy, GoneTo, Remaining
  <2>. QED
    BY <2>1, LedgerRestock DEF Ledger!Next
<1>2. CASE \E o \in Order : Confirm(o) \/ Allocate(o)
  BY <1>2, LedgerReserve DEF Ledger!Next
<1>3. CASE \E w \in Worker, o \in Order, q \in [SKU -> Quantity] : Ship(w, o, q)
  BY <1>3, LedgerShip DEF Ledger!Next
<1>4. CASE \E o \in Order : Cancel(o) \/ ApproveCancellation(o)
  BY <1>4, LedgerReturn DEF Ledger!Next
<1>5. CASE \E k \in SKU, counted \in 0..MaxStock : FinalizeCount(k, counted)
  BY <1>5, LedgerFinalize DEF Ledger!Next
<1>. QED
  BY <1>1, <1>2, <1>3, <1>4, <1>5, StepKinds

(* Every run of the commands is a run of the ledger: no unit is promised    *)
(* twice, and none leaves except to the order it was held for.              *)
THEOREM Refinement == Spec => ImplementsLedger
<1>. QED
  BY LedgerInit, LedgerStep, Invariance, PTL
     DEF Spec, ImplementsLedger, Ledger!Spec

=============================================================================
