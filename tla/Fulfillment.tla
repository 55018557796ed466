---------------------------- MODULE Fulfillment ----------------------------
(***************************************************************************)
(* From an order to its shipments: order.service.ts, stock-count.service.ts*)
(* and the stock commands of catalog.service.ts and initial-import.        *)
(*                                                                         *)
(* An action is one committed command.  Every command runs in a database   *)
(* transaction that locks the rows it decides on (FOR UPDATE) before it    *)
(* reads them, so committed commands take effect one at a time; a command  *)
(* whose guard fails throws, is rolled back and changes nothing.  Two kinds*)
(* of commands decide on what they have not locked and are two steps each, *)
(* with other commands between them: the initial import, and a receipt or  *)
(* return of a SKU that has no balance row yet.                            *)
(*                                                                         *)
(* One warehouse is modelled: a SKU stands for the pair (warehouse_id,     *)
(* product_id) that keys inventory_balances.  Orders are numbered in the   *)
(* order they are created, which is the order of orders.created_at.        *)
(***************************************************************************)
EXTENDS Integers, FiniteSets

CONSTANTS
  NumOrders,   \* how many orders are ever submitted
  SKU,         \* products on sale, each with its balance in the warehouse
  Worker,      \* warehouse users
  NoWorker,    \* the order has no row in shipment_work_assignments
  MaxQty,      \* bound: largest quantity of an order line
  MaxStock,    \* bound: largest on-hand quantity of a SKU
  MaxUnlocked  \* bound: SKUs receipts look for before they have a row

ASSUME FulfillmentAssumption ==
  /\ NumOrders \in Nat
  /\ MaxQty \in Nat \ {0}
  /\ MaxStock \in Nat
  /\ MaxUnlocked \in Nat
  /\ NoWorker \notin Worker

Order == 1..NumOrders
Quantity == 0..MaxQty

VARIABLES
  orderStatus,    \* orders.status, "none" before the order exists
  requested,      \* order_lines.requested_quantity, 0 when there is no line
  lineReserved,   \* order_lines.reserved_quantity
  resv,           \* the reservation of a line (order_line_id is UNIQUE)
  picked,         \* shipment_work_lines.picked_quantity
  inspected,      \* shipment_work_lines.inspected_quantity
  assignee,       \* shipment_work_assignments.assigned_to
  pendingCancel,  \* orders with a 'submitted' cancellation request
  stocked,        \* SKUs that have a row in inventory_balances
  onHand,         \* inventory_balances.on_hand_quantity
  reserved,       \* inventory_balances.reserved_quantity
  counting,       \* the SKU has a stock count in status 'counting'
  importing,      \* SKUs an open import transaction has read as empty
  unlocked        \* SKUs for which receipts or returns found no row to lock

orderVars == <<orderStatus, requested, pendingCancel>>
resvVars  == <<resv, lineReserved>>
workVars  == <<picked, inspected, assignee>>
underway == <<importing, unlocked>>
stockVars == <<stocked, onHand, reserved, counting, underway>>
vars == <<orderVars, resvVars, workVars, stockVars>>

NoResv == [status |-> "none", quantity |-> 0, shipped |-> 0]
NoUnits == [k \in SKU |-> 0]

-----------------------------------------------------------------------------
(* Sums over orders.  A quantity of f[o] units held by order o is the set  *)
(* of pairs <<o, 1>>, ..., <<o, f[o]>>; a sum is the size of such a set.   *)

Units(f) == {u \in Order \X (1..MaxQty) : u[2] <= f[u[1]]}
Total(f) == Cardinality(Units(f))

Smaller(a, b) == IF a <= b THEN a ELSE b
Excess(a, b) == IF a > b THEN a - b ELSE 0     \* Math.max(0, a - b)

-----------------------------------------------------------------------------
(* What the commands read.                                                 *)

Lines(o) == {k \in SKU : requested[o][k] > 0}

\* Units a reservation still holds: quantity - shipped_quantity when active.
Remaining(o, k) ==
  IF resv[o][k].status = "active"
  THEN resv[o][k].quantity - resv[o][k].shipped
  ELSE 0

Held(k) == [o \in Order |-> Remaining(o, k)]
HasRemaining(o) == \E k \in SKU : Remaining(o, k) > 0

\* Mutant of Available: what others have reserved is given again.
AvailableTwice(k) == onHand[k]

Available(k) == Excess(onHand[k], reserved[k])

\* What confirm and allocate give a line: what it waits for, as far as
\* uncommitted stock reaches.
Fill(o) ==
  [k \in SKU |-> Smaller(Excess(requested[o][k], lineReserved[o][k]),
                         Available(k))]

\* Mutant of NoPicksAt: only inspected units are looked for.
NoInspectedAt(k) ==
  \A o \in Order : resv[o][k].status = "active" => inspected[o][k] = 0

NoPicksAt(k) ==
  \A o \in Order : resv[o][k].status = "active"
                     => picked[o][k] = 0 /\ inspected[o][k] = 0

-----------------------------------------------------------------------------
Init ==
  /\ orderStatus = [o \in Order |-> "none"]
  /\ requested = [o \in Order |-> NoUnits]
  /\ lineReserved = [o \in Order |-> NoUnits]
  /\ resv = [o \in Order |-> [k \in SKU |-> NoResv]]
  /\ picked = [o \in Order |-> NoUnits]
  /\ inspected = [o \in Order |-> NoUnits]
  /\ assignee = [o \in Order |-> NoWorker]
  /\ pendingCancel = {}
  /\ stocked = {}
  /\ onHand = NoUnits
  /\ reserved = NoUnits
  /\ counting = [k \in SKU |-> FALSE]
  /\ importing = {}
  /\ unlocked = {}

-----------------------------------------------------------------------------
(* Orders and allocation.                                                  *)

\* submit: the lines are stored; nothing is reserved yet.
Submit(o, want) ==
  /\ orderStatus[o] = "none"
  /\ \A p \in Order : p < o => orderStatus[p] # "none"
  /\ \E k \in SKU : want[k] > 0
  /\ orderStatus' = [orderStatus EXCEPT ![o] = "submitted"]
  /\ requested' = [requested EXCEPT ![o] = want]
  /\ UNCHANGED <<pendingCancel, resvVars, workVars, stockVars>>

\* Mutant of Granted: a released reservation grows from its old quantity.
GrantedOnTop(r, q) ==
  IF q = 0 THEN r
  ELSE [status |-> "active", quantity |-> r.quantity + q, shipped |-> r.shipped]

\* Mutant of Granted: a released reservation starts over and forgets what it
\* has shipped.
GrantedAnew(r, q) ==
  IF q = 0 THEN r
  ELSE IF r.status = "released"
  THEN [status |-> "active", quantity |-> q, shipped |-> 0]
  ELSE [r EXCEPT !.status = "active", !.quantity = r.quantity + q]

\* A line granted q units: its reservation is created, grown, or revived.  A
\* released reservation restarts from what it has shipped.
Granted(r, q) ==
  IF q = 0 THEN r
  ELSE [status |-> "active",
        quantity |-> q + (IF r.status = "released" THEN r.shipped
                          ELSE r.quantity),
        shipped |-> r.shipped]

\* The writes shared by confirm and allocate.
Reserve(o, q) ==
  /\ reserved' = [k \in SKU |-> reserved[k] + q[k]]
  /\ lineReserved' =
       [lineReserved EXCEPT ![o] = [k \in SKU |-> lineReserved[o][k] + q[k]]]
  /\ resv' = [resv EXCEPT ![o] = [k \in SKU |-> Granted(resv[o][k], q[k])]]

\* confirm: reserve what stock allows, the rest waits.
Confirm(o) ==
  /\ orderStatus[o] = "submitted"
  /\ \A k \in Lines(o) : ~counting[k]
  /\ Reserve(o, Fill(o))
  /\ orderStatus' = [orderStatus EXCEPT ![o] = "confirmed"]
  /\ UNCHANGED <<requested, pendingCancel, workVars, stocked, onHand, counting,
                 underway>>

\* allocate: give later stock to the waiting part of a confirmed order.
Allocate(o) ==
  /\ orderStatus[o] = "confirmed"
  /\ o \notin pendingCancel
  /\ \A k \in Lines(o) : ~counting[k]
  /\ Reserve(o, Fill(o))
  /\ UNCHANGED <<orderVars, workVars, stocked, onHand, counting, underway>>

-----------------------------------------------------------------------------
(* Shipment work.                                                          *)

\* Mutant of ClaimWork: an open cancellation request is not looked for.
ClaimAnyway(w, o) ==
  /\ orderStatus[o] = "confirmed"
  /\ HasRemaining(o)
  /\ assignee[o] \in {NoWorker, w}
  /\ assignee' = [assignee EXCEPT ![o] = w]
  /\ UNCHANGED <<orderVars, resvVars, picked, inspected, stockVars>>

ClaimWork(w, o) ==
  /\ orderStatus[o] = "confirmed"
  /\ HasRemaining(o)
  /\ o \notin pendingCancel
  /\ \A k \in SKU : resv[o][k].status = "active" => ~counting[k]
  /\ assignee[o] \in {NoWorker, w}
  /\ assignee' = [assignee EXCEPT ![o] = w]
  /\ UNCHANGED <<orderVars, resvVars, picked, inspected, stockVars>>

\* releaseShipmentWork: only the assignment goes; picked and inspected
\* quantities stay for the next worker.
ReleaseWork(w, o) ==
  /\ assignee[o] = w
  /\ assignee' = [assignee EXCEPT ![o] = NoWorker]
  /\ UNCHANGED <<orderVars, resvVars, picked, inspected, stockVars>>

\* The guards setShipmentWorkQuantities has for both stages.
MayWork(w, o, ks) ==
  /\ orderStatus[o] = "confirmed"
  /\ assignee[o] = w
  /\ o \notin pendingCancel
  /\ ks # {}
  /\ \A k \in ks : resv[o][k].status = "active" /\ ~counting[k]

\* The picked quantity of each listed line is set, up or down.
Pick(w, o, ks, q) ==
  /\ MayWork(w, o, ks)
  /\ \A k \in ks : q[k] <= Remaining(o, k) /\ inspected[o][k] <= q[k]
  /\ picked' = [picked EXCEPT ![o] =
                  [k \in SKU |-> IF k \in ks THEN q[k] ELSE picked[o][k]]]
  /\ UNCHANGED <<orderVars, resvVars, inspected, assignee, stockVars>>

Inspect(w, o, ks, q) ==
  /\ MayWork(w, o, ks)
  /\ \A k \in ks : picked[o][k] <= Remaining(o, k) /\ q[k] <= picked[o][k]
  /\ inspected' = [inspected EXCEPT ![o] =
                     [k \in SKU |-> IF k \in ks THEN q[k] ELSE inspected[o][k]]]
  /\ UNCHANGED <<orderVars, resvVars, picked, assignee, stockVars>>

Dispatched(r, q) ==
  IF q = 0 THEN r
  ELSE [r EXCEPT !.shipped = r.shipped + q,
                 !.status = IF r.shipped + q = r.quantity THEN "shipped"
                            ELSE "active"]

\* ship: q[k] = 0 means the request has no line for SKU k.  A worker who has
\* not claimed the order claims it by shipping; the assignment ends with the
\* last unit the order holds.  The order's status is not looked at.
Ship(w, o, q) ==
  /\ \E k \in SKU : q[k] > 0
  /\ assignee[o] \in {NoWorker, w}
  /\ o \notin pendingCancel
  /\ \A k \in SKU : q[k] > 0 =>
       /\ resv[o][k].status = "active"
       /\ q[k] <= Remaining(o, k)
       /\ q[k] <= inspected[o][k]
       /\ ~counting[k]
       /\ q[k] <= onHand[k]
       /\ q[k] <= reserved[k]
  /\ onHand' = [k \in SKU |-> onHand[k] - q[k]]
  /\ reserved' = [k \in SKU |-> reserved[k] - q[k]]
  /\ resv' = [resv EXCEPT ![o] = [k \in SKU |-> Dispatched(resv[o][k], q[k])]]
  /\ picked' = [picked EXCEPT ![o] = [k \in SKU |-> picked[o][k] - q[k]]]
  /\ inspected' = [inspected EXCEPT ![o] =
                     [k \in SKU |-> inspected[o][k] - q[k]]]
  /\ assignee' = [assignee EXCEPT ![o] =
                    IF \E k \in SKU : Remaining(o, k) > q[k]
                    THEN w ELSE NoWorker]
  /\ UNCHANGED <<orderVars, lineReserved, stocked, counting, underway>>

-----------------------------------------------------------------------------
(* Cancellation.                                                           *)

\* Mutant of DropWork: the assignment ends, the cart stays full.
DropAssignment(o) ==
  /\ assignee' = [assignee EXCEPT ![o] = NoWorker]
  /\ UNCHANGED <<picked, inspected>>

\* Mutant of DropWork: the cart is emptied, the assignment stays.
DropPicks(o) ==
  /\ picked' = [picked EXCEPT ![o] = NoUnits]
  /\ inspected' = [inspected EXCEPT ![o] = NoUnits]
  /\ UNCHANGED assignee

\* resetShipmentWork and the end of the assignment.
DropWork(o) ==
  /\ picked' = [picked EXCEPT ![o] = NoUnits]
  /\ inspected' = [inspected EXCEPT ![o] = NoUnits]
  /\ assignee' = [assignee EXCEPT ![o] = NoWorker]

\* Mutant of ReleaseReservations: stock counts are not looked for.
ReleaseUnderCount(o) ==
  /\ reserved' = [k \in SKU |-> reserved[k] - Remaining(o, k)]
  /\ resv' = [resv EXCEPT ![o] = [k \in SKU |->
       IF Remaining(o, k) > 0
       THEN [resv[o][k] EXCEPT !.status = "released"]
       ELSE resv[o][k]]]
  /\ lineReserved' = [lineReserved EXCEPT ![o] =
       [k \in SKU |-> lineReserved[o][k] - Remaining(o, k)]]
  /\ DropWork(o)

\* releaseOrderReservations: one SKU under count fails the whole command.
ReleaseReservations(o) ==
  /\ \A k \in SKU : Remaining(o, k) > 0 =>
       ~counting[k] /\ Remaining(o, k) <= reserved[k]
  /\ reserved' = [k \in SKU |-> reserved[k] - Remaining(o, k)]
  /\ resv' = [resv EXCEPT ![o] = [k \in SKU |->
       IF Remaining(o, k) > 0
       THEN [resv[o][k] EXCEPT !.status = "released"]
       ELSE resv[o][k]]]
  /\ lineReserved' = [lineReserved EXCEPT ![o] =
       [k \in SKU |-> lineReserved[o][k] - Remaining(o, k)]]
  /\ DropWork(o)

\* cancel: an administrator cancels what has not shipped.
Cancel(o) ==
  /\ orderStatus[o] = "confirmed"
  /\ o \notin pendingCancel
  /\ ReleaseReservations(o)
  /\ orderStatus' = [orderStatus EXCEPT ![o] = "cancelled"]
  /\ UNCHANGED <<requested, pendingCancel, stocked, onHand, counting, underway>>

\* requestCancellation: the customer asks; work on the order stops.
RequestCancellation(o) ==
  /\ orderStatus[o] = "confirmed"
  /\ \E k \in SKU : requested[o][k] > resv[o][k].shipped
  /\ o \notin pendingCancel
  /\ pendingCancel' = pendingCancel \cup {o}
  /\ DropWork(o)
  /\ UNCHANGED <<orderStatus, requested, resvVars, stockVars>>

\* reviewCancellation with decision 'approved'.
ApproveCancellation(o) ==
  /\ o \in pendingCancel
  /\ orderStatus[o] = "confirmed"
  /\ ReleaseReservations(o)
  /\ orderStatus' = [orderStatus EXCEPT ![o] = "cancelled"]
  /\ pendingCancel' = pendingCancel \ {o}
  /\ UNCHANGED <<requested, stocked, onHand, counting, underway>>

\* reviewCancellation with decision 'rejected'.
RejectCancellation(o) ==
  /\ o \in pendingCancel
  /\ orderStatus[o] = "confirmed"
  /\ pendingCancel' = pendingCancel \ {o}
  /\ UNCHANGED <<orderStatus, requested, resvVars, workVars, stockVars>>

-----------------------------------------------------------------------------
(* Stock counts.                                                           *)

StartCount(k) ==
  /\ k \in stocked
  /\ ~counting[k]
  /\ NoPicksAt(k)
  /\ counting' = [counting EXCEPT ![k] = TRUE]
  /\ UNCHANGED <<orderVars, resvVars, workVars, stocked, onHand, reserved,
                 underway>>

CancelCount(k) ==
  /\ counting[k]
  /\ counting' = [counting EXCEPT ![k] = FALSE]
  /\ UNCHANGED <<orderVars, resvVars, workVars, stocked, onHand, reserved,
                 underway>>

\* Mutant of NewestFirst: the loop starts with the oldest order.
OldestFirst(held, shortage, cut) ==
  \E left \in [0..NumOrders -> 0..shortage] :
    /\ left[0] = shortage
    /\ \A o \in Order : /\ cut[o] = Smaller(left[o - 1], held[o])
                       /\ left[o] = left[o - 1] - cut[o]
    /\ left[NumOrders] = 0

\* Mutant of NewestFirst: an order loses all it holds, however little is short.
CutAll(held, shortage, cut) ==
  \A o \in Order : cut[o] = IF shortage > 0 THEN held[o] ELSE 0

\* The loop of finalize.  It comes to the orders newest first; left[o] is what is
\* still short when it comes to order o, left[0] when it has seen them all.  Each
\* gives what it holds, as far as is short.  If something is left the command is
\* refused.
NewestFirst(held, shortage, cut) ==
  \E left \in [0..NumOrders -> 0..shortage] :
    /\ left[NumOrders] = shortage
    /\ \A o \in Order : /\ cut[o] = Smaller(left[o], held[o])
                       /\ left[o - 1] = left[o] - cut[o]
    /\ left[0] = 0

\* A reservation that loses all it holds is released and keeps its quantity,
\* one that loses a part shrinks.
Shortened(r, q) ==
  IF q = 0 THEN r
  ELSE IF q = r.quantity - r.shipped THEN [r EXCEPT !.status = "released"]
  ELSE [r EXCEPT !.quantity = r.quantity - q]

\* finalize: the counted quantity becomes the stock on hand.  Assignments of
\* orders that lose their reservations are left as they are.
FinalizeCount(k, counted) ==
  /\ counting[k]
  /\ NoPicksAt(k)
  /\ \E cut \in [Order -> Quantity] :
       /\ NewestFirst(Held(k), Excess(reserved[k], counted), cut)
       /\ resv' = [o \in Order |->
            [resv[o] EXCEPT ![k] = Shortened(resv[o][k], cut[o])]]
       /\ lineReserved' = [o \in Order |->
            [lineReserved[o] EXCEPT ![k] = lineReserved[o][k] - cut[o]]]
       /\ reserved' = [reserved EXCEPT ![k] = reserved[k] - Total(cut)]
  /\ onHand' = [onHand EXCEPT ![k] = counted]
  /\ counting' = [counting EXCEPT ![k] = FALSE]
  /\ UNCHANGED <<orderVars, workVars, stocked, underway>>

-----------------------------------------------------------------------------
(* Stock that comes and goes without an order.                             *)

\* A receipt, or a return of goods (inspect has the same statements), looks for
\* a SKU that has no row: FOR UPDATE locks nothing, and the check for a count is
\* passed.  Any number of them may be open; each is written by some later
\* Receive, or never.
FindNoRow(k) ==
  /\ k \notin stocked \cup unlocked
  /\ Cardinality(unlocked) < MaxUnlocked
  /\ unlocked' = unlocked \cup {k}
  /\ UNCHANGED <<orderVars, resvVars, workVars, stocked, onHand, reserved,
                 counting, importing>>

\* Mutant of Receive: a receipt does not look for counts.
ReceiveAnyway(q) ==
  /\ \E k \in SKU : q[k] > 0
  /\ \A k \in SKU : q[k] > 0 => onHand[k] + q[k] <= MaxStock
  /\ stocked' = stocked \cup {k \in SKU : q[k] > 0}
  /\ onHand' = [k \in SKU |-> onHand[k] + q[k]]
  /\ UNCHANGED <<orderVars, resvVars, workVars, reserved, counting, underway>>

\* receipt commits: INSERT ... ON CONFLICT creates the balance row or adds to it.
\* A row it has locked is not under count; one that came later may be.
Receive(q) ==
  /\ \E k \in SKU : q[k] > 0
  /\ \A k \in SKU : q[k] > 0 => /\ ~counting[k] \/ k \in unlocked
                               /\ onHand[k] + q[k] <= MaxStock
  /\ stocked' = stocked \cup {k \in SKU : q[k] > 0}
  /\ onHand' = [k \in SKU |-> onHand[k] + q[k]]
  /\ UNCHANGED <<orderVars, resvVars, workVars, reserved, counting, underway>>

\* adjustment: never below what is reserved.
Adjust(k, next) ==
  /\ k \in stocked
  /\ ~counting[k]
  /\ next # onHand[k]
  /\ reserved[k] <= next
  /\ onHand' = [onHand EXCEPT ![k] = next]
  /\ UNCHANGED <<orderVars, resvVars, workVars, stocked, reserved, counting,
                 underway>>

\* The initial import, first half: analyze reads the balance without a lock
\* and accepts a stock row only over an empty one.
ReadImport(k) ==
  /\ k \notin importing
  /\ onHand[k] = 0 /\ reserved[k] = 0
  /\ importing' = importing \cup {k}
  /\ UNCHANGED <<orderVars, resvVars, workVars, stocked, onHand, reserved,
                 counting, unlocked>>

\* Second half: the quantity of the file becomes the stock on hand, whatever
\* the balance is by now and whether or not it is being counted.  Only the
\* CHECK (reserved_quantity <= on_hand_quantity) can still refuse it, and the
\* transaction is then rolled back.
ApplyImport(k, quantity) ==
  /\ k \in importing
  /\ importing' = importing \ {k}
  /\ IF quantity < reserved[k]
     THEN UNCHANGED <<stocked, onHand>>
     ELSE /\ stocked' = stocked \cup {k}
          /\ onHand' = IF quantity = 0 THEN onHand
                      ELSE [onHand EXCEPT ![k] = quantity]
  /\ UNCHANGED <<orderVars, resvVars, workVars, reserved, counting, unlocked>>

-----------------------------------------------------------------------------
OrderStep(o) ==
  \/ \E want \in [SKU -> Quantity] : Submit(o, want)
  \/ Confirm(o)
  \/ Allocate(o)
  \/ Cancel(o)
  \/ RequestCancellation(o)
  \/ ApproveCancellation(o)
  \/ RejectCancellation(o)

WorkStep(w, o) ==
  \/ ClaimWork(w, o)
  \/ ReleaseWork(w, o)
  \/ \E ks \in SUBSET SKU, q \in [SKU -> Quantity] : Pick(w, o, ks, q)
  \/ \E ks \in SUBSET SKU, q \in [SKU -> Quantity] : Inspect(w, o, ks, q)
  \/ \E q \in [SKU -> Quantity] : Ship(w, o, q)

StockStep(k) ==
  \/ StartCount(k)
  \/ CancelCount(k)
  \/ \E counted \in 0..MaxStock : FinalizeCount(k, counted)
  \/ \E next \in 0..MaxStock : Adjust(k, next)
  \/ FindNoRow(k)
  \/ ReadImport(k)
  \/ \E quantity \in 0..MaxStock : ApplyImport(k, quantity)

Next ==
  \/ \E o \in Order : OrderStep(o)
  \/ \E w \in Worker, o \in Order : WorkStep(w, o)
  \/ \E k \in SKU : StockStep(k)
  \/ \E q \in [SKU -> 0..MaxStock] : Receive(q)

Spec == Init /\ [][Next]_vars

-----------------------------------------------------------------------------
(* Properties.                                                             *)

Reservation ==
  [status : {"none", "active", "released", "shipped"},
   quantity : Quantity,
   shipped : Quantity]

\* Every variable has its type; quantities of a line stay within its bound.
TypeOK ==
  /\ orderStatus \in [Order -> {"none", "submitted", "confirmed", "cancelled"}]
  /\ requested \in [Order -> [SKU -> Quantity]]
  /\ lineReserved \in [Order -> [SKU -> Quantity]]
  /\ resv \in [Order -> [SKU -> Reservation]]
  /\ picked \in [Order -> [SKU -> Quantity]]
  /\ inspected \in [Order -> [SKU -> Quantity]]
  /\ assignee \in [Order -> Worker \cup {NoWorker}]
  /\ pendingCancel \subseteq Order
  /\ stocked \subseteq SKU
  /\ onHand \in [SKU -> Nat]
  /\ reserved \in [SKU -> Nat]
  /\ counting \in [SKU -> BOOLEAN]
  /\ importing \subseteq SKU
  /\ unlocked \subseteq SKU

\* The reserved quantity of a balance is exactly what the active reservations
\* of all orders still hold, and stock on hand covers it.  The balance is
\* changed by five commands that each touch other reservations.
BalanceMatchesReservations ==
  \A k \in SKU : reserved[k] = Total(Held(k)) /\ reserved[k] <= onHand[k]

\* The reserved quantity kept on the order line agrees with its reservation
\* through release, revival, shortening and partial shipment, and a
\* reservation never covers more than the customer ordered.
LineMatchesReservation ==
  \A o \in Order, k \in SKU :
    LET r == resv[o][k] IN
    /\ lineReserved[o][k] = IF r.status = "released" THEN r.shipped
                            ELSE r.quantity
    /\ r.quantity <= requested[o][k]
    /\ IF r.status \in {"active", "released"} THEN r.shipped < r.quantity
       ELSE r.shipped = r.quantity
    /\ r.status = "none" => r.quantity = 0

\* Picked and inspected quantities never outlive or exceed the units the
\* reservation still holds, whoever changed the reservation meanwhile.
WorkWithinReservation ==
  \A o \in Order, k \in SKU :
    inspected[o][k] <= picked[o][k] /\ picked[o][k] <= Remaining(o, k)

\* No order has picked or inspected units of a SKU that is being counted: they
\* would be on a cart and not on the shelf.
CountedShelvesAreWhole ==
  \A k \in SKU : counting[k] =>
    \A o \in Order : picked[o][k] = 0 /\ inspected[o][k] = 0

\* While the customer's cancellation request is open the order is confirmed,
\* nobody works on it and nothing is picked for it.
PendingCancellationStopsWork ==
  \A o \in pendingCancel :
    /\ orderStatus[o] = "confirmed"
    /\ assignee[o] = NoWorker
    /\ picked[o] = NoUnits

\* Only a confirmed order holds stock or has a worker; ship relies on it, as
\* it looks at the reservation and not at the order.
OnlyConfirmedOrdersHoldStock ==
  \A o \in Order : orderStatus[o] # "confirmed" =>
    /\ assignee[o] = NoWorker
    /\ ~HasRemaining(o)
    /\ orderStatus[o] # "cancelled" => resv[o] = [k \in SKU |-> NoResv]

\* An order that ships units ships inspected ones, is confirmed and has no
\* open cancellation request, and what has shipped is never taken back.
ShippedUnitsAreFinal ==
  [][\A o \in Order, k \in SKU :
       LET before == resv[o][k].shipped
           after == resv'[o][k].shipped IN
       after # before =>
         /\ after > before
         /\ after - before <= inspected[o][k]
         /\ orderStatus[o] = "confirmed"
         /\ o \notin pendingCancel]_vars

\* From the start of a stock count to its end nothing is reserved, released
\* or shipped at the SKU, whichever command asks.  Its stock can change by an
\* import that was analyzed before, and can grow by a receipt or return that
\* looked for the row before there was one; by nothing else.
CountFreezesReservations ==
  [][\A k \in SKU : counting[k] /\ counting'[k] =>
       /\ reserved'[k] = reserved[k]
       /\ \A o \in Order : resv'[o][k] = resv[o][k]
       /\ onHand'[k] # onHand[k] =>
            \/ k \in importing /\ k \notin importing'
            \/ k \in unlocked /\ onHand'[k] > onHand[k]]_vars

\* A worker is left assigned to an order that holds nothing only by the end of
\* a count: no shipment, cancellation or claim does it, and nobody is assigned
\* to such an order anew.
StrandedOnlyByCount ==
  [][\A o \in Order : assignee'[o] # NoWorker /\ ~HasRemaining(o)' =>
       \/ assignee'[o] = assignee[o] /\ ~HasRemaining(o)
       \/ \E k \in SKU : counting[k] /\ ~counting'[k]]_vars

\* When a count breaks reservations, an order keeps units of the SKU only if
\* every order before it lost nothing.
ShortfallFallsOnNewest ==
  [][\A k \in SKU : counting[k] /\ ~counting'[k] =>
       \A older, newer \in Order :
         older < newer /\ Remaining(newer, k)' > 0
           => Remaining(older, k)' = Remaining(older, k)]_vars

\* The ledger this module implements.
Ledger == INSTANCE StockLedger WITH
  free <- [k \in SKU |-> onHand[k] - reserved[k]],
  held <- [o \in Order |-> [k \in SKU |-> Remaining(o, k)]],
  gone <- [o \in Order |-> [k \in SKU |-> resv[o][k].shipped]]

\* Every command moves units as the ledger allows: none is promised twice,
\* none leaves but to the order it was held for, and reservations break only
\* when a count leaves nothing free.
ImplementsLedger == Ledger!Spec

-----------------------------------------------------------------------------
(* Claims of the repository's documents and scripts that the code breaks.  *)

\* operational-integrity.mjs calls an assignment invalid unless its order is
\* confirmed, has no open cancellation request and holds unshipped units.
AssignmentHasWork ==
  \A o \in Order : assignee[o] # NoWorker =>
    /\ orderStatus[o] = "confirmed"
    /\ o \notin pendingCancel
    /\ HasRemaining(o)

\* Stock on hand of a SKU does not change while it is being counted.
CountFreezesStock ==
  [][\A k \in SKU : counting[k] /\ counting'[k] => onHand'[k] = onHand[k]]_vars

=============================================================================
