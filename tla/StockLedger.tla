---------------------------- MODULE StockLedger ----------------------------
(***************************************************************************)
(* What the stock of a warehouse promises, with no order, cancellation or  *)
(* worker in sight: each unit of a SKU is free, held by one order, or gone *)
(* to the customer of one order.  Fulfillment implements this module.      *)
(***************************************************************************)
EXTENDS Naturals

CONSTANTS
  Order,
  SKU

VARIABLES
  free,   \* free[k]: units nobody has a claim on
  held,   \* held[o][k]: units reserved for order o
  gone    \* gone[o][k]: units shipped to order o

ledger == <<free, held, gone>>

Init ==
  /\ free = [k \in SKU |-> 0]
  /\ held = [o \in Order |-> [k \in SKU |-> 0]]
  /\ gone = [o \in Order |-> [k \in SKU |-> 0]]

OnlyOrder(o) ==
  \A p \in Order \ {o} : held'[p] = held[p] /\ gone'[p] = gone[p]

\* Free units become units of one order.
Commit(o) ==
  /\ OnlyOrder(o)
  /\ gone'[o] = gone[o]
  /\ \A k \in SKU : /\ held'[o][k] >= held[o][k]
                    /\ free'[k] + held'[o][k] = free[k] + held[o][k]

\* An order gives back everything it holds.
Return(o) ==
  /\ OnlyOrder(o)
  /\ gone'[o] = gone[o]
  /\ \A k \in SKU : /\ held'[o][k] = 0
                    /\ free'[k] = free[k] + held[o][k]

\* Units leave for the customer they were held for, never out of free stock.
Dispatch(o) ==
  /\ OnlyOrder(o)
  /\ free' = free
  /\ \A k \in SKU : /\ gone'[o][k] >= gone[o][k]
                    /\ held'[o][k] + gone'[o][k] = held[o][k] + gone[o][k]

\* Stock is delivered or corrected without touching what orders hold.
Restock ==
  /\ free' \in [SKU -> Nat]
  /\ UNCHANGED <<held, gone>>

\* A count finds less than the orders hold: some of them lose units of this
\* SKU, and then nothing of it is left free.
Shortfall(k) ==
  /\ free' = [free EXCEPT ![k] = 0]
  /\ gone' = gone
  /\ \A o \in Order : /\ held'[o][k] <= held[o][k]
                      /\ \A j \in SKU \ {k} : held'[o][j] = held[o][j]

Next ==
  \/ \E o \in Order : Commit(o) \/ Return(o) \/ Dispatch(o)
  \/ Restock
  \/ \E k \in SKU : Shortfall(k)

Spec == Init /\ [][Next]_ledger

=============================================================================
