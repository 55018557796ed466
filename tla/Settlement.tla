----------------------------- MODULE Settlement -----------------------------
(***************************************************************************)
(* The money of one customer: the ledger entries that shipments, return    *)
(* credits and refunds post (order.service.ts, return.service.ts), the     *)
(* monthly settlements made of them, and the payments that are allocated   *)
(* to settlements, refunded or voided (receivable.service.ts).             *)
(*                                                                         *)
(* Allocations, payment refunds, voids, drafts and finalizing are one step *)
(* each: they lock the payment, the settlement or the month they decide    *)
(* on.  A command that posts an entry is two steps: it writes the entry,   *)
(* dated by the settlements it sees at that moment and no lock keeps as    *)
(* they are, and it commits.  A draft in between does not see the entry.   *)
(*                                                                         *)
(* A date is its month.  Customers do not meet: drafting locks customer    *)
(* and month, and an allocation across customers is refused.               *)
(***************************************************************************)
EXTENDS Integers, FiniteSets

CONSTANTS
  Entry,      \* rows of receivable_entries that may be posted
  Payment,    \* rows of payments that may be recorded
  NumMonths,  \* bound: months of the calendar; the last is only carried into
  MaxAmount   \* bound: largest amount of an entry or a payment

ASSUME SettlementAssumption ==
  /\ IsFiniteSet(Entry)
  /\ IsFiniteSet(Payment)
  /\ NumMonths \in Nat \ {0, 1}
  /\ MaxAmount \in Nat

Month == 1..NumMonths
Amount == 1..MaxAmount

VARIABLES
  today,      \* the month of CURRENT_DATE
  kind,       \* receivable_entries.entry_type, "none" before it is posted
  amount,     \* the size of its amount; a credit counts negative
  month,      \* the month of its business_date
  source,     \* the shipment a credit is for, the credit a refund is of
  open,       \* entries written by transactions that have not committed
  status,     \* settlements.status of a month, "none" without a row
  lines,      \* settlement_lines: the entries in the settlement of a month
  payment,    \* payments.status, "none" before it is recorded
  paid,       \* payments.amount
  allocated,  \* payment_allocations.amount, 0 without a row
  reversed,   \* allocations with a row in payment_allocation_reversals
  refunded    \* sum of refunds.amount of a payment

entryVars == <<kind, amount, month, source, open>>
settlementVars == <<status, lines>>
paymentVars == <<payment, paid, allocated, reversed, refunded>>
vars == <<today, entryVars, settlementVars, paymentVars>>

-----------------------------------------------------------------------------
\* The sum of f[x], each at most MaxAmount, over x in S: its units counted.
Units(S, f) == {u \in S \X Amount : u[2] <= f[u[1]]}
Sum(S, f) == Cardinality(Units(S, f))

Of(k, e) == {x \in Entry : kind[x] = k /\ source[x] = e}
Credited(s) == Sum(Of("credit", s), amount)
CreditRefunded(c) == Sum(Of("refund", c), amount)

\* What a settlement asks for: shipments and refunds less credits.
Charges(m) == {e \in lines[m] : kind[e] # "credit"}
Credits(m) == {e \in lines[m] : kind[e] = "credit"}
Due(m) == Sum(Charges(m), amount) - Sum(Credits(m), amount)

\* Allocations that have not been reversed.
Live(p, m) == IF <<p, m>> \in reversed THEN 0 ELSE allocated[p][m]
Used(p) == Sum(Month, [m \in Month |-> Live(p, m)])
Settled(m) == Sum(Payment, [p \in Payment |-> Live(p, m)])

\* Mutant of Unspent: what was refunded is spent again.
UnspentOfPaid(p) == paid[p] - Used(p)

Unspent(p) == paid[p] - Used(p) - refunded[p]

\* Mutant of Outstanding: payments of others are not looked at.
OutstandingInFull(m) == Due(m)

Outstanding(m) == Due(m) - Settled(m)

\* Mutant of Refundable: earlier refunds of the credit are not looked at.
RefundableAgain(c) == amount[c]

Refundable(c) == amount[c] - CreditRefunded(c)

-----------------------------------------------------------------------------
Init ==
  /\ today = 1
  /\ kind = [e \in Entry |-> "none"]
  /\ amount = [e \in Entry |-> 0]
  /\ month = [e \in Entry |-> 1]
  /\ source = [e \in Entry |-> e]
  /\ open = {}
  /\ status = [m \in Month |-> "none"]
  /\ lines = [m \in Month |-> {}]
  /\ payment = [p \in Payment |-> "none"]
  /\ paid = [p \in Payment |-> 0]
  /\ allocated = [p \in Payment |-> [m \in Month |-> 0]]
  /\ reversed = {}
  /\ refunded = [p \in Payment |-> 0]

NextMonth ==
  /\ today + 1 < NumMonths
  /\ today' = today + 1
  /\ UNCHANGED <<entryVars, settlementVars, paymentVars>>

\* An entry is written; only its own transaction sees it until it commits.
Post(e, k, a, m, from) ==
  /\ kind[e] = "none"
  /\ kind' = [kind EXCEPT ![e] = k]
  /\ amount' = [amount EXCEPT ![e] = a]
  /\ month' = [month EXCEPT ![e] = m]
  /\ source' = [source EXCEPT ![e] = from]
  /\ open' = open \cup {e}
  /\ UNCHANGED <<today, settlementVars, paymentVars>>

Committed(e) == kind[e] # "none" /\ e \notin open

\* A shipment line is charged on the day it ships.
Ship(e, a) == Post(e, "shipment", a, today, e)

\* Mutant of CreditMonth: a credit is dated today.
CreditToday(s) == today

\* The month of a credit: the next one if its shipment is in a finalized settlement.
CreditMonth(s) ==
  IF \E m \in Month : status[m] = "finalized" /\ s \in lines[m] THEN today + 1 ELSE today

\* Goods that came back are credited, at most what was charged for them (the
\* inspected quantity is at most the shipped one).  The shipment line is locked
\* until the commit.
Credit(e, s, a) ==
  /\ kind[s] = "shipment" /\ Committed(s)
  /\ Of("credit", s) \cap open = {}
  /\ Credited(s) + a <= amount[s]
  /\ Post(e, "credit", a, CreditMonth(s), s)

\* Money paid back for a credit is charged again, on the date given, or in the
\* month after it if the settlement of that month is finalized.  The credit is
\* locked until the commit.
RefundCredit(e, c, a, m) ==
  /\ kind[c] = "credit" /\ Committed(c)
  /\ Of("refund", c) \cap open = {}
  /\ a <= Refundable(c)
  /\ m < NumMonths
  /\ Post(e, "refund", a, IF status[m] = "finalized" THEN m + 1 ELSE m, c)

Commit(e) ==
  /\ e \in open
  /\ open' = open \ {e}
  /\ UNCHANGED <<today, kind, amount, month, source, settlementVars, paymentVars>>

\* A later statement of the command fails: the entry never was.
Rollback(e) ==
  /\ e \in open
  /\ open' = open \ {e}
  /\ kind' = [kind EXCEPT ![e] = "none"]
  /\ amount' = [amount EXCEPT ![e] = 0]
  /\ month' = [month EXCEPT ![e] = 1]
  /\ source' = [source EXCEPT ![e] = e]
  /\ UNCHANGED <<today, settlementVars, paymentVars>>

\* Mutant of Unsettled: money paid back for credits is not asked for.
UnsettledTrade(m) ==
  {e \in Entry : Committed(e) /\ kind[e] # "refund" /\ month[e] = m
                   /\ \A x \in Month : e \notin lines[x]}

\* The entries of the month that no settlement has yet; a month has one
\* settlement, drafted once.
Unsettled(m) ==
  {e \in Entry : Committed(e) /\ month[e] = m /\ \A x \in Month : e \notin lines[x]}

\* Mutant of Draft: entries that come late join the settlement there is.
DraftAgain(m) ==
  /\ Unsettled(m) # {}
  /\ status' = [status EXCEPT ![m] = IF @ = "none" THEN "draft" ELSE @]
  /\ lines' = [lines EXCEPT ![m] = @ \cup Unsettled(m)]
  /\ UNCHANGED <<today, entryVars, paymentVars>>

Draft(m) ==
  /\ status[m] = "none"
  /\ Unsettled(m) # {}
  /\ status' = [status EXCEPT ![m] = "draft"]
  /\ lines' = [lines EXCEPT ![m] = Unsettled(m)]
  /\ UNCHANGED <<today, entryVars, paymentVars>>

Finalize(m) ==
  /\ status[m] = "draft"
  /\ status' = [status EXCEPT ![m] = "finalized"]
  /\ UNCHANGED <<today, entryVars, lines, paymentVars>>

RecordPayment(p, a) ==
  /\ payment[p] = "none"
  /\ payment' = [payment EXCEPT ![p] = "recorded"]
  /\ paid' = [paid EXCEPT ![p] = a]
  /\ UNCHANGED <<today, entryVars, settlementVars, allocated, reversed, refunded>>

\* A payment is allocated to a settlement once (UNIQUE), within what is left of
\* the payment and what is still due.
Allocate(p, m, a) ==
  /\ payment[p] = "recorded"
  /\ status[m] = "finalized"
  /\ allocated[p][m] = 0
  /\ a <= Unspent(p)
  /\ a <= Outstanding(m)
  /\ allocated' = [allocated EXCEPT ![p][m] = a]
  /\ UNCHANGED <<today, entryVars, settlementVars, payment, paid, reversed, refunded>>

RefundPayment(p, a) ==
  /\ payment[p] = "recorded"
  /\ a <= Unspent(p)
  /\ refunded' = [refunded EXCEPT ![p] = @ + a]
  /\ UNCHANGED <<today, entryVars, settlementVars, payment, paid, allocated, reversed>>

Allocations(p) == {<<p, m>> : m \in {x \in Month : allocated[p][x] > 0}}

\* Voiding a payment reverses all its allocations; not once part is refunded.
VoidPayment(p) ==
  /\ payment[p] = "recorded"
  /\ refunded[p] = 0
  /\ payment' = [payment EXCEPT ![p] = "voided"]
  /\ reversed' = reversed \cup Allocations(p)
  /\ UNCHANGED <<today, entryVars, settlementVars, paid, allocated, refunded>>

Next ==
  \/ NextMonth
  \/ \E e \in Entry : Commit(e) \/ Rollback(e)
  \/ \E e \in Entry, a \in Amount :
       \/ Ship(e, a)
       \/ \E x \in Entry : Credit(e, x, a) \/ \E m \in Month : RefundCredit(e, x, a, m)
  \/ \E m \in Month : Draft(m) \/ Finalize(m)
  \/ \E p \in Payment : VoidPayment(p)
  \/ \E p \in Payment, a \in Amount :
       \/ RecordPayment(p, a)
       \/ RefundPayment(p, a)
       \/ \E m \in Month : Allocate(p, m, a)

Spec == Init /\ [][Next]_vars

-----------------------------------------------------------------------------
TypeOK ==
  /\ today \in 1..(NumMonths - 1)
  /\ kind \in [Entry -> {"none", "shipment", "credit", "refund"}]
  /\ amount \in [Entry -> 0..MaxAmount]
  /\ month \in [Entry -> Month]
  /\ source \in [Entry -> Entry]
  /\ open \subseteq Entry
  /\ status \in [Month -> {"none", "draft", "finalized"}]
  /\ lines \in [Month -> SUBSET Entry]
  /\ payment \in [Payment -> {"none", "recorded", "voided"}]
  /\ paid \in [Payment -> 0..MaxAmount]
  /\ allocated \in [Payment -> [Month -> 0..MaxAmount]]
  /\ reversed \subseteq Payment \X Month
  /\ refunded \in [Payment -> 0..MaxAmount]

\* However payments are allocated, refunded and voided, no payment is used
\* beyond its amount (overallocated_payments of the integrity check).
PaymentsNotOverused ==
  \A p \in Payment : Used(p) + refunded[p] <= paid[p]

\* A voided payment pays for nothing and has given nothing back: all that was
\* allocated from it is due again.
VoidedPaymentsHoldNothing ==
  \A p \in Payment : payment[p] = "voided" => Used(p) = 0 /\ refunded[p] = 0

\* The payments allocated to a settlement never exceed what it asks for, also
\* when several payments share it and some are voided.
SettlementsNotOverpaid ==
  \A m \in Month : Settled(m) > 0 => Settled(m) <= Due(m)

\* A credit is paid back at most once over, whatever months the refunds fall in
\* (overrefunded_return_credits of the integrity check).
CreditsNotOverrefunded ==
  \A c \in Entry : kind[c] = "credit" => CreditRefunded(c) <= amount[c]

\* A credit written for goods already settled never falls into the month that settled
\* them or an earlier one: it is an adjustment of a later month.
CreditsAdjustLaterMonths ==
  [][\A e, s \in Entry, m \in Month :
       (kind[e] = "none" /\ kind'[e] = "credit" /\ source'[e] = s
          /\ status[m] = "finalized" /\ s \in lines[m])
         => month'[e] > m]_vars

\* The book of payments this module implements.
Free == [p \in Payment |-> IF payment[p] = "recorded" THEN Unspent(p) ELSE 0]
Given == [p \in Payment |-> [m \in Month |-> Live(p, m)]]
Billed == {m \in Month : status[m] = "finalized"}
Owed == [m \in Month |-> IF m \in Billed THEN Outstanding(m) ELSE 0]

Book == INSTANCE PaymentBook WITH
  Bill <- Month,
  state <- payment,
  free <- Free,
  given <- Given,
  back <- refunded,
  billed <- Billed,
  owed <- Owed

\* Allocations, refunds, reversals and ledger entries move money as the book
\* allows: it is in one place, a void gives each settlement back exactly what
\* it had, and whatever is posted, committed or rolled back meanwhile, what a
\* finalized settlement still asks for moves with payments alone.
ImplementsPaymentBook == Book!Spec

\* Entries no settlement has and none will take: a month is settled once.
LeftOut(e) == Committed(e) /\ status[month[e]] # "none" /\ e \notin lines[month[e]]

\* An entry is left out only by its own commit, when the month it was dated into
\* has been drafted meanwhile: a draft takes every entry it can see.  What is
\* settled is settled for good, and in one month (docs/architecture/
\* transaction-and-module-design.md:113: nothing is attributed twice).
OnlyLateCommitsAreLeftOut ==
  [][/\ \A m \in Month : lines[m] \subseteq lines'[m]
     /\ \A m, x \in Month : m # x => lines'[m] \cap lines'[x] = {}
     /\ \A e \in Entry : LeftOut(e)' => LeftOut(e) \/ e \in open]_vars

\* docs/architecture/transaction-and-module-design.md:113: when credits and the
\* monthly closing compete no credit is left out.
NoCreditLeftOut ==
  \A e \in Entry : kind[e] = "credit" => ~LeftOut(e)

=============================================================================
