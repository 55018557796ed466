# Verification of B2B-STM

B2B-STM takes orders of business customers, reserves stock for them, ships from a
warehouse, takes goods back, and settles the money by month. This directory holds TLA+
models of its server, TLC configurations that check them on small instances, and proofs,
checked by TLAPS, that the core properties hold for every size.

## 1. The system

A NestJS API (`src/apps/api`) over PostgreSQL 16 at READ COMMITTED, and a Next.js client
(`src/apps/web`). All lasting state is in the database; several API processes may run.
The state-changing commands share one shape: BEGIN, take an advisory lock on
`actor:command:requestId`, answer from `command_results` if the command was done before,
otherwise lock the rows it decides on with `FOR UPDATE`, check, write, store the response
in the same transaction, COMMIT; any error rolls the whole transaction back. Section 6 names
the handlers that keep no request ids.

| Component | State | Operations | What makes it correct |
|---|---|---|---|
| Orders, allocation (`orders/order.service.ts`) | orders, order_lines, reservations | submit, confirm, allocate, cancel, requestCancellation, reviewCancellation | no unit is promised twice; line, reservation and balance agree |
| Shipment work (same file) | shipment_work_assignments, shipment_work_lines, shipments | claim, release, setPicked, setInspected, ship | only inspected units of a confirmed order leave; carts never outlive reservations |
| Stock counts (`stock-counts/`) | stock_counts | start, finalize, cancel | nothing moves under a count; a shortage falls on the newest orders |
| Stock (`catalog/`, `imports/`) | inventory_balances, inventory_movements | receipt, adjustment, initial import | never below what is reserved; balance is the sum of movements |
| Idempotent commands (`stored` in each service) | command_results | every command | a request takes effect once and answers the same |
| Settlement (`receivables/`) | receivable_entries, settlements, payments, allocations, refunds | draft, finalize, payment, allocate, refund, voidPayment | no entry is left out; no money is used twice |
| Returns (`returns/`) | returns, inspections, dispositions, credits | request, inspect, defectDisposition, resolveDefect, credit | never more than shipped; credited tax sums to charged tax |
| Notifications (`notifications/`) | notification_outbox | insert with the command, claim, send, retry | each mail is sent at least once or visibly failed |
| Delivery (`updateDelivery`) | shipment_deliveries, its events | schedule, dispatch, deliver, fail | the events tell how the status came about |
| Web pages (`apps/web/src/app/`) | busy flag, form, last view | a control is used, an answer or an error arrives | what a user wanted once is confirmed once; a page recovers |
| Identity (`identity/`) | users, sessions, tokens, MFA, login_failures | login, guard, MFA, invite, reset, status | live sessions and tokens are current; what ended stays ended; somebody can administer |
| Attachments (`attachments/`) | business_attachments | upload | at most five per record |
| Queries, analytics, audit, exports | none | read only | - |

Components interact through shared rows. Orders, counts, receipts, returns and imports meet
at `inventory_balances`; shipments and returns write the entries settlement reads; orders,
shipments and settlements insert into the outbox inside their transactions.

The hard behaviours: commands of many users interleave at transaction boundaries, and a
worker's job spans five commands that other commands may come between; reservations are
released, revived, shortened and partly shipped in any order; a count may break
reservations of several orders; a few commands read without locks; responses are lost and
commands repeated; the mail worker crashes between its steps; locks are taken in different
orders. `PROJECT.json` lists each hazard at its line under `hazards`.

## 2. Plan

In this order, the most important behaviour first.

1. `Fulfillment`: orders, reservations, shipment work, cancellation, counts, stock.
   Abstract specification `StockLedger`.
2. `Settlement`: entries, drafting and finalizing by month, payments, allocations, refunds,
   voids, with the date rules of shipments, credits and refunds. Abstract specification
   `PaymentBook`.
3. `Outbox`: claims with a lease, a send outside the transaction, crash, takeover, retry;
   liveness under the fairness of the timer. Abstract specification `AtLeastOnce`.
4. `Commands`: a control of a page, a request with an id, the stored response, lost answers
   and repeated requests, with delivery tracking as the command written out. Abstract
   specification `AtMostOnce`.
5. `Returns`, `Shelf`, `Attachments`: what comes back within what was shipped, with its tax;
   the balance and its ledger statement by statement; the files kept with a return.
6. `Accounts`, `Throttle`: sessions, tokens, second factor, administrators; failed logins.

All six are done, and every safety property that holds is proved. Left: `LockOrder`, the row
locks of each command in the order it takes them, and who may wait for whom. A deadlock ends
as a rollback, which the models have, so it would say which users see a failure rather than
whether anything is wrong afterwards.

Modules that are proved about use no RECURSIVE operator; sums are cardinalities or folds.

## 3. Fulfillment: model and code

State variables are the columns the commands decide on:

| Variable | Code |
|---|---|
| `orderStatus`, `requested`, `lineReserved` | `orders.status`, `order_lines.requested_quantity`, `.reserved_quantity` |
| `resv[o][k]` | the row of `reservations` for the line (`order_line_id` is UNIQUE): status, quantity, shipped_quantity; `none` when there is no row |
| `picked`, `inspected` | `shipment_work_lines` |
| `assignee` | `shipment_work_assignments` (`NoWorker`: no row) |
| `pendingCancel` | orders with an `order_cancellation_requests` row in status `submitted` |
| `stocked`, `onHand`, `reserved` | `inventory_balances`: the row exists, its two quantities |
| `counting` | a `stock_counts` row in status `counting` for the SKU |
| `importing` | SKUs that an open import transaction has read as empty |
| `unlocked` | SKUs for which a receipt or return has looked for a row to lock, and found none |

An action is one committed command, with every guard and every write of the command.
A transaction that fails a guard is rolled back and is no step. This is what the code gives:
the order row is locked first by confirm, allocate, claim, pick, inspect, cancel and the two
cancellation commands, and together with its reservations by ship; the balance row is locked
before the count in progress is looked at, and starting and finalizing a count lock the same
row. Where a command reads something it has not locked (claim and the first look of allocate
at counts in progress) the command commutes with whatever may slip in between: it writes
nothing the other reads. Two kinds of commands are exceptions, and two actions each with
other commands between. `analyze` of an import reads balances without a lock and `apply`
overwrites later. And a receipt's `SELECT ... FOR UPDATE` locks nothing while the balance has
no row (`FindNoRow`): another command may create the row and a count may start on it before
the `INSERT ... ON CONFLICT` (`Receive`). `inspect` of a return has the same statements,
though its goods have left from a row. How many receipts are open at once is not kept:
`Receive` may follow `FindNoRow` any number of times.

`submit`, `confirm`, `allocate`, `claimShipmentWork`, `releaseShipmentWork`,
`setPickedQuantities`, `setInspectedQuantities`, `ship`, `cancel`, `requestCancellation` and
`reviewCancellation` are `Submit`, `Confirm`, `Allocate`, `ClaimWork`, `ReleaseWork`, `Pick`,
`Inspect`, `Ship`, `Cancel`, `RequestCancellation`, `ApproveCancellation` and
`RejectCancellation`; the count commands `StartCount`, `FinalizeCount`, `CancelCount`;
`receipt` and `adjustment` are `Receive` and `Adjust`; the import is `ReadImport` and
`ApplyImport`. `NewestFirst` is the loop of finalize that takes a shortage reservation by
reservation: `left[o]` is what is still short when the loop comes to order `o`, from the
newest down; each order gives the smaller of that and what it holds. That the cuts sum to the
shortage and spare an order as long as a newer one has units left is not stated there: it is
checked (`ShortfallFallsOnNewest`, `ImplementsLedger`) and proved of the loop.

Abstractions. One warehouse: the locks and balances of two warehouses never meet. Orders
are numbered in order of creation, which is the order finalize uses. Prices, the receivable
entry of a shipment, delivery records, event tables, versions and notifications are left out:
nothing here reads them. A replay changes nothing here; how one comes about is in `Commands`.
One import at a time is open per SKU. A return that restocks normal units acts on the
balance as `Receive` does. What the statements of such commands wait for, one by one, while
a balance row does not exist yet is in `Shelf`. That a command whose second line is refused
leaves nothing of its first is the rollback of `transaction` (`order.service.ts:64-77`),
which the models take for granted.

`StockLedger` says what all this is for: each unit is free, held by one order or gone to its
customer; orders get units only from free stock, give back all or have them dispatched, and
lose them only to a count that leaves nothing free. `Ledger` is the refinement mapping
(`free` = on hand minus reserved, `held` = remaining of active reservations, `gone` =
shipped), `ImplementsLedger` the property.

## 4. Settlement: model and code

| Variable | Code |
|---|---|
| `kind`, `amount`, `month`, `source` | a row of `receivable_entries`: type, size, month of `business_date`, the shipment or credit it refers to |
| `open` | entries that an open transaction has written |
| `status`, `lines` | the row of `settlements` of a month, its `settlement_lines` |
| `payment`, `paid` | `payments.status`, `.amount` |
| `allocated`, `reversed` | `payment_allocations`, `payment_allocation_reversals` |
| `refunded` | the sum of `refunds` of a payment; refunds of credits are entries |
| `today` | the month of `CURRENT_DATE` |

`draft`, `finalize`, `payment`, `allocate`, `refund` of a payment and `voidPayment` are one
action each (`Draft`, `Finalize`, `RecordPayment`, `Allocate`, `RefundPayment`, `VoidPayment`):
they hold the row of the payment or settlement, or the advisory lock of customer and month,
that they decide on. Commands that post an entry are two steps. `Ship`, `Credit` and
`RefundCredit` write it, dated by settlements they read and do not lock; `Commit` makes it
visible, `Rollback` takes it back. What they do lock, the shipment line or the credit, is
locked until the commit: `Of(...) \cap open = {}`.

Abstractions. One customer: drafts lock customer and month, and an allocation across
customers is refused. A date is its month, and the current date is read when the entry is
written; PostgreSQL takes it at the start of the transaction, which lives for milliseconds.
Amounts are positive (a price may be 0: such entries change no sum). The amount of a credit
is any that keeps the credits of a shipment line within its charge: that is what the
inspected quantity and the running tax give: `CreditsStayWithinCharge` proves it of
`Returns`, whatever the price. Totals, due dates, references and request ids are left out.

`PaymentBook` is what a customer's payments are, with no entry, draft or reversal in sight:
money that is free, stands for a bill or was given back, and bills that ask for a fixed
amount less what stands for them. `Book` is the refinement mapping (`Free`, `Given`,
`Billed`, `Owed`), `ImplementsPaymentBook` the property. It says more than the bounds on sums:
a bill, once sent, moves by payments alone, although entries of its month are still posted,
and a void returns to each bill exactly what the payment stood for.

## 5. Outbox: model and code

| Variable | Code |
|---|---|
| `status`, `attempts` | columns of `notification_outbox`; `none` before the insert |
| `lease` | `locked_at`: NULL, younger or older than five minutes |
| `due` | `next_attempt_at` is NULL or has passed |
| `worker[p]` | how far `processDue` of an API process is, on which row, with which `item.attempts`; `Idle` between rounds, `Down` when the process has died or a database error has ended its round |
| `mails` | what the mail server has taken |
| `retries`, `excuses`, `crashes` | counters the properties and bounds need |

`Claim` is the first transaction, `Accept`, `Refuse` and `LoseReply` the outcomes of
`sendMail`, `RecordSent` and `RecordFailed` the UPDATE that follows. Neither UPDATE asks who
holds the row, so a late one meets whatever the row has become. `LoseRecord` is the case that
the UPDATE to `sent` throws: it stands inside the `try`, so a delivered mail is recorded as
failed. `FailureRejected` is the UPDATE to `failed` on a row another process has marked sent:
a CHECK of the table refuses it, and the exception leaves `processDue`. `LeaseEnds` and
`BackoffEnds` are the passing of time, `Retry` an administrator's retry.

Abstractions. Time is two facts of a row. The order of claims is not kept, since SKIP LOCKED
passes over rows, and a round is not cut off after 20 rows: the timer starts the next. The
body of a mail is left out. `running` is implied: a process has one `worker` state.

`AtLeastOnce` is what recipients are promised: a copy is delivered only when wanted, another
one only when there was an excuse to send again, and what is reported as sent was delivered
and stays reported. `Asked` and `Reported` are read off `status`, copies and excuses are
`mails` and `excuses`; `ImplementsAtLeastOnce` is the property. It implies
`SentMeansDelivered`, `SentIsFinal` and `DuplicatesExplained`, which are proved on their own
as well: the first and the last are invariants its proof rests on.

## 6. Commands: model and code

One request travels from a control of a page to the database and back. Delivery tracking
(`updateDelivery`) is the command written out, as the one with the richest row; commands a
row allows once, and commands it allows again and again, stand for the others (`Move`,
`Starts`, `Ends`).

| Variable | Code |
|---|---|
| `status` | `shipment_deliveries.status`, or whether a row is still open for its command |
| `stored` | `command_results`: for a request id, the attempt whose response is kept |
| `done` | attempts whose writes are committed; for a delivery, `shipment_delivery_events` |
| `request`, `phase`, `reply` | what an HTTP request asks for under which id, how far its transaction is, whose effect its answer reports |
| `page`, `busy`, `entry` | the kind of page, its `busy` state, a form that is filled |
| `heard`, `wishes` | what the page knows of a request; how often its user filled the form |

`Key` is the advisory lock on the id and the empty `command_results`, `Replay` the stored
response, `Lock` the `SELECT ... FOR UPDATE` with the guards on the status, `Commit` the
writes, the response and COMMIT (also the one whose confirmation is lost), `Abort` a rollback
at any point. `Click` is a control: it makes a new id (`crypto.randomUUID()`) every time.
`Hear` is the answer, `LoseAnswer` a `fetch` that throws, whatever the server does. `Resend`
is a caller that keeps its id, as `README.md:25` and
`docs/changes/2026-09-10-response-loss-api-restart.md` have it; the pages of this repository
do not, so a click after a lost answer is a new request.

Pages differ in four things, read off each page: whether they disable their controls while a
command is out (`guards`), enable them again when `fetch` throws (`frees`), clear the form or
remove the control after a good answer (`clears`), and whether the handler keeps request ids
at all (`keeps`). `ConfirmedWereWanted` speaks of pages that guard and clear, `PagesRecover`
of those that free. The receipt and payment forms and the drafts do not guard; accounts and
return credits set `busy` outside of `try`; the shipment work and inspection forms stay
filled. `InspectionPage` has a single busy id for all of its rows, so a click on a second row
enables the first again. The handlers that keep no ids are the catalog's and the prices',
drafting and finalizing settlements, imports, accounts and attachments.

`AtMostOnce` is what a caller with an id relies on: an effect per id, and answers that name
it. `outcome` and `told` are the refinement mapping, `ImplementsAtMostOnce` the property.

Abstractions. One row and one kind of page at a time. A control may be used when any status
the row has had allows it: the view of a page is as old as its last `load`. A repeated id
repeats the request; a different body under the same id is outside, see section 12.

## 7. Returns, Shelf and Attachments: model and code

`Returns` holds the returns of one shipment.

| Variable | Code |
|---|---|
| `status` | `returns.status` |
| `asked`, `received`, `defective` | quantities of `return_lines`; what is not defective is normal |
| `restocked` | movements of type `return` |
| `inspection`, `disposition`, `resolved` | `return_inspections`, `return_defect_dispositions`, sums of `return_defect_resolutions` |
| `credit` | `return_credits`: units and tax, one per inspection |

`Request`, `Inspect`, `Dispose`, `Resolve` and `Credit` are the five commands of
`return.service.ts`. Each locks the rows whose totals it adds to before it reads the totals,
and so does everybody else who adds to them: a command is one step. `TargetTax` is the
rounding of `credit`, on the running total of the credited units. A count in progress, an
inactive supplier or a missing price refuse a command and change nothing.

`Shelf` takes the balance of one SKU apart: `Look` is the `SELECT ... FOR UPDATE` of a receipt
or a return, which locks nothing if there is no row; `CheckCount` the look for a count,
`Write` the INSERT ... ON CONFLICT, which waits for another's uncommitted row, `Commit` and
`Rollback` the end. `LookToImport` and `Write` are the import, which locks nothing and
overwrites (`Stored`). Adjustments and counts need the row and take its lock: one step each.
`moved` is the sum of `inventory_movements`. Nothing is reserved here, as reservations need a
row that exists; what they do to it is in `Fulfillment`.

The two properties of `Shelf` name what the code leaves open. An import that was analyzed
before a receipt overwrites it, and the ledger then has more than the shelf. A receipt or
return that found no row to lock may commit under a count that started since, as may an import.

`Attachments` is `upload` in `attachment.service.ts`: `Receive`, `Scan` outside of any
transaction, `Count` under the advisory lock of the record, `Store` or `Refuse`. A scanner
is configured: without `attachmentScanner` `assertSafe` lets everything pass, which
`config.ts:44` refuses in production.

## 8. Accounts: model and code

| Variable | Code |
|---|---|
| `account`, `password` | `users.active`, `users.password_hash` is set |
| `factor`, `failed`, `codes` | `mfa_credentials` (off, on, or being enrolled by a session), its failed attempts, `mfa_recovery_codes` left |
| `session` | `sessions`: live, verified, over; and whether it was opened with the password the account still has |
| `token` | `account_tokens`: open, used, over |
| `hashing` | completions between the first look at a token and the transaction that uses it |
| `completed` | the rows of `identity_events` that completions write, by the token they were for |
| `work` | what an administrator who was let through is about to do, and to whom |

`Login`, `EndSession`, `Enroll`, `Confirm`, `Verify`, `Recover`, `Regenerate` and
`FailChallenge` are the commands of a user; `Authorize` is `administrator()` with its
`FOR UPDATE` on the administrator's own rows, `Invite`, `Reissue`, `Activate`, `Deactivate`
and `ResetFactor` what follows, `Abort` a refusal or the victim of a deadlock. Account
commands share one advisory lock (`LifecycleFree`); the reset of a factor is not under it,
so two administrators may each hold their own row and wait for the other's. `Check` and
`Complete` are the two looks at a token, with the hash of the password between them. A second
completion would leave the token as it is, used; `completed` is what tells it.
`ResetAdminPassword` is the script; it leaves open tokens as they are. `Reissue` may name
oneself; `Activate`, `Deactivate` and `ResetFactor` may not.

Abstractions. A password or a code is right or wrong. Accounts are internal with the system
role: the others have fewer of the same steps. Logins that fail are in `Throttle`.

## 9. Throttle: model and code

`failures` is the number of rows of `login_failures` in the last fifteen minutes, for each
e-mail and each address; `checking` the logins between the count and the commit, which hold
both advisory locks while the password is checked. `Enter`, `Fail`, `Succeed` and `Break` are
the login, `Age` is time, `ResetLimits` the script, which takes no lock.

## 10. What is checked

| Run | Instance | Shows |
|---|---|---|
| `fulfillment_one_sku` | 1 SKU, 2 orders, 2 workers, lines up to 2, stock up to 3 | the invariants, the action properties and the ledger; an assignment is stranded by a count and nothing else |
| `fulfillment_two_skus` | 2 SKUs, 2 orders, 1 worker, quantities up to 1 | commands with two lines, each with its own count, are steps of the ledger |
| `settlement` | 3 entries, 2 payments, 3 months, amounts up to 2 | no payment used, no settlement paid beyond its amount; the payment book |
| `settlement_credits` | 4 entries, no payment, 4 months, amounts up to 2 | no credit paid back twice; credits for settled goods fall later; an entry is left out only by committing late |
| `outbox` | 1 notification, 2 processes, 3 attempts, 1 retry, 2 crashes | at-least-once delivery, sends bounded, one stuck row per crash, nothing forgotten |
| `commands` | 2 clients, 3 requests, every kind of page | a request takes effect once, a page recovers, a delivery keeps its life cycle |
| `identity` | 2 administrators, 2 sessions, 2 tokens; 2 e-mails and 2 addresses | live sessions, tokens and administrators under way are current, somebody can administer, failures are bounded |
| `returns` | 2 lines, 2 returns, 3 inspections, 2 dispositions; 3 commands at a shelf; 3 uploads | units and tax add up, the shelf follows its ledger, files within the limit |
| `stranded_assignment` | 1 order, 1 SKU, 2 workers | violated: see below |
| `counted_stock_moves` | 1 order, 1 SKU, 2 workers | violated: see below |
| `credit_left_out` | 3 entries, 1 payment, 3 months | violated: see below |
| `outbox_stuck` | 1 notification, 1 process, 2 attempts, 1 crash | violated: see below |

Bounds of Fulfillment: `NumOrders`, `MaxQty`, `MaxStock`, `MaxUnlocked`. Two orders are enough for one to
take what the other waits for, for a shortage to fall on one and spare the other, and for a
cancellation to feed a later allocation. Lines of two units allow partial reservation,
partial shipment, partial cuts and revival after a part has shipped; stock of three lets the
two orders together want more than there is and still leave something free. Two workers are
all an assignment can tell apart. The second run trades quantities for a second SKU.
`Receive` alone is limited by `MaxStock`; the code has no such limit. `MaxUnlocked`, the SKUs
for which a receipt finds no row, is 1 where there is one SKU and 0 in the other runs: the
violated properties fail without it, and the second SKU would only repeat the first. Workers, and in the
second run SKUs, are symmetric: no command or property names one.

Bounds of Settlement: `NumMonths`, `MaxAmount`, and the sets of rows. Three entries are a
shipment, its credit and a refund of it, or two months settled and a payment split over both;
two payments share a settlement, and one may be voided while the other stays. The credits run
gives up payments for a fourth entry, a second refund of one credit, and a fourth month. Amounts of two
can be used in parts. The last month is only carried into. Entries, and payments, are
symmetric. TLC stops where all rows are used and the calendar ends: deadlock is not checked.

Bounds of Outbox: `MaxAttempts` is 8 in the code; with three there is a first, a last and one
between, which is what the guard, the backoff and the stale count tell apart. `MaxRetries`
and `MaxCrashes` bound what would go on forever; `MaxCrashes` also says that crashes end,
without which nothing is delivered. Rows do not meet, so one is enough; takeovers need two
processes. The row may rest at `sent` for good: deadlock is not checked.

Bounds of Commands: `NumAttempts`, the requests that reach the network. With three, two
clients act on stale views and a third request repeats one of theirs; or a delivery is
scheduled, dispatched and delivered; or a request meets its own copy that holds the id and a
third one that holds the row. Every kind of page is an initial state. Where the requests are
used up nothing is left to do: deadlock is not checked.

Bounds of Accounts: the sets, and `MaxHashing`. Two administrators act on each other, which is
the least that can lock everybody out; two sessions are one of each, or an older and a newer
one of the same user; two tokens are one that is revoked and its
successor; two completions of one token race each other. `MaxCodes` is 10 and `MaxWrong` 5 in
the code; 1 makes the last recovery code and the locked credential the next step. Users,
sessions and tokens are symmetric. Bounds of Throttle: two e-mails and two addresses, one of
them local, give logins that share one key, both or none; `MaxFailures` is 5 in the code.

Bounds of Returns: the sets, `Shipped`, `Tax` and `MaxUnits`. Three units with a tax of four
cannot share it evenly; two returns compete for them and the second line has to be complete
too; three inspections of one line give three credits. Bounds of Shelf: `MaxStock`; three
commands are two that race to create the row and an import. Bounds of Attachments: with
`MaxFiles` 1 (5 in the code) the second upload meets the limit, and three are an upload that
counts, one that stores and one that waits; one of three contents is infected. `Returns`,
`Shelf` and `Attachments` share no state, nor do `Accounts` and `Throttle`: `MCReturns` and
`MCIdentity` choose a `part` in the initial state and run that one. All sets are used up in
the end: deadlock is not checked.

The type invariants of `Fulfillment`, `Commands`, `Returns`, `Settlement` and `Accounts` say
nothing that is worth a run: they are proved, and so are `SentMeansDelivered`, `SentIsFinal`,
`DuplicatesExplained` and `VoidedPaymentsHoldNothing`, which the refinement checked in the
same run includes. On two cores the longest run takes two minutes (`settlement`), the
shortest of the passing ones eight seconds (`outbox`).

Fairness is assumed in two modules, and only of what no person decides. In Commands
(`Fairness`) a `fetch` is answered or throws, since a connection does not live forever.
The server need not carry anything out, and nobody has to use a control, to repeat a request
or to open a page anew. In Outbox (`Fairness`) the
timer of each process calls `processDue` every 15 seconds (`notification.service.ts:11`),
`sendMail` ends because nodemailer has timeouts, statements end, time passes, and a dead API
process is restarted (`restart: unless-stopped`, `infra/compose.zorin.yml:43`). Weak fairness
is enough, each of these stays possible until it happens. Retries by an administrator carry
no obligation. The other modules have no fairness and no liveness property: every command is
a user's decision.

The violated properties state what the repository says and the code does otherwise:

- `AssignmentHasWork`: `scripts/lib/operational-integrity.mjs:77-85` counts an assignment as
  invalid unless its order still holds unshipped units. `finalize` of a stock count takes the
  units and leaves the assignment.
- `CountFreezesStock`: the documents say every command that changes stock looks for a count in
  progress after locking the balance; the initial import does neither.
- `NoCreditLeftOut`: the documents demand that no credit is left out when it competes with the
  monthly closing. A month is drafted once; a credit that is not yet committed then, or is
  written before the month is finalized, is dated into it and no settlement ever takes it.
- `StuckIsRecovered`: the release note says rows stuck in processing are taken again. The
  limit on attempts also guards that branch, and a manual retry takes only failed rows, so a
  crash in the last attempt leaves the row in processing.

Every property of a passing run has a mutant in `PROJECT.json`: an operator of the code with
a plausible bug (for instance `AvailableTwice`, `OldestFirst`, `UpdateStale`,
`DraftAgain`) that makes TLC refute the property under the same configuration. The
mutants stand next to what they mutate, and nothing uses them.

## 11. What is proved

Every safety property of the passing runs is proved for all values of the constants; nothing
is assumed beyond the named assumption of each module.

### Fulfillment

`FulfillmentProofs` and `FulfillmentRefinement` hold the proofs. The only assumption is `FulfillmentAssumption`: the number of
orders and the stock bound are naturals, the quantity bound is positive, `NoWorker` is no
worker. Nothing is assumed of `SKU` and `Worker`: they may be infinite or empty.

The inductive invariant `IInv` is the conjunction of the type invariant and six properties.
None of them is inductive alone. `BalanceMatchesReservations` needs
`LineMatchesReservation` (what a command gives a line fits its request, so the
sum grows by exactly that) and the types; `LineMatchesReservation` at a revival needs the
status and quantities of the released reservation; `WorkWithinReservation` survives a count
only because `NoPicksAt` holds at finalize, and a cancellation because of `DropWork`;
`PendingCancellationStopsWork` and `OnlyConfirmedOrdersHoldStock` hold each other up: ship
does not look at the order's status.

Sums over orders are sizes of sets of units (`Total`), so their laws are facts about finite
sets: `UnitsFinite`, `TotalSingle`, `TotalMinus`, `TotalGrows`, `TotalZero`. For each command
that moves units, an `...Effect` lemma says what it does to one line, a `...KeepsIInv` lemma
that the invariant survives, a `Ledger...` lemma that it is a step of the ledger. `NextIInv`
and `LedgerStep` put the commands together, and the theorems follow by temporal reasoning.

`Invariance`, `TypeCorrect`, `BalanceCorrect`, `LineCorrect`, `WorkCorrect`,
`CountedShelvesCorrect`, `CancellationCorrect`, `OrdersCorrect`, `ShippedFinal`, `CountFreezes`,
`OnlyCountsStrand`, `ShortfallOrder` and `Refinement` are the theorems. `OnlyCountsStrand`
encloses the first violated property: `finalize` is the only command that leaves a worker
with an order that holds nothing. `CountFreezes` encloses the second: the stock of a SKU under
count is changed by no command but an import that was analyzed before and a receipt that found
no row to lock, and the latter only adds to it.

The loop of finalize is proved about as a loop. A set of orders has a smallest one
(`LeastOrder`, from the well-foundedness of the naturals), so a first iteration that breaks a
claim would contradict the one before it. This gives that the shortage never grows on the way
(`ShortageFalls`) and that the orders the loop has not come to yet will give exactly what is
still short (`ShortageIsTaken`). `LoopTakesShortage` concludes what `ShortfallOrder` and
`Refinement` need: an order gives at most what it holds, the cuts sum to the shortage, and who
gives anything has no newer order that keeps something.

### Settlement

`SettlementProofs` assumes `SettlementAssumption`: finitely many entries and payments, at
least two months, a bound on amounts. Sums are again sizes of sets (`Sum`, over units up to
`MaxAmount`), with the laws `UnitsFinite`, `SumMonotone`, `SumGrows`, `SumZero`, `SumSame`.

`PaymentsInv` joins `PaymentsNotOverused` and `VoidedPaymentsHoldNothing`: that a void leaves
nothing in use follows from its reversals, that it gave nothing back from its guard, and the
first conjunct is what an allocation or refund adds to (`SumsAllocate`, `SumsVoid`).
`LedgerInv` says that settled entries are committed and of the month that settled them, that
no shipment is dated ahead, that refunds are of committed credits, and that allocations go to
finalized settlements. From it follow `CreditsAdjustLaterMonths`; that a settlement's due
amount never changes once it has allocations (`SettledEntriesStand`, `DueStands`), which
`SettlementsNotOverpaid` needs; and that a credit with refunds is never rolled back, which
`CreditsNotOverrefunded` needs.

`SettlementMissesOnlyLateCommits` encloses the violated `NoCreditLeftOut`: an entry is left out
of its month only by the step that commits it, when the month is drafted already. A draft takes
every committed entry of its month, so what it leaves is open (`LeftOutStep`); an entry that is
dated anew is still open, and a settlement with lines has a row (`DraftedHaveRows`), so a first
draft finds none. Lines are never taken out, and no entry is in two settlements.

The refinement rests on all of these. What is free and what is owed are differences of sums
over other rows, so the work is to say how a step moves them: `AllocationMoves` and
`VoidMoves` for the live allocations, `OwedMoves` for what a settlement asks for, which
`OwedStands` shows that no entry, draft or finalization of another month changes, since
settled entries are committed and a finalized settlement keeps its lines. A void splits the
allocations to a settlement into those of the payment and the others (`SumSplit`). Then each
command is a step of the book (`BookReceive`, `BookPay`, `BookGiveBack`, `BookVoid`,
`BookSend`) or changes nothing the book shows (`BookStutters`).

The theorems are `SettlementTypes`, `SettlementPaymentsNotOverused`,
`SettlementVoidedPaymentsHoldNothing`, `SettlementSettlementsNotOverpaid`,
`SettlementCreditsNotOverrefunded`, `SettlementCreditsAdjustLaterMonths`,
`SettlementMissesOnlyLateCommits` and `SettlementImplementsPaymentBook`.

### Outbox

`OutboxProofs` assumes `OutboxAssumption`: finitely many processes, at least one attempt.
`ReportsAreTrue` adds to `SentMeansDelivered` what a process holds: that a mail it takes for
accepted was. `DeliveriesAccounted` strengthens `DuplicatesExplained`: deliveries and
processes that have not reported are covered by the excuses, plus one only while the row is
processing or sent; this is what allows the next claim. `SendsAreBounded` is inductive with
the types. Each is kept step by step (`ReportsStep`, `DeliveriesStep`, `SendsStep`).

From `DeliveriesAccounted` follows that a mail server takes a copy only when the first is
still due or an excuse stands for it (`RoomToDeliver`), which is the guard of `Deliver`; with
it every step is one of `AtLeastOnce` (`PromiseStep`). A claim by takeover is an excuse, a
lost reply a delivery and an excuse at once. `StuckRowsAreCrashes` needs only the types: a
process at work holds one row, and the only step that lets go of a row in `processing`
without recording anything is a crash, since a late failure can be refused only on a row that
is `sent`.

The theorems are `OutboxTypes`, `OutboxSentMeansDelivered`, `OutboxSentIsFinal`,
`OutboxDuplicatesExplained`, `OutboxSendsAreBounded`, `OutboxStuckRowsAreCrashes` and
`OutboxImplementsAtLeastOnce`.

### Commands

`CommandsProofs` assumes nothing but a natural number of attempts: clients may be any set.
`IdInv` ties the three places a request id appears: what is stored for an id is a committed
attempt of that id, an id with an effect has it stored unless the handler keeps no responses
(then no two attempts share the id), and no two attempts of one id are between its lock and
their end, which is why the second finds what the first stored. `RowInv` adds what the lock
on the row gives: an attempt that holds it found the status its command starts from.
`PageInv` counts what a page has heard: successes it was told of, plus one while a form is
still filled, are no more than the wishes; a page that waits for one answer gets no second.

The theorems are `CommandsTypes`, `RequestsTakeEffectOnce`, `CommandsImplementAtMostOnce`
(step by step: a commit is a `Perform`, an answer a `Tell`, all else a stutter),
`EventsTellTheStory`, `PagesConfirmWhatWasWanted` and `LockedPagesWaitForAnswers`. The last
is the safety half of `PagesRecover`: a disabled page has a request of its own out, whose end
frees it. That the end comes is the fairness.

### Accounts and Throttle

`AccountsProofs` assumes `AccountsAssumption`. `Sound` strengthens `SessionsAreCurrent`, and
`WorkersAble` says of an administrator under way that he still is one who can log in: his row
is locked from the moment he was let through, so nobody can end him before he is done, and
since nobody acts on himself one is left. `EndStep` goes through the writers of sessions,
tokens and `completed`: none touches a row that has ended. `Current` joins them with the types and
`TokensAreCurrent`. `ThrottleProofs` needs that logins being checked share no key and that
each found its keys below the limit. The theorems are `AccountsTypes`,
`LiveSessionsAreCurrent`, `OpenTokensAreCurrent`, `AuthorityStands`, `EndedIsForGood`,
`SomebodyAdministers` and `LoginFailuresBounded`.

### Returns, Shelf and Attachments

`ReturnsProofs` holds the proofs of all three. `Books` joins the types with what each total
is made of (`Asking`, `Returning`, `Crediting`, `Deciding`) and `StatusTellsProgress`. That no
more is credited than came back needs both: a credit stays within its inspection, and the
inspections of a return line sum to what it received. `Crediting` says that the tax of the
credits of a line is `TargetTax` of their units; that it grows with the units and ends at the
tax charged is arithmetic (`Division`, `DivisionMonotone`, `DivisionExact`, `Taxing`).
`Guarded` says that an upload that has counted holds its record's lock and still finds room;
`Holding` that a command which found the row, or has written it, holds it until it ends, and
that no count is in progress once it has looked for one. The theorems are `ReturnsTypes`, `UnitsAreAccountedFor`,
`StatusIsProgress`, `CreditsReturnAllTax`, `CreditsStayWithinCharge`, `LedgerMovesTheShelf`,
`UnseenDisturbCounts` and `FilesStayWithinLimit`. `CreditsStayWithinCharge` is about every unit
price, and is what `Settlement` takes for granted of the amount of a credit.

### Only model-checked

`EventuallySentOrExhausted` and `PagesRecover` are liveness under fairness, which the provers
here do not reach; `LockedPagesWaitForAnswers` and the counts of attempts in `OutboxTypes` and
`SendsAreBounded` are as much of them as safety says.
The four violated properties have counterexamples and nothing to prove.

## 12. Not modelled

- Row locks of several tables and their order: section 2. `PROJECT.json` lists the hazard.
- The body of a repeated request. `docs/architecture/transaction-and-module-design.md:90`
  plans a hash and a 409; `command_results` keeps the response only, so a caller that uses an
  id again for something else is answered with what the id did first. There is nothing to
  compare in the model either: a repeated id carries its first request.
- Product, customer and price administration: inserts and updates of one row without a
  request id, whose result no other command's guard relies on beyond a row being there.
- The tax of a shipment line, order attributes, due dates, references, dates and carriers:
  data that no guard of a modelled command reads.
- CSV parsing and master data of the import, and the exports: conversions without state.
- Customer accounts, the other roles, TOTP time steps, delivery of tokens by e-mail, and the
  audit rows written with each command.
- The rest of the web client: layout, lists, search, charts and the component library, which
  hold no state a command depends on. They are much of the repository's code. The session
  guard of the layouts (`components/layout/workspace-session-guard.tsx`) decides what is
  displayed; what a command may do is decided by the server.
- Queries, analytics, audit views; HTTP routing, CSRF, configuration and logging; migrations,
  seeding, backup rehearsal and benchmarks. They keep no state the commands decide on.
