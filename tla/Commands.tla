------------------------------ MODULE Commands ------------------------------
(***************************************************************************)
(* How a command travels: a control of a page is used, a request with a    *)
(* fresh id goes out, a transaction locks the id, looks for a stored       *)
(* response, locks the row, checks its status, writes, stores the response *)
(* and commits, and the answer comes back or does not.                     *)
(*                                                                         *)
(* The server's side is order.service.ts with updateDelivery as the        *)
(* command written out; the other services do the same with their rows.    *)
(* The client's side is the web client, page by page: what a page does     *)
(* with its controls and its form while the request is out, and when the   *)
(* answer is good, bad or never comes.  A caller other than the pages may  *)
(* send a request again with its id, at any time and concurrently.         *)
(*                                                                         *)
(* One row and one kind of page at a time: rows of other commands and      *)
(* pages of other kinds do not take part in a request's fate.              *)
(***************************************************************************)
EXTENDS Integers, FiniteSets

CONSTANTS
  Client,      \* browser tabs with the page open
  NumAttempts  \* bound: HTTP requests that reach the network

ASSUME CommandsAssumption == NumAttempts \in Nat

Attempt == 1..NumAttempts

\* updateDelivery's four actions; a command its row allows once; one that it
\* allows again and again, adding to what is there or setting it.
Move == {"schedule", "dispatch", "deliver", "fail", "once", "add"}
Status == {"ready", "scheduled", "in_transit", "delivered", "failed",
           "open", "closed"}

Starts == [schedule |-> {"ready", "scheduled", "failed"},
           dispatch |-> {"scheduled"},
           deliver  |-> {"in_transit"},
           fail     |-> {"in_transit"},
           once     |-> {"open"},
           add      |-> {"open"}]

Ends == [schedule |-> "scheduled",
         dispatch |-> "in_transit",
         deliver  |-> "delivered",
         fail     |-> "failed",
         once     |-> "closed",
         add      |-> "open"]

-----------------------------------------------------------------------------
(* A page: guards, its controls are disabled while a command is out; frees,*)
(* and enabled again if no answer comes; clears, a good answer empties the *)
(* form or removes the control; keeps, the handler stores the response     *)
(* under the request id.                                                   *)

Page(guards, frees, clears, keeps, moves) ==
  [guards |-> guards, frees |-> frees, clears |-> clears, keeps |-> keeps, moves |-> moves]

ShipmentPage == Page(TRUE, TRUE, TRUE, TRUE, {"add"})
WorkPage == Page(TRUE, TRUE, FALSE, TRUE, {"add"})
ClaimPage == Page(TRUE, TRUE, TRUE, TRUE, {"once"})
DeliveryPage == Page(TRUE, TRUE, TRUE, TRUE,
                     {"schedule", "dispatch", "deliver", "fail"})
OrdersPage == Page(TRUE, TRUE, TRUE, TRUE, {"once"})
CancellationPage == Page(TRUE, TRUE, TRUE, TRUE, {"once"})
CatalogOrderPage == Page(TRUE, TRUE, TRUE, TRUE, {"add"})
ReturnPage == Page(TRUE, TRUE, TRUE, TRUE, {"add"})
InspectionPage == Page(TRUE, TRUE, FALSE, TRUE, {"add"})
CountPage == Page(TRUE, TRUE, TRUE, TRUE, {"once"})
AdjustmentPage == Page(TRUE, TRUE, TRUE, TRUE, {"add"})
RefundPage == Page(TRUE, TRUE, TRUE, TRUE, {"once"})
ReceiptPage == Page(FALSE, TRUE, TRUE, TRUE, {"add"})
PaymentPage == Page(FALSE, TRUE, TRUE, TRUE, {"add"})
CreditPage == Page(TRUE, FALSE, TRUE, TRUE, {"once"})
DraftPage == Page(FALSE, TRUE, FALSE, FALSE, {"once"})
PricePage == Page(FALSE, TRUE, TRUE, FALSE, {"once", "add"})
ImportPage == Page(TRUE, TRUE, TRUE, FALSE, {"once"})
AccountPage == Page(TRUE, FALSE, TRUE, FALSE, {"once"})
AttachmentPage == Page(TRUE, TRUE, TRUE, FALSE, {"once"})

Pages == {ShipmentPage, WorkPage, ClaimPage, DeliveryPage, OrdersPage,
          CancellationPage, CatalogOrderPage, ReturnPage, InspectionPage,
          CountPage, AdjustmentPage, RefundPage, ReceiptPage, PaymentPage,
          CreditPage, DraftPage, PricePage, ImportPage, AccountPage,
          AttachmentPage}

-----------------------------------------------------------------------------
VARIABLES
  page,    \* the kind of page the clients have open
  status,  \* the row: shipments.delivery_status, or whether it still is open
  stored,  \* command_results: the attempt whose response is kept for an id
  done,    \* attempts whose transaction has committed its writes
  request, \* what an attempt asks for, and under which id
  phase,   \* how far the server is with it
  reply,   \* the attempt whose effect its answer reports
  heard,   \* what the page has heard of it; "other" if no page waits
  entry,   \* a client has filled its form, or decided to use the control
  busy,    \* the page's busy flag
  wishes   \* how often a client has filled its form

row == <<status, stored, done>>
server == <<row, phase, reply>>
browser == <<entry, busy, wishes>>
vars == <<page, server, request, heard, browser>>

\* Request ids are named by the first attempt that carries them.
Request == [id : Attempt, client : Client, move : Move]
None == [id |-> 0]

Phase == {"unsent", "sent", "keyed", "locked", "ok", "refused", "failed"}
Answered(a) == phase[a] \in {"ok", "refused", "failed"}
Waiting(a) == phase[a] # "unsent" /\ heard[a] = "nothing"
Unsent(a) == phase[a] = "unsent" /\ \A b \in Attempt : b < a => phase[b] # "unsent"

First == IF "dispatch" \in page.moves THEN "ready" ELSE "open"

\* The statuses the row has had.
Had == {First} \cup {Ends[request[a].move] : a \in done}

SameId(a, b) == request[a].id = request[b].id

-----------------------------------------------------------------------------
Init ==
  /\ page \in Pages
  /\ status = First
  /\ stored = [a \in Attempt |-> 0]
  /\ done = {}
  /\ request = [a \in Attempt |-> None]
  /\ phase = [a \in Attempt |-> "unsent"]
  /\ reply = [a \in Attempt |-> 0]
  /\ heard = [a \in Attempt |-> "nothing"]
  /\ entry = [c \in Client |-> FALSE]
  /\ busy = [c \in Client |-> FALSE]
  /\ wishes = [c \in Client |-> 0]

Send(a, r) ==
  /\ Unsent(a)
  /\ request' = [request EXCEPT ![a] = r]
  /\ phase' = [phase EXCEPT ![a] = "sent"]

\* Mutant of Click: the control stays enabled while the command is out.
ClickAgain(c, m) ==
  /\ m \in page.moves /\ Had \cap Starts[m] # {}
  /\ \/ entry[c] /\ UNCHANGED wishes
     \/ ~entry[c] /\ wishes' = [wishes EXCEPT ![c] = @ + 1]
  /\ entry' = [entry EXCEPT ![c] = TRUE]
  /\ \E a \in Attempt : Send(a, [id |-> a, client |-> c, move |-> m])
  /\ busy' = [busy EXCEPT ![c] = page.guards]
  /\ UNCHANGED <<page, row, reply, heard>>

\* A control of the page is used: setBusy, crypto.randomUUID(), fetch.  The
\* control is there if a status the row has had, on a view of any age, allows
\* the command.  The form is the one of the last command unless that has cleared it.
Click(c, m) ==
  /\ ~(page.guards /\ busy[c])
  /\ m \in page.moves /\ Had \cap Starts[m] # {}
  /\ \/ entry[c] /\ UNCHANGED wishes
     \/ ~entry[c] /\ wishes' = [wishes EXCEPT ![c] = @ + 1]
  /\ entry' = [entry EXCEPT ![c] = TRUE]
  /\ \E a \in Attempt : Send(a, [id |-> a, client |-> c, move |-> m])
  /\ busy' = [busy EXCEPT ![c] = page.guards]
  /\ UNCHANGED <<page, row, reply, heard>>

\* A caller that keeps its request id sends the request again, whatever has
\* become of it.
Resend(b) ==
  /\ page.keeps /\ phase[b] # "unsent"
  /\ \E a \in Attempt : Send(a, request[b]) /\ heard' = [heard EXCEPT ![a] = "other"]
  /\ UNCHANGED <<page, row, reply, browser>>

Serve(a, p) ==
  /\ phase' = [phase EXCEPT ![a] = p]
  /\ UNCHANGED <<page, request, heard, browser>>

\* Mutant of Key: no advisory lock on the request id.
KeyUnlocked(a) ==
  /\ phase[a] = "sent"
  /\ stored[request[a].id] = 0
  /\ Serve(a, "keyed")
  /\ UNCHANGED <<row, reply>>

\* BEGIN; pg_advisory_xact_lock on the request id; no stored response.
Key(a) ==
  /\ phase[a] = "sent"
  /\ \A b \in Attempt : SameId(a, b) => phase[b] \notin {"keyed", "locked"}
  /\ stored[request[a].id] = 0
  /\ Serve(a, "keyed")
  /\ UNCHANGED <<row, reply>>

\* Mutant of Replay: the request is answered as if it had taken effect now.
ReplayAsNew(a) ==
  /\ phase[a] = "sent"
  /\ \A b \in Attempt : SameId(a, b) => phase[b] \notin {"keyed", "locked"}
  /\ stored[request[a].id] # 0
  /\ reply' = [reply EXCEPT ![a] = a]
  /\ Serve(a, "ok")
  /\ UNCHANGED row

\* The id has a stored response, which answers the request.
Replay(a) ==
  /\ phase[a] = "sent"
  /\ \A b \in Attempt : SameId(a, b) => phase[b] \notin {"keyed", "locked"}
  /\ stored[request[a].id] # 0
  /\ reply' = [reply EXCEPT ![a] = stored[request[a].id]]
  /\ Serve(a, "ok")
  /\ UNCHANGED <<row>>

\* Mutant of Lock: the row is read without FOR UPDATE.
LockNothing(a) ==
  /\ phase[a] = "keyed"
  /\ Serve(a, IF status \in Starts[request[a].move] THEN "locked" ELSE "refused")
  /\ UNCHANGED <<row, reply>>

\* SELECT ... FOR UPDATE on the row, once no other transaction holds it; a
\* status the command does not start from ends the transaction.
Lock(a) ==
  /\ phase[a] = "keyed"
  /\ \A b \in Attempt : phase[b] # "locked"
  /\ Serve(a, IF status \in Starts[request[a].move] THEN "locked" ELSE "refused")
  /\ UNCHANGED <<row, reply>>

\* The writes, the response under the request id and COMMIT; p is "failed" if
\* the connection breaks before COMMIT is confirmed.
Commit(a, p) ==
  /\ phase[a] = "locked"
  /\ status' = Ends[request[a].move]
  /\ stored' = [stored EXCEPT ![request[a].id] = IF page.keeps THEN a ELSE @]
  /\ done' = done \cup {a}
  /\ reply' = [reply EXCEPT ![a] = a]
  /\ Serve(a, p)

\* ROLLBACK: a statement fails, or the connection or the process dies.
Abort(a) ==
  /\ phase[a] \in {"sent", "keyed", "locked"}
  /\ Serve(a, "failed")
  /\ UNCHANGED <<row, reply>>

\* Mutant of Hear: busy is released only after a good answer.
HearWithoutFinally(a) ==
  LET c == request[a].client
      good == phase[a] = "ok" IN
  /\ Waiting(a) /\ Answered(a)
  /\ heard' = [heard EXCEPT ![a] = "answer"]
  /\ entry' = [entry EXCEPT ![c] = @ /\ ~(good /\ page.clears)]
  /\ busy' = [busy EXCEPT ![c] = @ /\ ~good]
  /\ UNCHANGED <<page, server, request, wishes>>

\* The answer reaches the page.
Hear(a) ==
  LET c == request[a].client
      good == phase[a] = "ok" IN
  /\ Waiting(a) /\ Answered(a)
  /\ heard' = [heard EXCEPT ![a] = "answer"]
  /\ entry' = [entry EXCEPT ![c] = @ /\ ~(good /\ page.clears)]
  /\ busy' = [busy EXCEPT ![c] = FALSE]
  /\ UNCHANGED <<page, server, request, wishes>>

\* fetch throws: the connection is gone, whatever the server does.
LoseAnswer(a) ==
  LET c == request[a].client IN
  /\ Waiting(a)
  /\ heard' = [heard EXCEPT ![a] = "error"]
  /\ busy' = [busy EXCEPT ![c] = @ /\ ~page.frees]
  /\ UNCHANGED <<page, server, request, entry, wishes>>

\* The page is opened anew.
Reopen(c) ==
  /\ busy[c]
  /\ entry' = [entry EXCEPT ![c] = FALSE]
  /\ busy' = [busy EXCEPT ![c] = FALSE]
  /\ heard' = [a \in Attempt |-> IF Waiting(a) /\ request[a].client = c THEN "error" ELSE heard[a]]
  /\ UNCHANGED <<page, server, request, wishes>>

Process(a) == Key(a) \/ Replay(a) \/ Lock(a) \/ Commit(a, "ok") \/ Commit(a, "failed") \/ Abort(a)

Next ==
  \/ \E c \in Client : Reopen(c) \/ \E m \in Move : Click(c, m)
  \/ \E a \in Attempt : Resend(a) \/ Process(a) \/ Hear(a) \/ LoseAnswer(a)

Spec == Init /\ [][Next]_vars

\* A fetch is answered or fails.  The server need not do anything, and nobody
\* has to use a control.
Fairness == \A a \in Attempt : WF_vars(Hear(a) \/ LoseAnswer(a))

FairSpec == Spec /\ Fairness

-----------------------------------------------------------------------------
TypeOK ==
  /\ page \in Pages
  /\ status \in Status
  /\ stored \in [Attempt -> 0..NumAttempts]
  /\ done \subseteq Attempt
  /\ request \in [Attempt -> Request \cup {None}]
  /\ phase \in [Attempt -> Phase]
  /\ reply \in [Attempt -> 0..NumAttempts]
  /\ heard \in [Attempt -> {"nothing", "answer", "error", "other"}]
  /\ entry \in [Client -> BOOLEAN]
  /\ busy \in [Client -> BOOLEAN]
  /\ wishes \in [Client -> Nat]
  /\ \A a \in Attempt : phase[a] # "unsent" => request[a] \in Request

\* A request takes effect once, however often it is sent, by whom and how
\* concurrently, and whatever answers were lost; each good answer to it reports
\* that one effect.
OneEffectOneAnswer ==
  /\ \A a, b \in done : SameId(a, b) => a = b
  /\ \A a \in Attempt : phase[a] = "ok" => reply[a] \in done /\ SameId(a, reply[a])

Events(m) == {a \in done : request[a].move = m}

\* shipment_delivery_events tells the story of the row, for clients that acted
\* on stale views of it at the same time: dispatches, deliveries and failures
\* alternate, and what may happen once happened once.
RowMatchesEvents ==
  /\ Cardinality(Events("dispatch")) =
       Cardinality(Events("deliver")) + Cardinality(Events("fail"))
         + IF status = "in_transit" THEN 1 ELSE 0
  /\ Cardinality(Events("deliver")) = IF status = "delivered" THEN 1 ELSE 0
  /\ Cardinality(Events("once")) = IF status = "closed" THEN 1 ELSE 0

\* Page attempts of c that reported success to it.
Confirmed(c) ==
  {a \in Attempt : heard[a] = "answer" /\ phase[a] = "ok" /\ request[a].client = c}

\* A page that disables its controls and clears its form confirms no more than
\* its user wanted: what happens twice is a command whose success was not heard.
ConfirmedWereWanted ==
  page.guards /\ page.clears => \A c \in Client : Cardinality(Confirmed(c)) <= wishes[c]

\* A page that frees its controls in finally never stays locked.
PagesRecover ==
  \A c \in Client : page.frees /\ busy[c] ~> ~busy[c]

outcome == {<<request[a].id, a>> : a \in done}
told == {<<request[a].id, reply[a]>> : a \in {b \in Attempt : phase[b] = "ok"}}

Promise == INSTANCE AtMostOnce WITH Id <- Attempt, Effect <- Attempt

\* Commands implements the promise of command_results.
ImplementsAtMostOnce == Promise!Spec

=============================================================================
