--------------------------- MODULE CommandsProofs ---------------------------
(* Commands takes effect at most once, for any number of clients and       *)
(* requests and for every page, and implements AtMostOnce.                 *)
EXTENDS Commands, FiniteSetTheorems, TLAPS

Holding == {"keyed", "locked"}

\* A page is made of what it is given.
LEMMA PageGuards ==
  ASSUME NEW g \in BOOLEAN, NEW f, NEW c, NEW k, NEW moves
  PROVE  Page(g, f, c, k, moves).guards \in BOOLEAN
  BY DEF Page

\* A page disables its controls or it does not.
LEMMA GuardsOrNot == \A p \in Pages : p.guards \in BOOLEAN
<1>1. /\ ShipmentPage.guards \in BOOLEAN /\ WorkPage.guards \in BOOLEAN
      /\ ClaimPage.guards \in BOOLEAN /\ DeliveryPage.guards \in BOOLEAN
      /\ OrdersPage.guards \in BOOLEAN /\ CancellationPage.guards \in BOOLEAN
      /\ CatalogOrderPage.guards \in BOOLEAN /\ ReturnPage.guards \in BOOLEAN
      /\ InspectionPage.guards \in BOOLEAN /\ CountPage.guards \in BOOLEAN
  BY PageGuards, Zenon DEF ShipmentPage, WorkPage, ClaimPage, DeliveryPage, OrdersPage,
         CancellationPage, CatalogOrderPage, ReturnPage, InspectionPage, CountPage
<1>2. /\ AdjustmentPage.guards \in BOOLEAN /\ RefundPage.guards \in BOOLEAN
      /\ ReceiptPage.guards \in BOOLEAN /\ PaymentPage.guards \in BOOLEAN
      /\ CreditPage.guards \in BOOLEAN /\ DraftPage.guards \in BOOLEAN
  BY PageGuards, Zenon DEF AdjustmentPage, RefundPage, ReceiptPage, PaymentPage, CreditPage,
         DraftPage
<1>3. /\ PricePage.guards \in BOOLEAN /\ ImportPage.guards \in BOOLEAN
      /\ AccountPage.guards \in BOOLEAN /\ AttachmentPage.guards \in BOOLEAN
  BY PageGuards, Zenon DEF PricePage, ImportPage, AccountPage, AttachmentPage
<1> QED
  BY <1>1, <1>2, <1>3, Zenon DEF Pages

\* Where a command may start and where it ends.
LEMMA Table ==
  ASSUME NEW m \in Move
  PROVE  /\ m \in {"schedule", "add"} => Ends[m] \in {"scheduled", "open"}
         /\ m = "dispatch" => Starts[m] = {"scheduled"} /\ Ends[m] = "in_transit"
         /\ m = "deliver" => Starts[m] = {"in_transit"} /\ Ends[m] = "delivered"
         /\ m = "fail" => Starts[m] = {"in_transit"} /\ Ends[m] = "failed"
         /\ m = "once" => Starts[m] = {"open"} /\ Ends[m] = "closed"
         /\ m \in {"schedule", "add"} => Starts[m] \subseteq {"ready", "scheduled", "failed", "open"}
  BY DEF Move, Starts, Ends

\* What a step of the server does to one attempt, and to nothing else.
LEMMA Served ==
  ASSUME TypeOK, NEW a \in Attempt, NEW p \in Phase, Serve(a, p)
  PROVE  /\ phase' \in [Attempt -> Phase]
         /\ phase'[a] = p
         /\ \A b \in Attempt \ {a} : phase'[b] = phase[b]
         /\ UNCHANGED <<page, request, heard, entry, busy, wishes>>
  BY DEF TypeOK, Serve, browser

\* What sending adds: one attempt, in phase sent.
LEMMA Sent ==
  ASSUME TypeOK, NEW a \in Attempt, NEW r \in Request, Send(a, r)
  PROVE  /\ phase[a] = "unsent"
         /\ phase' \in [Attempt -> Phase]
         /\ phase'[a] = "sent"
         /\ request' \in [Attempt -> Request \cup {None}]
         /\ request'[a] = r
         /\ \A b \in Attempt \ {a} : phase'[b] = phase[b] /\ request'[b] = request[b]
  BY DEF TypeOK, Send, Unsent, Phase

\* The requests that clients send are requests.
LEMMA ClickSends ==
  ASSUME TypeOK, NEW c \in Client, NEW m \in Move, Click(c, m)
  PROVE  \E a \in Attempt, r \in Request : Send(a, r) /\ r.id = a /\ r.client = c
<1>1. PICK a \in Attempt : Send(a, [id |-> a, client |-> c, move |-> m])
  BY DEF Click
<1>2. [id |-> a, client |-> c, move |-> m] \in Request
  BY DEF Request
<1> QED
  BY <1>1, <1>2

\* Every step keeps the types.
LEMMA TypeStep == TypeOK /\ [Next]_vars => TypeOK'
<1> SUFFICES ASSUME TypeOK, [Next]_vars PROVE TypeOK'
  OBVIOUS
<1>1. ASSUME NEW c \in Client, Reopen(c) PROVE TypeOK'
  BY <1>1 DEF TypeOK, Reopen, server, row
<1>2. ASSUME NEW c \in Client, NEW m \in Move, Click(c, m) PROVE TypeOK'
  <2>1. PICK a \in Attempt, r \in Request : Send(a, r)
    BY <1>2, ClickSends
  <2>2. page.guards \in BOOLEAN
    BY GuardsOrNot DEF TypeOK
  <2>3. busy' \in [Client -> BOOLEAN] /\ entry' \in [Client -> BOOLEAN] /\ wishes' \in [Client -> Nat]
    BY <1>2, <2>2 DEF TypeOK, Click
  <2> QED
    BY <1>2, <2>1, <2>3, Sent DEF TypeOK, Click, row
<1>3. ASSUME NEW b \in Attempt, Resend(b) PROVE TypeOK'
  <2>1. request[b] \in Request
    BY <1>3 DEF TypeOK, Resend
  <2>2. PICK a \in Attempt : Send(a, request[b]) /\ heard' = [heard EXCEPT ![a] = "other"]
    BY <1>3 DEF Resend
  <2> QED
    BY <1>3, <2>1, <2>2, Sent DEF TypeOK, Resend, row, browser
<1>4. ASSUME NEW a \in Attempt, Process(a) PROVE TypeOK'
  <2>1. PICK p \in Phase : Serve(a, p) /\ phase[a] # "unsent"
    BY <1>4 DEF Process, Key, Replay, Lock, Commit, Abort, Phase
  <2>2. request[a] \in Request
    BY <2>1 DEF TypeOK
  <2>3. /\ status' \in Status
        /\ stored' \in [Attempt -> 0..NumAttempts]
        /\ done' \subseteq Attempt
        /\ reply' \in [Attempt -> 0..NumAttempts]
    <3> USE CommandsAssumption DEF TypeOK, Attempt, row
    <3>1. CASE Key(a) \/ Lock(a) \/ Abort(a)
      BY <3>1 DEF Key, Lock, Abort
    <3>2. CASE Replay(a)
      BY <3>2, <2>2 DEF Replay, Request
    <3>3. CASE Commit(a, "ok") \/ Commit(a, "failed")
      <4>1. request[a].move \in Move /\ request[a].id \in Attempt
        BY <2>2 DEF Request
      <4>2. Ends[request[a].move] \in Status
        BY <4>1, Table DEF Move, Status
      <4>3. a \in 0..NumAttempts
        OBVIOUS
      <4>4. stored' \in [Attempt -> 0..NumAttempts]
        BY <3>3, <4>1, <4>3 DEF Commit
      <4> QED
        <5>1. status' \in Status /\ done' \subseteq Attempt
          BY <3>3, <4>2 DEF Commit
        <5>2. reply' \in [Attempt -> 0..NumAttempts]
          BY <3>3, <4>3 DEF Commit
        <5> QED
          BY <4>4, <5>1, <5>2
    <3> QED
      BY <1>4, <3>1, <3>2, <3>3 DEF Process
  <2> QED
    BY <2>1, <2>2, <2>3, Served DEF TypeOK
<1>5. ASSUME NEW a \in Attempt, Hear(a) \/ LoseAnswer(a) PROVE TypeOK'
  BY <1>5 DEF TypeOK, Hear, LoseAnswer, Waiting, Request, server, row
<1>6. CASE UNCHANGED vars
  BY <1>6 DEF TypeOK, vars, server, row, browser
<1> QED
  BY <1>1, <1>2, <1>3, <1>4, <1>5, <1>6 DEF Next

\* The first state has its types.
LEMMA TypeInit == Init => TypeOK
  BY CommandsAssumption DEF Init, TypeOK, First, Status, Phase

\* The types hold in every state.
THEOREM CommandsTypes == Spec => []TypeOK
  BY TypeInit, TypeStep, PTL DEF Spec

-----------------------------------------------------------------------------
(* One transaction at a time works under an id and one at a time holds the *)
(* row; a stored response is that of the attempt that took effect.         *)

OneHoldsTheId ==
  \A a, b \in Attempt : SameId(a, b) /\ phase[a] \in Holding /\ phase[b] \in Holding => a = b

HolderIsFirst == \A a \in Attempt : phase[a] \in Holding => stored[request[a].id] = 0

StoredIsDone ==
  \A i \in Attempt : stored[i] # 0 => stored[i] \in done /\ request[stored[i]].id = i

DoneIsStored == \A a \in done : page.keeps => stored[request[a].id] = a

OwnIds ==
  ~page.keeps => \A a \in Attempt : phase[a] # "unsent" => request[a].id = a

DoneIsOver == \A a \in done : phase[a] \in {"ok", "failed"}

OkReports == \A a \in Attempt : phase[a] = "ok" => reply[a] \in done /\ SameId(a, reply[a])

IdInv ==
  /\ TypeOK
  /\ OneHoldsTheId
  /\ HolderIsFirst
  /\ StoredIsDone
  /\ DoneIsStored
  /\ OwnIds
  /\ DoneIsOver
  /\ OkReports

\* The id is stored once, or is of one attempt: no two attempts took effect.
LEMMA OneEffect == IdInv => OneEffectOneAnswer
<1> SUFFICES ASSUME IdInv PROVE OneEffectOneAnswer
  OBVIOUS
<1>1. ASSUME NEW a \in done, NEW b \in done, SameId(a, b) PROVE a = b
  <2>1. a \in Attempt /\ b \in Attempt /\ phase[a] # "unsent" /\ phase[b] # "unsent"
    BY DEF IdInv, TypeOK, DoneIsOver
  <2>2. CASE page.keeps
    BY <1>1, <2>2 DEF IdInv, DoneIsStored, SameId
  <2>3. CASE ~page.keeps
    BY <1>1, <2>1, <2>3 DEF IdInv, OwnIds, SameId
  <2> QED
    BY <2>2, <2>3
<1> QED
  BY <1>1 DEF IdInv, OkReports, OneEffectOneAnswer

\* A request that is sent, with an id of its own or with that of another one.
LEMMA IdSend ==
  ASSUME IdInv, NEW a \in Attempt, NEW r \in Request, Send(a, r),
         page.keeps \/ r.id = a, UNCHANGED <<page, row, reply>>
  PROVE  /\ OneHoldsTheId' /\ HolderIsFirst' /\ StoredIsDone' /\ DoneIsStored'
         /\ OwnIds' /\ DoneIsOver' /\ OkReports'
<1>1. /\ phase[a] = "unsent" /\ phase'[a] = "sent" /\ request'[a] = r
      /\ \A b \in Attempt \ {a} : phase'[b] = phase[b] /\ request'[b] = request[b]
  BY Sent DEF IdInv
<1>2. a \notin done /\ done \subseteq Attempt
  BY <1>1 DEF IdInv, TypeOK, DoneIsOver
<1>3. UNCHANGED <<page, stored, done, reply>>
  BY DEF row
<1>4. OneHoldsTheId' /\ HolderIsFirst'
  BY <1>1, <1>3 DEF IdInv, OneHoldsTheId, HolderIsFirst, Holding, SameId
<1>5. StoredIsDone' /\ DoneIsStored' /\ DoneIsOver'
  BY <1>1, <1>2, <1>3 DEF IdInv, StoredIsDone, DoneIsStored, DoneIsOver
<1>6. OwnIds'
  BY <1>1, <1>3 DEF IdInv, OwnIds
<1>7. OkReports'
  BY <1>1, <1>2, <1>3 DEF IdInv, OkReports, SameId
<1> QED
  BY <1>4, <1>5, <1>6, <1>7

\* A transaction that ends, or goes on, without writing.
LEMMA IdServe ==
  ASSUME IdInv, NEW a \in Attempt, Key(a) \/ Replay(a) \/ Lock(a) \/ Abort(a)
  PROVE  /\ OneHoldsTheId' /\ HolderIsFirst' /\ StoredIsDone' /\ DoneIsStored'
         /\ OwnIds' /\ DoneIsOver' /\ OkReports'
<1>1. PICK p \in Phase :
        /\ Serve(a, p)
        /\ p \in Holding => Key(a) \/ phase[a] \in Holding
        /\ p = "ok" => Replay(a)
        /\ phase[a] \in {"sent", "keyed", "locked"}
  BY DEF Key, Replay, Lock, Abort, Phase, Holding
<1>2. /\ phase'[a] = p /\ \A b \in Attempt \ {a} : phase'[b] = phase[b]
      /\ UNCHANGED <<page, request, stored, done>>
      /\ \A b \in Attempt \ {a} : reply'[b] = reply[b]
  BY <1>1, Served DEF IdInv, Key, Replay, Lock, Abort, row, TypeOK
<1>3. a \notin done /\ done \subseteq Attempt
  BY <1>1 DEF IdInv, TypeOK, DoneIsOver
<1>4. OneHoldsTheId' /\ HolderIsFirst'
  BY <1>1, <1>2 DEF IdInv, OneHoldsTheId, HolderIsFirst, Holding, SameId, Key
<1>5. StoredIsDone' /\ DoneIsStored' /\ DoneIsOver' /\ OwnIds'
  BY <1>1, <1>2, <1>3 DEF IdInv, StoredIsDone, DoneIsStored, DoneIsOver, OwnIds
<1>6. OkReports'
  <2>1. ASSUME Replay(a) PROVE reply'[a] \in done /\ SameId(a, reply'[a])
    <3>1. request[a] \in Request
      BY <1>1 DEF IdInv, TypeOK
    <3>2. reply'[a] = stored[request[a].id] /\ stored[request[a].id] # 0
      BY <2>1 DEF Replay, IdInv, TypeOK
    <3> QED
      BY <3>1, <3>2 DEF IdInv, StoredIsDone, SameId, Request
  <2> QED
    BY <1>1, <1>2, <1>3, <2>1 DEF IdInv, OkReports, SameId
<1> QED
  BY <1>4, <1>5, <1>6

\* A transaction that commits, its confirmation heard or not.
LEMMA IdCommit ==
  ASSUME IdInv, NEW a \in Attempt, NEW p \in {"ok", "failed"}, Commit(a, p)
  PROVE  /\ OneHoldsTheId' /\ HolderIsFirst' /\ StoredIsDone' /\ DoneIsStored'
         /\ OwnIds' /\ DoneIsOver' /\ OkReports'
<1>1. /\ phase[a] = "locked" /\ phase'[a] = p
      /\ \A b \in Attempt \ {a} : phase'[b] = phase[b]
      /\ UNCHANGED <<page, request>>
  BY Served DEF IdInv, Commit, Phase
<1>2. request[a] \in Request /\ request[a].id \in Attempt /\ a # 0
  BY <1>1, CommandsAssumption DEF IdInv, TypeOK, Request, Attempt
<1>3. stored[request[a].id] = 0
  BY <1>1 DEF IdInv, HolderIsFirst, Holding
<1>4. /\ done' = done \cup {a} /\ done \subseteq Attempt /\ a \notin done
      /\ reply'[a] = a /\ \A b \in Attempt \ {a} : reply'[b] = reply[b]
      /\ stored'[request[a].id] = IF page.keeps THEN a ELSE 0
      /\ \A i \in Attempt : i # request[a].id => stored'[i] = stored[i]
  BY <1>1, <1>2, <1>3 DEF IdInv, TypeOK, Commit, DoneIsOver
<1>5. OneHoldsTheId'
  BY <1>1 DEF IdInv, OneHoldsTheId, Holding, SameId
<1>6. HolderIsFirst'
  <2>1. ASSUME NEW b \in Attempt, phase'[b] \in Holding PROVE stored'[request'[b].id] = 0
    <3>1. b # a /\ phase[b] \in Holding /\ request'[b] = request[b]
      BY <1>1, <2>1 DEF Holding
    <3>2. request[b].id # request[a].id
      BY <1>1, <3>1 DEF IdInv, OneHoldsTheId, SameId, Holding
    <3>3. request[b].id \in Attempt
      BY <3>1 DEF IdInv, TypeOK, Holding, Request
    <3> QED
      BY <1>4, <3>1, <3>2, <3>3 DEF IdInv, HolderIsFirst
  <2> QED
    BY <2>1 DEF HolderIsFirst
<1>7. StoredIsDone'
  BY <1>1, <1>2, <1>4 DEF IdInv, StoredIsDone
<1>8. DoneIsStored'
  <2>1. ASSUME NEW b \in done, page.keeps PROVE stored'[request[b].id] = b
    <3>1. stored[request[b].id] = b /\ b # 0 /\ request[b].id \in Attempt
      <4>1. b \in Attempt /\ phase[b] # "unsent"
        BY <1>4, <2>1 DEF IdInv, DoneIsOver
      <4>2. request[b] \in Request
        BY <4>1 DEF IdInv, TypeOK
      <4> QED
        BY <2>1, <4>1, <4>2, CommandsAssumption DEF IdInv, DoneIsStored, Request, Attempt
    <3> QED
      BY <1>3, <1>4, <3>1
  <2> QED
    BY <1>1, <1>4, <2>1 DEF DoneIsStored
<1>9. OwnIds' /\ DoneIsOver'
  BY <1>1, <1>4 DEF IdInv, OwnIds, DoneIsOver
<1>10. OkReports'
  BY <1>1, <1>4 DEF IdInv, OkReports, SameId
<1> QED
  BY <1>5, <1>6, <1>7, <1>8, <1>9, <1>10

\* Nothing but the server and what is sent matters.
LEMMA IdIdle ==
  ASSUME IdInv, UNCHANGED <<page, server, request>>
  PROVE  /\ OneHoldsTheId' /\ HolderIsFirst' /\ StoredIsDone' /\ DoneIsStored'
         /\ OwnIds' /\ DoneIsOver' /\ OkReports'
  BY DEF IdInv, OneHoldsTheId, HolderIsFirst, StoredIsDone, DoneIsStored, OwnIds, DoneIsOver,
         OkReports, SameId, server, row

\* Every step keeps them.
LEMMA IdStep == IdInv /\ [Next]_vars => IdInv'
<1> SUFFICES ASSUME IdInv, [Next]_vars PROVE IdInv'
  OBVIOUS
<1>1. TypeOK'
  BY TypeStep DEF IdInv
<1>2. ASSUME NEW c \in Client, NEW m \in Move, Click(c, m) PROVE IdInv'
  <2>1. PICK a \in Attempt, r \in Request : Send(a, r) /\ r.id = a
    BY <1>2, ClickSends DEF IdInv
  <2> QED
    BY <1>1, <1>2, <2>1, IdSend DEF IdInv, Click
<1>3. ASSUME NEW b \in Attempt, Resend(b) PROVE IdInv'
  <2>1. request[b] \in Request /\ page.keeps /\ UNCHANGED <<page, row, reply>>
    BY <1>3 DEF IdInv, TypeOK, Resend
  <2>2. PICK a \in Attempt : Send(a, request[b])
    BY <1>3 DEF Resend
  <2> QED
    BY <1>1, <2>1, <2>2, IdSend DEF IdInv
<1>4. ASSUME NEW a \in Attempt, Process(a) PROVE IdInv'
  BY <1>1, <1>4, IdServe, IdCommit DEF IdInv, Process
<1>5. ASSUME NEW c \in Client, Reopen(c) PROVE IdInv'
  BY <1>1, <1>5, IdIdle DEF IdInv, Reopen
<1>6. ASSUME NEW a \in Attempt, Hear(a) \/ LoseAnswer(a) PROVE IdInv'
  BY <1>1, <1>6, IdIdle DEF IdInv, Hear, LoseAnswer
<1>7. CASE UNCHANGED vars
  BY <1>1, <1>7, IdIdle DEF IdInv, vars
<1> QED
  BY <1>2, <1>3, <1>4, <1>5, <1>6, <1>7 DEF Next

\* Nothing has been sent at first.
LEMMA IdInit == Init => IdInv
  BY TypeInit DEF Init, IdInv, OneHoldsTheId, HolderIsFirst, StoredIsDone, DoneIsStored,
                  OwnIds, DoneIsOver, OkReports, Holding

\* A request takes effect once and each good answer reports that effect, for
\* any number of requests and repetitions.
THEOREM RequestsTakeEffectOnce == Spec => []OneEffectOneAnswer
<1>1. Spec => []IdInv
  BY IdInit, IdStep, PTL DEF Spec
<1> QED
  BY <1>1, OneEffect, PTL

-----------------------------------------------------------------------------
(* Commands implements AtMostOnce: a commit performs, everything else      *)
(* tells or is not seen.                                                   *)

\* What has been told stays told, and only what has happened is.
LEMMA Telling ==
  ASSUME IdInv, IdInv', UNCHANGED page,
         \A b \in Attempt : phase[b] = "ok" => UNCHANGED <<phase[b], reply[b], request[b].id>>
  PROVE  Promise!Tell
<1>1. told \subseteq told'
  BY DEF told
<1>2. told' \subseteq outcome'
  BY DEF IdInv, OkReports, SameId, told, outcome
<1> QED
  BY <1>1, <1>2 DEF Promise!Tell

\* Nothing has happened at first.
LEMMA PromiseInit == Init => Promise!Init
  BY DEF Init, Promise!Init, outcome, told

\* A step without a commit is seen at most as telling.
LEMMA PromiseTell ==
  ASSUME IdInv, IdInv', UNCHANGED <<page, done>>,
         \A b \in done : request'[b].id = request[b].id,
         \A b \in Attempt : phase[b] = "ok" => UNCHANGED <<phase[b], reply[b], request[b].id>>
  PROVE  Promise!Next
<1>1. outcome' = outcome
  BY DEF outcome
<1> QED
  BY <1>1, Telling DEF Promise!Next

\* Every step is a step of the promise.
LEMMA PromiseStep == IdInv /\ IdInv' /\ [Next]_vars => [Promise!Next]_<<outcome, told>>
<1> SUFFICES ASSUME IdInv, IdInv', [Next]_vars PROVE [Promise!Next]_<<outcome, told>>
  OBVIOUS
<1>1. ASSUME NEW a \in Attempt, NEW r \in Request, Send(a, r), UNCHANGED <<page, row, reply>>
      PROVE  Promise!Next
  <2>1. /\ phase[a] = "unsent"
        /\ \A b \in Attempt \ {a} : phase'[b] = phase[b] /\ request'[b] = request[b]
    BY <1>1, Sent DEF IdInv
  <2>2. a \notin done /\ done \subseteq Attempt
    BY <2>1 DEF IdInv, TypeOK, DoneIsOver
  <2> QED
    BY <1>1, <2>1, <2>2, PromiseTell DEF row
<1>2. ASSUME NEW c \in Client, NEW m \in Move, Click(c, m) PROVE Promise!Next
  <2>1. PICK a \in Attempt, r \in Request : Send(a, r)
    BY <1>2, ClickSends DEF IdInv
  <2> QED
    BY <1>1, <1>2, <2>1 DEF Click
<1>3. ASSUME NEW b \in Attempt, Resend(b) PROVE Promise!Next
  <2>1. request[b] \in Request
    BY <1>3 DEF IdInv, TypeOK, Resend
  <2> QED
    BY <1>1, <1>3, <2>1 DEF Resend
<1>4. ASSUME NEW a \in Attempt, Key(a) \/ Replay(a) \/ Lock(a) \/ Abort(a) PROVE Promise!Next
  <2>1. PICK p \in Phase : Serve(a, p) /\ phase[a] # "ok"
    BY <1>4 DEF Key, Replay, Lock, Abort, Phase
  <2>2. UNCHANGED <<page, request, done>> /\ \A b \in Attempt \ {a} : reply'[b] = reply[b]
    BY <1>4, <2>1, Served DEF IdInv, TypeOK, Key, Replay, Lock, Abort, row
  <2>3. \A b \in Attempt \ {a} : phase'[b] = phase[b]
    BY <2>1, Served DEF IdInv
  <2> QED
    BY <2>1, <2>2, <2>3, PromiseTell
<1>5. ASSUME NEW a \in Attempt, NEW p \in {"ok", "failed"}, Commit(a, p) PROVE Promise!Next
  <2>1. /\ phase[a] = "locked" /\ UNCHANGED <<page, request>>
        /\ \A b \in Attempt \ {a} : phase'[b] = phase[b]
    BY <1>5, Served DEF IdInv, Commit, Phase
  <2>2. /\ done' = done \cup {a} /\ a \notin done /\ request[a].id \in Attempt
        /\ \A b \in Attempt \ {a} : reply'[b] = reply[b]
    BY <1>5, <2>1 DEF IdInv, TypeOK, Commit, DoneIsOver, Request
  <2>3. \A b \in done : request[b].id # request[a].id
    <3>1. OneEffectOneAnswer'
      BY OneEffect, PTL
    <3> QED
      BY <2>1, <2>2, <3>1 DEF OneEffectOneAnswer, SameId
  <2>4. \A f \in Attempt : <<request[a].id, f>> \notin outcome
    BY <2>3 DEF outcome
  <2>5. outcome' = outcome \cup {<<request[a].id, a>>}
    BY <2>1, <2>2 DEF outcome
  <2>6. Promise!Perform(request[a].id, a)
    BY <2>4, <2>5 DEF Promise!Perform
  <2>7. Promise!Tell
    BY <2>1, <2>2, Telling
  <2> QED
    BY <2>2, <2>6, <2>7 DEF Promise!Next
<1>6. ASSUME UNCHANGED <<page, server, request>> PROVE UNCHANGED <<outcome, told>>
  BY <1>6 DEF server, row, outcome, told
<1>7. ASSUME NEW c \in Client, Reopen(c) PROVE UNCHANGED <<outcome, told>>
  BY <1>6, <1>7 DEF Reopen
<1>8. ASSUME NEW a \in Attempt, Hear(a) \/ LoseAnswer(a) PROVE UNCHANGED <<outcome, told>>
  BY <1>6, <1>8 DEF Hear, LoseAnswer
<1>9. CASE UNCHANGED vars
  BY <1>6, <1>9 DEF vars
<1> QED
  BY <1>2, <1>3, <1>4, <1>5, <1>7, <1>8, <1>9 DEF Next, Process

\* The commands keep the promise of command_results, for every page, every
\* number of requests, repetitions and lost answers.
THEOREM CommandsImplementAtMostOnce == Spec => ImplementsAtMostOnce
<1>1. Spec => []IdInv
  BY IdInit, IdStep, PTL DEF Spec
<1> QED
  BY <1>1, PromiseInit, PromiseStep, PTL
  DEF Spec, ImplementsAtMostOnce, Promise!Spec, Promise!ledger

-----------------------------------------------------------------------------
(* The events tell the story of the row: whoever holds it read its status. *)

OneHoldsTheRow == \A a, b \in Attempt : phase[a] = "locked" /\ phase[b] = "locked" => a = b

HolderMayStart == \A a \in Attempt : phase[a] = "locked" => status \in Starts[request[a].move]

RowInv ==
  /\ IdInv
  /\ OneHoldsTheRow
  /\ HolderMayStart
  /\ RowMatchesEvents

\* Events are finite sets of attempts.
LEMMA EventsFinite ==
  ASSUME IdInv, NEW m
  PROVE  IsFiniteSet(Events(m)) /\ Cardinality(Events(m)) \in Nat
<1>1. IsFiniteSet(Attempt)
  BY FS_Interval, CommandsAssumption DEF Attempt
<1>2. Events(m) \subseteq Attempt
  BY DEF Events, IdInv, TypeOK
<1> QED
  BY <1>1, <1>2, FS_Subset, FS_CardinalityType

\* A commit adds one event, of its command.
LEMMA EventsCommit ==
  ASSUME IdInv, NEW a \in Attempt \ done, NEW m, done' = done \cup {a}, UNCHANGED request
  PROVE  Cardinality(Events(m)') = Cardinality(Events(m)) + IF request[a].move = m THEN 1 ELSE 0
<1>1. CASE request[a].move = m
  <2>1. Events(m)' = Events(m) \cup {a} /\ a \notin Events(m)
    BY <1>1 DEF Events
  <2> QED
    BY <1>1, <2>1, EventsFinite, FS_AddElement
<1>2. CASE request[a].move # m
  <2>1. Events(m)' = Events(m)
    BY <1>2 DEF Events
  <2> QED
    BY <1>2, <2>1, EventsFinite
<1> QED
  BY <1>1, <1>2

\* A commit keeps the row and its events together.
LEMMA RowCommit ==
  ASSUME RowInv, NEW a \in Attempt, NEW p \in {"ok", "failed"}, Commit(a, p)
  PROVE  RowMatchesEvents'
<1>1. /\ phase[a] = "locked" /\ UNCHANGED request /\ done' = done \cup {a} /\ a \notin done
      /\ request[a] \in Request /\ request[a].move \in Move
  BY DEF RowInv, IdInv, TypeOK, DoneIsOver, Commit, Serve, Request
<1>2. status \in Starts[request[a].move] /\ status' = Ends[request[a].move]
  BY <1>1 DEF RowInv, HolderMayStart, Commit
<1> DEFINE more(m) == IF request[a].move = m THEN 1 ELSE 0
<1>3. \A m : Cardinality(Events(m)') = Cardinality(Events(m)) + more(m)
  BY <1>1, EventsCommit DEF RowInv
<1>4. \A m : Cardinality(Events(m)) \in Nat
  BY EventsFinite DEF RowInv
<1> QED
  <2> HIDE DEF more
  <2>1. /\ Cardinality(Events("dispatch")') = Cardinality(Events("dispatch")) + more("dispatch")
        /\ Cardinality(Events("deliver")') = Cardinality(Events("deliver")) + more("deliver")
        /\ Cardinality(Events("fail")') = Cardinality(Events("fail")) + more("fail")
        /\ Cardinality(Events("once")') = Cardinality(Events("once")) + more("once")
    BY <1>3
  <2>2. /\ Cardinality(Events("dispatch")) \in Nat /\ Cardinality(Events("deliver")) \in Nat
        /\ Cardinality(Events("fail")) \in Nat /\ Cardinality(Events("once")) \in Nat
    BY <1>4
  <2>3. CASE request[a].move \in {"schedule", "add"}
    BY <1>1, <1>2, <2>1, <2>2, <2>3, Table DEF RowInv, RowMatchesEvents, more
  <2>4. CASE request[a].move = "dispatch"
    BY <1>1, <1>2, <2>1, <2>2, <2>4, Table DEF RowInv, RowMatchesEvents, more
  <2>5. CASE request[a].move \in {"deliver", "fail"}
    BY <1>1, <1>2, <2>1, <2>2, <2>5, Table DEF RowInv, RowMatchesEvents, more
  <2>6. CASE request[a].move = "once"
    BY <1>1, <1>2, <2>1, <2>2, <2>6, Table DEF RowInv, RowMatchesEvents, more
  <2> QED
    BY <1>1, <2>3, <2>4, <2>5, <2>6 DEF Move

\* What does not commit does not touch row and events.
LEMMA RowKept ==
  ASSUME RowInv, UNCHANGED <<status, done>>, \A b \in done : request'[b] = request[b]
  PROVE  RowMatchesEvents'
<1>1. \A m : Events(m)' = Events(m)
  BY DEF Events
<1> QED
  BY <1>1 DEF RowInv, RowMatchesEvents

\* A request that is sent holds nothing.
LEMMA RowSend ==
  ASSUME RowInv, NEW a \in Attempt, NEW r \in Request, Send(a, r), UNCHANGED row
  PROVE  OneHoldsTheRow' /\ HolderMayStart' /\ RowMatchesEvents'
<1>1. /\ phase[a] = "unsent" /\ phase'[a] = "sent"
      /\ \A b \in Attempt \ {a} : phase'[b] = phase[b] /\ request'[b] = request[b]
  BY Sent DEF RowInv, IdInv
<1>2. a \notin done /\ done \subseteq Attempt /\ UNCHANGED <<status, done>>
  BY <1>1 DEF RowInv, IdInv, TypeOK, DoneIsOver, row
<1>3. RowMatchesEvents'
  BY <1>1, <1>2, RowKept
<1> QED
  BY <1>1, <1>2, <1>3 DEF RowInv, OneHoldsTheRow, HolderMayStart

\* The server lets one transaction at a time hold the row.
LEMMA RowProcess ==
  ASSUME RowInv, NEW a \in Attempt, Process(a)
  PROVE  OneHoldsTheRow' /\ HolderMayStart' /\ RowMatchesEvents'
<1>1. CASE Key(a) \/ Replay(a) \/ Lock(a) \/ Abort(a)
  <2>1. PICK p \in Phase :
          /\ Serve(a, p)
          /\ p = "locked" => Lock(a) /\ status \in Starts[request[a].move]
          /\ UNCHANGED <<status, done>>
    BY <1>1 DEF Key, Replay, Lock, Abort, Phase, row
  <2>2. /\ phase'[a] = p /\ \A b \in Attempt \ {a} : phase'[b] = phase[b]
        /\ UNCHANGED request
    BY <2>1, Served DEF RowInv, IdInv
  <2>3. RowMatchesEvents'
    BY <2>1, <2>2, RowKept
  <2> QED
    BY <2>1, <2>2, <2>3 DEF RowInv, OneHoldsTheRow, HolderMayStart, Lock
<1>2. ASSUME NEW p \in {"ok", "failed"}, Commit(a, p)
      PROVE  OneHoldsTheRow' /\ HolderMayStart' /\ RowMatchesEvents'
  <2>1. /\ phase[a] = "locked" /\ phase'[a] = p
        /\ \A b \in Attempt \ {a} : phase'[b] = phase[b]
    BY <1>2, Served DEF RowInv, IdInv, Commit, Phase
  <2> QED
    BY <1>2, <2>1, RowCommit DEF RowInv, OneHoldsTheRow, HolderMayStart
<1> QED
  BY <1>1, <1>2 DEF Process

\* Every step keeps the row and its events together.
LEMMA RowStep == RowInv /\ [Next]_vars => RowInv'
<1> SUFFICES ASSUME RowInv, [Next]_vars PROVE RowInv'
  OBVIOUS
<1>1. IdInv'
  BY IdStep DEF RowInv
<1>2. ASSUME NEW c \in Client, NEW m \in Move, Click(c, m) PROVE RowInv'
  <2>1. PICK a \in Attempt, r \in Request : Send(a, r)
    BY <1>2, ClickSends DEF RowInv, IdInv
  <2> QED
    BY <1>1, <1>2, <2>1, RowSend DEF RowInv, Click
<1>3. ASSUME NEW b \in Attempt, Resend(b) PROVE RowInv'
  <2>1. request[b] \in Request
    BY <1>3 DEF RowInv, IdInv, TypeOK, Resend
  <2> QED
    BY <1>1, <1>3, <2>1, RowSend DEF RowInv, Resend
<1>4. ASSUME NEW a \in Attempt, Process(a) PROVE RowInv'
  BY <1>1, <1>4, RowProcess DEF RowInv
<1>5. ASSUME UNCHANGED <<page, server, request>> PROVE RowInv'
  BY <1>1, <1>5, RowKept DEF RowInv, server, row, OneHoldsTheRow, HolderMayStart
<1>6. ASSUME NEW c \in Client, Reopen(c) PROVE RowInv'
  BY <1>5, <1>6 DEF Reopen
<1>7. ASSUME NEW a \in Attempt, Hear(a) \/ LoseAnswer(a) PROVE RowInv'
  BY <1>5, <1>7 DEF Hear, LoseAnswer
<1>8. CASE UNCHANGED vars
  BY <1>5, <1>8 DEF vars
<1> QED
  BY <1>2, <1>3, <1>4, <1>6, <1>7, <1>8 DEF Next

\* At first there are no events.
LEMMA RowInit == Init => RowInv
<1> SUFFICES ASSUME Init PROVE RowInv
  OBVIOUS
<1>1. \A m : Events(m) = {}
  BY DEF Init, Events
<1>2. status \in {"ready", "open"}
  BY DEF Init, First
<1> QED
  BY <1>1, <1>2, IdInit, FS_EmptySet
  DEF Init, RowInv, RowMatchesEvents, OneHoldsTheRow, HolderMayStart

\* Row and events agree, for any number of clients on views of any age.
THEOREM EventsTellTheStory == Spec => []RowMatchesEvents
<1>1. Spec => []RowInv
  BY RowInit, RowStep, PTL DEF Spec
<1> QED
  BY <1>1, PTL DEF RowInv

-----------------------------------------------------------------------------
(* A page that disables and clears has at most one command out, for a form *)
(* that is filled; a form that is filled has not been confirmed yet.       *)

Owed(c) == IF entry[c] THEN 1 ELSE 0

WaitingIsBusy ==
  \A a \in Attempt : Waiting(a) => busy[request[a].client] /\ entry[request[a].client]

OneIsOut ==
  \A a, b \in Attempt :
    Waiting(a) /\ Waiting(b) /\ request[a].client = request[b].client => a = b

ConfirmedFitsWishes == \A c \in Client : Cardinality(Confirmed(c)) + Owed(c) <= wishes[c]

HeardIsAnswered == \A a \in Attempt : heard[a] = "answer" => Answered(a)

UnsentIsUnheard == \A a \in Attempt : phase[a] = "unsent" => heard[a] = "nothing"

PageInv ==
  /\ TypeOK
  /\ HeardIsAnswered
  /\ UnsentIsUnheard
  /\ page.guards /\ page.clears => WaitingIsBusy /\ OneIsOut /\ ConfirmedFitsWishes

\* What has been confirmed is finite.
LEMMA ConfirmedFinite ==
  ASSUME NEW c PROVE IsFiniteSet(Confirmed(c)) /\ Cardinality(Confirmed(c)) \in Nat
<1>1. IsFiniteSet(Attempt)
  BY FS_Interval, CommandsAssumption DEF Attempt
<1> QED
  BY <1>1, FS_Subset, FS_CardinalityType DEF Confirmed

\* A step that confirms nothing, whose form is not filled anew unless wished.
LEMMA ConfirmedKept ==
  ASSUME PageInv, UNCHANGED page, NEW c \in Client,
         page.guards /\ page.clears, Confirmed(c)' = Confirmed(c),
         Owed(c)' - Owed(c) <= wishes'[c] - wishes[c],
         wishes'[c] \in Nat
  PROVE  Cardinality(Confirmed(c)') + Owed(c)' <= wishes'[c]
<1>1. Cardinality(Confirmed(c)) + Owed(c) <= wishes[c] /\ wishes[c] \in Nat
  BY DEF PageInv, ConfirmedFitsWishes, TypeOK
<1>2. Owed(c) \in {0, 1} /\ Owed(c)' \in {0, 1}
  BY DEF Owed
<1> QED
  BY <1>1, <1>2, ConfirmedFinite

\* A control of the page is used only when nothing is out.
LEMMA PageClick ==
  ASSUME PageInv, NEW c \in Client, NEW m \in Move, Click(c, m), TypeOK'
  PROVE  PageInv'
<1>1. PICK a \in Attempt, r \in Request : Send(a, r) /\ r.client = c
  BY ClickSends DEF PageInv
<1>2. /\ phase[a] = "unsent" /\ phase'[a] = "sent" /\ request'[a].client = c
      /\ \A b \in Attempt \ {a} : phase'[b] = phase[b] /\ request'[b] = request[b]
      /\ UNCHANGED <<page, heard>>
  BY <1>1, Sent DEF PageInv, Click
<1>3. HeardIsAnswered' /\ UnsentIsUnheard' /\ heard[a] = "nothing"
  BY <1>2 DEF PageInv, HeardIsAnswered, UnsentIsUnheard, Answered
<1>4. ASSUME page.guards, page.clears PROVE WaitingIsBusy' /\ OneIsOut' /\ ConfirmedFitsWishes'
  <2>1. ~busy[c] /\ busy'[c] /\ entry'[c]
    BY <1>4 DEF Click, PageInv, TypeOK
  <2>2. \A d \in Client \ {c} : busy'[d] = busy[d] /\ entry'[d] = entry[d] /\ wishes'[d] = wishes[d]
    BY DEF Click, PageInv, TypeOK
  <2>3. \A b \in Attempt \ {a} : Waiting(b)' = Waiting(b)
    BY <1>2 DEF Waiting
  <2>4. \A b \in Attempt \ {a} : Waiting(b) => request[b] \in Request /\ request[b].client # c
    BY <2>1, <1>4 DEF Waiting, PageInv, TypeOK, WaitingIsBusy
  <2>5. WaitingIsBusy'
    BY <1>2, <1>4, <2>1, <2>2, <2>3, <2>4 DEF PageInv, WaitingIsBusy, Request
  <2>6. OneIsOut'
    BY <1>2, <1>4, <2>3, <2>4 DEF PageInv, OneIsOut
  <2>7. \A d \in Client : Confirmed(d)' = Confirmed(d)
    BY <1>2, <1>3 DEF Confirmed
  <2>8. \A d \in Client : Owed(d)' - Owed(d) <= wishes'[d] - wishes[d] /\ wishes'[d] \in Nat
    <3>1. wishes \in [Client -> Nat] /\ wishes' \in [Client -> Nat]
      BY DEF PageInv, TypeOK
    <3>2. Owed(c)' - Owed(c) <= wishes'[c] - wishes[c]
      BY <3>1, <2>1 DEF Click, Owed
    <3> QED
      BY <3>1, <3>2, <2>2 DEF Owed
  <2> QED
    BY <1>2, <1>4, <2>5, <2>6, <2>7, <2>8, ConfirmedKept DEF ConfirmedFitsWishes
<1> QED
  BY <1>2, <1>3, <1>4 DEF PageInv

\* A repetition by another caller is nothing to the page.
LEMMA PageResend ==
  ASSUME PageInv, NEW b \in Attempt, Resend(b), TypeOK' PROVE PageInv'
<1>1. request[b] \in Request
  BY DEF PageInv, TypeOK, Resend
<1>2. PICK a \in Attempt : Send(a, request[b]) /\ heard' = [heard EXCEPT ![a] = "other"]
  BY DEF Resend
<1>3. /\ phase[a] = "unsent" /\ phase'[a] = "sent" /\ heard'[a] = "other"
      /\ \A d \in Attempt \ {a} :
           phase'[d] = phase[d] /\ request'[d] = request[d] /\ heard'[d] = heard[d]
      /\ UNCHANGED <<page, entry, busy, wishes>>
  BY <1>1, <1>2, Sent DEF PageInv, TypeOK, Resend, browser
<1>4. HeardIsAnswered' /\ UnsentIsUnheard' /\ heard[a] = "nothing"
  BY <1>3 DEF PageInv, HeardIsAnswered, UnsentIsUnheard, Answered
<1>5. ~Waiting(a)' /\ \A d \in Attempt \ {a} : Waiting(d)' = Waiting(d)
  BY <1>3 DEF Waiting
<1>6. \A c \in Client : Confirmed(c)' = Confirmed(c) /\ Owed(c)' = Owed(c)
  BY <1>3, <1>4 DEF Confirmed, Owed
<1> QED
  BY <1>3, <1>4, <1>5, <1>6 DEF PageInv, WaitingIsBusy, OneIsOut, ConfirmedFitsWishes

\* The server ends an attempt once: what was answered stays so.
LEMMA PageProcess ==
  ASSUME PageInv, NEW a \in Attempt, Process(a), TypeOK' PROVE PageInv'
<1>1. PICK p \in Phase : Serve(a, p) /\ p # "unsent" /\ phase[a] \in {"sent", "keyed", "locked"}
  BY DEF Process, Key, Replay, Lock, Commit, Abort, Phase
<1>2. /\ phase'[a] # "unsent" /\ \A b \in Attempt \ {a} : phase'[b] = phase[b]
      /\ UNCHANGED <<page, request, heard, entry, busy, wishes>>
  BY <1>1, Served DEF PageInv
<1>3. heard[a] # "answer"
  BY <1>1 DEF PageInv, HeardIsAnswered, Answered
<1>4. \A b \in Attempt : Waiting(b)' = Waiting(b)
  BY <1>1, <1>2 DEF Waiting
<1>5. \A c \in Client : Confirmed(c)' = Confirmed(c) /\ Owed(c)' = Owed(c)
  BY <1>2, <1>3 DEF Confirmed, Owed
<1> QED
  BY <1>1, <1>2, <1>3, <1>4, <1>5
  DEF PageInv, HeardIsAnswered, UnsentIsUnheard, Answered, WaitingIsBusy, OneIsOut,
      ConfirmedFitsWishes

\* An answer frees the page, and a good one takes the form with it.
LEMMA PageHear ==
  ASSUME PageInv, NEW a \in Attempt, Hear(a), TypeOK' PROVE PageInv'
<1> DEFINE c == request[a].client
<1>1. /\ Waiting(a) /\ Answered(a) /\ heard'[a] = "answer" /\ c \in Client
      /\ \A b \in Attempt \ {a} : heard'[b] = heard[b]
      /\ UNCHANGED <<page, phase, request, wishes>>
  BY DEF PageInv, TypeOK, Hear, Waiting, server, Request
<1>2. /\ entry'[c] = (entry[c] /\ ~(phase[a] = "ok" /\ page.clears)) /\ busy'[c] = FALSE
      /\ \A d \in Client \ {c} : entry'[d] = entry[d] /\ busy'[d] = busy[d]
  BY <1>1, Zenon DEF PageInv, TypeOK, Hear
<1>3. HeardIsAnswered' /\ UnsentIsUnheard'
  BY <1>1 DEF PageInv, HeardIsAnswered, UnsentIsUnheard, Answered, Waiting
<1>4. ASSUME page.guards, page.clears PROVE WaitingIsBusy' /\ OneIsOut' /\ ConfirmedFitsWishes'
  <2>1. ~Waiting(a)' /\ \A b \in Attempt \ {a} : Waiting(b)' = Waiting(b)
    BY <1>1 DEF Waiting
  <2>2. \A b \in Attempt \ {a} : Waiting(b) => request[b].client \in Client /\ request[b].client # c
    BY <1>1, <1>4 DEF Waiting, PageInv, TypeOK, OneIsOut, Request
  <2>3. WaitingIsBusy' /\ OneIsOut'
    BY <1>1, <1>2, <1>4, <2>1, <2>2 DEF PageInv, WaitingIsBusy, OneIsOut
  <2>4. entry[c]
    BY <1>1, <1>4 DEF PageInv, WaitingIsBusy
  <2>5. \A d \in Client \ {c} : Confirmed(d)' = Confirmed(d) /\ Owed(d)' = Owed(d)
    BY <1>1, <1>2 DEF Confirmed, Owed
  <2>6. Cardinality(Confirmed(c)') + Owed(c)' <= wishes'[c]
    <3>1. CASE phase[a] = "ok"
      <4>1. Confirmed(c)' = Confirmed(c) \cup {a} /\ a \notin Confirmed(c)
        BY <1>1, <3>1 DEF Confirmed, Waiting
      <4>2. Cardinality(Confirmed(c)') = Cardinality(Confirmed(c)) + 1
        BY <4>1, ConfirmedFinite, FS_AddElement
      <4>3. Owed(c) = 1 /\ Owed(c)' = 0
        BY <1>1, <1>2, <1>4, <2>4, <3>1 DEF Owed
      <4> QED
        BY <1>1, <1>4, <4>2, <4>3, ConfirmedFinite DEF PageInv, TypeOK, ConfirmedFitsWishes
    <3>2. CASE phase[a] # "ok"
      <4>1. Confirmed(c)' = Confirmed(c) /\ Owed(c)' = Owed(c)
        BY <1>1, <1>2, <3>2 DEF Confirmed, Owed
      <4> QED
        BY <1>1, <1>4, <4>1 DEF PageInv, ConfirmedFitsWishes
    <3> QED
      BY <3>1, <3>2
  <2> QED
    BY <1>1, <1>4, <2>3, <2>5, <2>6 DEF PageInv, ConfirmedFitsWishes
<1> QED
  BY <1>1, <1>3, <1>4 DEF PageInv

\* A lost answer confirms nothing.
LEMMA PageGivesUp ==
  ASSUME PageInv, NEW a \in Attempt, LoseAnswer(a), TypeOK' PROVE PageInv'
<1> DEFINE c == request[a].client
<1>1. /\ Waiting(a) /\ heard'[a] = "error" /\ c \in Client
      /\ \A b \in Attempt \ {a} : heard'[b] = heard[b]
      /\ \A d \in Client \ {c} : busy'[d] = busy[d]
      /\ UNCHANGED <<page, phase, request, entry, wishes>>
  BY DEF PageInv, TypeOK, LoseAnswer, Waiting, server, Request
<1>2. HeardIsAnswered' /\ UnsentIsUnheard'
  BY <1>1 DEF PageInv, HeardIsAnswered, UnsentIsUnheard, Answered, Waiting
<1>3. ~Waiting(a)' /\ \A b \in Attempt \ {a} : Waiting(b)' = Waiting(b)
  BY <1>1 DEF Waiting
<1>4. \A d \in Client : Confirmed(d)' = Confirmed(d) /\ Owed(d)' = Owed(d)
  BY <1>1 DEF Confirmed, Owed, Waiting
<1>5. ASSUME page.guards, page.clears PROVE WaitingIsBusy' /\ OneIsOut'
  <2>1. \A b \in Attempt \ {a} : Waiting(b) => request[b].client \in Client /\ request[b].client # c
    BY <1>1, <1>5 DEF Waiting, PageInv, TypeOK, OneIsOut, Request
  <2> QED
    BY <1>1, <1>3, <1>5, <2>1 DEF PageInv, WaitingIsBusy, OneIsOut
<1> QED
  BY <1>1, <1>2, <1>4, <1>5 DEF PageInv, ConfirmedFitsWishes

\* A page opened anew has nothing out and no form filled.
LEMMA PageReopen ==
  ASSUME PageInv, NEW c \in Client, Reopen(c), TypeOK' PROVE PageInv'
<1>1. /\ UNCHANGED <<page, phase, request, wishes>> /\ ~entry'[c]
      /\ \A d \in Client \ {c} : entry'[d] = entry[d] /\ busy'[d] = busy[d]
      /\ \A b \in Attempt :
           heard'[b] = IF Waiting(b) /\ request[b].client = c THEN "error" ELSE heard[b]
  BY DEF PageInv, TypeOK, Reopen, server
<1>2. \A b \in Attempt : Waiting(b)' => Waiting(b) /\ request[b].client # c
  BY <1>1 DEF Waiting
<1>3. HeardIsAnswered' /\ UnsentIsUnheard'
  BY <1>1 DEF PageInv, HeardIsAnswered, UnsentIsUnheard, Answered, Waiting
<1>4. \A d \in Client : Confirmed(d)' = Confirmed(d)
  BY <1>1 DEF Confirmed, Waiting
<1>5. \A d \in Client : Owed(d)' - Owed(d) <= wishes'[d] - wishes[d] /\ wishes'[d] \in Nat
  <2>1. \A d \in Client : wishes'[d] = wishes[d] /\ wishes[d] \in Nat
    BY <1>1 DEF PageInv, TypeOK
  <2>2. \A d \in Client : Owed(d)' = 0 \/ Owed(d)' = Owed(d)
    BY <1>1 DEF Owed
  <2>3. \A d \in Client : Owed(d) \in {0, 1}
    BY DEF Owed
  <2> QED
    BY <2>1, <2>2, <2>3
<1>6. ASSUME page.guards, page.clears PROVE WaitingIsBusy' /\ OneIsOut' /\ ConfirmedFitsWishes'
  <2>1. \A b \in Attempt : Waiting(b) => request[b].client \in Client
    BY DEF Waiting, PageInv, TypeOK, Request
  <2>2. WaitingIsBusy' /\ OneIsOut'
    BY <1>1, <1>2, <1>6, <2>1 DEF PageInv, WaitingIsBusy, OneIsOut
  <2> QED
    BY <1>1, <1>4, <1>5, <1>6, <2>2, ConfirmedKept DEF ConfirmedFitsWishes
<1> QED
  BY <1>1, <1>3, <1>6 DEF PageInv

\* Every step keeps what a page knows true.
LEMMA PageStep == PageInv /\ [Next]_vars => PageInv'
<1> SUFFICES ASSUME PageInv, [Next]_vars PROVE PageInv'
  OBVIOUS
<1>1. TypeOK'
  BY TypeStep DEF PageInv
<1>2. CASE UNCHANGED vars
  <2>1. UNCHANGED <<page, phase, heard, request, entry, busy, wishes>>
    BY <1>2 DEF vars, server, browser
  <2> QED
    BY <1>1, <2>1 DEF PageInv, HeardIsAnswered, UnsentIsUnheard, Answered, WaitingIsBusy,
                      OneIsOut, ConfirmedFitsWishes, Waiting, Confirmed, Owed
<1> QED
  BY <1>1, <1>2, PageClick, PageResend, PageProcess, PageHear, PageGivesUp, PageReopen DEF Next

\* At first nothing is out.
LEMMA PageInit == Init => PageInv
<1> SUFFICES ASSUME Init PROVE PageInv
  OBVIOUS
<1>1. \A c : Confirmed(c) = {}
  BY DEF Init, Confirmed
<1> QED
  BY <1>1, TypeInit, FS_EmptySet
  DEF Init, PageInv, HeardIsAnswered, UnsentIsUnheard, WaitingIsBusy, OneIsOut,
      ConfirmedFitsWishes, Waiting, Owed

\* Pages that disable and clear confirm no more than was wanted, for any number
\* of clients, clicks and lost answers.
THEOREM PagesConfirmWhatWasWanted == Spec => []ConfirmedWereWanted
<1>1. Spec => []PageInv
  BY PageInit, PageStep, PTL DEF Spec
<1>2. PageInv => ConfirmedWereWanted
  <2> SUFFICES ASSUME PageInv, page.guards, page.clears, NEW c \in Client
               PROVE  Cardinality(Confirmed(c)) <= wishes[c]
    BY DEF ConfirmedWereWanted
  <2>1. Owed(c) \in {0, 1} /\ wishes[c] \in Nat
    BY DEF Owed, PageInv, TypeOK
  <2> QED
    BY <2>1, ConfirmedFinite DEF PageInv, ConfirmedFitsWishes
<1> QED
  BY <1>1, <1>2, PTL

-----------------------------------------------------------------------------
(* The safety half of PagesRecover.                                        *)

\* A page that frees its controls in finally has them disabled only while a
\* request of its own is out, whose answer or failure will free them.
LockedPagesWait ==
  \A c \in Client :
    page.frees /\ busy[c] => \E a \in Attempt : Waiting(a) /\ request[a].client = c

WaitInv == TypeOK /\ UnsentIsUnheard /\ LockedPagesWait

\* Every step leaves a disabled page its request.
LEMMA WaitStep == WaitInv /\ [Next]_vars => WaitInv'
<1> SUFFICES ASSUME WaitInv, [Next]_vars PROVE WaitInv'
  OBVIOUS
<1>1. TypeOK'
  BY TypeStep DEF WaitInv
<1>2. ASSUME NEW c \in Client, NEW m \in Move, Click(c, m) PROVE UnsentIsUnheard' /\ LockedPagesWait'
  <2>1. PICK a \in Attempt, r \in Request : Send(a, r) /\ r.client = c
    BY <1>2, ClickSends DEF WaitInv
  <2>2. /\ phase[a] = "unsent" /\ phase'[a] = "sent" /\ request'[a].client = c
        /\ \A b \in Attempt \ {a} : phase'[b] = phase[b] /\ request'[b] = request[b]
        /\ UNCHANGED <<page, heard>>
        /\ \A d \in Client \ {c} : busy'[d] = busy[d]
    BY <1>2, <2>1, Sent DEF WaitInv, Click, TypeOK
  <2>3. Waiting(a)' /\ \A b \in Attempt \ {a} : Waiting(b)' = Waiting(b)
    BY <2>2 DEF Waiting, WaitInv, UnsentIsUnheard
  <2>4. ~Waiting(a)
    BY <2>2 DEF Waiting
  <2>5. LockedPagesWait'
    BY <2>2, <2>3, <2>4 DEF WaitInv, LockedPagesWait
  <2> QED
    BY <2>2, <2>5 DEF WaitInv, UnsentIsUnheard
<1>3. ASSUME NEW b \in Attempt, Resend(b) PROVE UnsentIsUnheard' /\ LockedPagesWait'
  <2>1. request[b] \in Request
    BY <1>3 DEF WaitInv, TypeOK, Resend
  <2>2. PICK a \in Attempt : Send(a, request[b]) /\ heard' = [heard EXCEPT ![a] = "other"]
    BY <1>3 DEF Resend
  <2>3. /\ phase[a] = "unsent" /\ phase'[a] = "sent"
        /\ \A d \in Attempt \ {a} :
             phase'[d] = phase[d] /\ request'[d] = request[d] /\ heard'[d] = heard[d]
        /\ UNCHANGED <<page, busy>>
    BY <1>3, <2>1, <2>2, Sent DEF WaitInv, TypeOK, Resend, browser
  <2>4. ~Waiting(a) /\ \A d \in Attempt \ {a} : Waiting(d)' = Waiting(d)
    BY <2>3 DEF Waiting
  <2> QED
    BY <2>3, <2>4 DEF WaitInv, UnsentIsUnheard, LockedPagesWait
<1>4. ASSUME NEW a \in Attempt, Process(a) PROVE UnsentIsUnheard' /\ LockedPagesWait'
  <2>1. PICK p \in Phase : Serve(a, p) /\ p # "unsent" /\ phase[a] # "unsent"
    BY <1>4 DEF Process, Key, Replay, Lock, Commit, Abort, Phase
  <2>2. /\ phase'[a] # "unsent" /\ \A b \in Attempt \ {a} : phase'[b] = phase[b]
        /\ UNCHANGED <<page, request, heard, busy>>
    BY <2>1, Served DEF WaitInv
  <2>3. \A b \in Attempt : Waiting(b)' = Waiting(b)
    BY <2>1, <2>2 DEF Waiting
  <2> QED
    BY <2>1, <2>2, <2>3 DEF WaitInv, UnsentIsUnheard, LockedPagesWait
<1>5. ASSUME NEW a \in Attempt, Hear(a) \/ LoseAnswer(a) PROVE UnsentIsUnheard' /\ LockedPagesWait'
  <2> DEFINE c == request[a].client
  <2>1. /\ Waiting(a) /\ c \in Client /\ UNCHANGED <<page, phase, request>>
        /\ heard'[a] # "nothing" /\ \A b \in Attempt \ {a} : heard'[b] = heard[b]
    BY <1>5 DEF WaitInv, TypeOK, Hear, LoseAnswer, Waiting, server, Request
  <2>2. page.frees => ~busy'[c]
    BY <1>5, <2>1 DEF WaitInv, TypeOK, Hear, LoseAnswer
  <2>3. \A d \in Client \ {c} : busy'[d] = busy[d]
    BY <1>5, <2>1 DEF WaitInv, TypeOK, Hear, LoseAnswer
  <2>4. \A b \in Attempt \ {a} : Waiting(b)' = Waiting(b)
    BY <2>1 DEF Waiting
  <2>5. LockedPagesWait'
    BY <2>1, <2>2, <2>3, <2>4 DEF WaitInv, LockedPagesWait
  <2> QED
    BY <2>1, <2>5 DEF WaitInv, UnsentIsUnheard, Waiting
<1>6. ASSUME NEW c \in Client, Reopen(c) PROVE UnsentIsUnheard' /\ LockedPagesWait'
  <2>1. /\ UNCHANGED <<page, phase, request>> /\ ~busy'[c]
        /\ \A d \in Client \ {c} : busy'[d] = busy[d]
        /\ \A b \in Attempt :
             heard'[b] = IF Waiting(b) /\ request[b].client = c THEN "error" ELSE heard[b]
    BY <1>6 DEF WaitInv, TypeOK, Reopen, server
  <2>2. \A b \in Attempt : request[b].client # c => Waiting(b)' = Waiting(b)
    BY <2>1 DEF Waiting
  <2>3. LockedPagesWait'
    BY <2>1, <2>2 DEF WaitInv, LockedPagesWait
  <2> QED
    BY <2>1, <2>3 DEF WaitInv, UnsentIsUnheard, Waiting
<1>7. CASE UNCHANGED vars
  <2>1. UNCHANGED <<page, phase, heard, request, busy>>
    BY <1>7 DEF vars, server, browser
  <2> QED
    BY <1>1, <2>1 DEF WaitInv, UnsentIsUnheard, LockedPagesWait, Waiting
<1> QED
  BY <1>1, <1>2, <1>3, <1>4, <1>5, <1>6, <1>7 DEF Next, WaitInv

\* A page that frees its controls in finally is never disabled for nothing, for
\* any number of clients, lost answers and reopened pages.
THEOREM LockedPagesWaitForAnswers == Spec => []LockedPagesWait
<1>1. Init => WaitInv
  BY TypeInit DEF Init, WaitInv, UnsentIsUnheard, LockedPagesWait
<1>2. Spec => []WaitInv
  BY <1>1, WaitStep, PTL DEF Spec
<1> QED
  BY <1>2, PTL DEF WaitInv

=============================================================================
