------------------------------- MODULE Outbox -------------------------------
(***************************************************************************)
(* The mail outbox: notification-outbox.ts, notification.service.ts and    *)
(* migration 0038.  A business command inserts notifications in its own    *)
(* transaction; API processes claim them one at a time, send the mail with *)
(* no transaction open, and record the result in an UPDATE that no longer  *)
(* looks at who holds the claim.  Between the claim, the send and the      *)
(* record the process may die, and a claim older than five minutes may be  *)
(* taken over by another process while the first is still sending.         *)
(*                                                                         *)
(* Time is abstracted to two facts of a row: its lease is over, its        *)
(* backoff is over.  Rows are claimed in no fixed order: SKIP LOCKED       *)
(* passes over rows that other transactions hold.                          *)
(***************************************************************************)
EXTENDS Integers, FiniteSets

CONSTANTS
  Notification,  \* rows ever inserted: one per event, subject and recipient
  Process,       \* API processes that run processDue
  MaxAttempts,   \* claims before a row is given up (8 in the code)
  MaxRetries,    \* bound: manual retries of one row
  MaxCrashes     \* bound: crashes and database errors that end a round

ASSUME OutboxAssumption ==
  /\ MaxAttempts \in Nat \ {0}
  /\ MaxRetries \in Nat
  /\ MaxCrashes \in Nat
  /\ IsFiniteSet(Process)

VARIABLES
  status,    \* notification_outbox.status, "none" before the row exists
  attempts,  \* notification_outbox.attempts
  lease,     \* locked_at: "none" if NULL, "held", "over" after five minutes
  due,       \* next_attempt_at is NULL or has passed
  worker,    \* what a process is doing in processDue
  mails,     \* how often the mail server has taken the mail
  retries,   \* how often an administrator has retried the row
  excuses,   \* how often the row was taken over or a success was not learnt
  crashes    \* crashes so far

rowVars == <<status, attempts, lease, due>>
countVars == <<retries, excuses, crashes>>
vars == <<rowVars, worker, mails, countVars>>

Idle == [phase |-> "idle"]
Down == [phase |-> "down"]

\* A process at work on n; read is item.attempts, read before the increment.
At(phase, n, read) == [phase |-> phase, item |-> n, read |-> read]
Phase == {"sending", "accepted", "refused", "unknown"}

Busy(p) == worker[p].phase \in Phase

-----------------------------------------------------------------------------
Init ==
  /\ status = [n \in Notification |-> "none"]
  /\ attempts = [n \in Notification |-> 0]
  /\ lease = [n \in Notification |-> "none"]
  /\ due = [n \in Notification |-> FALSE]
  /\ worker = [p \in Process |-> Idle]
  /\ mails = [n \in Notification |-> 0]
  /\ retries = [n \in Notification |-> 0]
  /\ excuses = [n \in Notification |-> 0]
  /\ crashes = 0

\* The business command commits with its notification; ON CONFLICT DO
\* NOTHING leaves a row that exists as it is.
Enqueue(n) ==
  /\ status[n] = "none"
  /\ status' = [status EXCEPT ![n] = "pending"]
  /\ due' = [due EXCEPT ![n] = TRUE]
  /\ UNCHANGED <<attempts, lease, worker, mails, countVars>>

\* Mutant of Claimable: rows in processing are never taken over.
ClaimableFresh(n) ==
  status[n] \in {"pending", "failed"} /\ due[n] /\ attempts[n] < MaxAttempts

\* Mutant of Claimable: rows in processing are taken over at once.
ClaimableHeld(n) ==
  /\ status[n] = "processing" \/ (status[n] \in {"pending", "failed"} /\ due[n])
  /\ attempts[n] < MaxAttempts

Claimable(n) ==
  /\ \/ status[n] \in {"pending", "failed"} /\ due[n]
     \/ status[n] = "processing" /\ lease[n] = "over"
  /\ attempts[n] < MaxAttempts

\* One short transaction: select, mark, count the attempt.
Claim(p, n) ==
  /\ worker[p] = Idle
  /\ Claimable(n)
  /\ status' = [status EXCEPT ![n] = "processing"]
  /\ attempts' = [attempts EXCEPT ![n] = @ + 1]
  /\ lease' = [lease EXCEPT ![n] = "held"]
  /\ worker' = [worker EXCEPT ![p] = At("sending", n, attempts[n])]
  /\ excuses' = [excuses EXCEPT ![n] = @ + IF lease[n] = "over" THEN 1 ELSE 0]
  /\ UNCHANGED <<due, mails, retries, crashes>>

Proceed(p, phase) == worker' = [worker EXCEPT ![p].phase = phase]

\* sendMail resolves.
Accept(p) ==
  /\ worker[p].phase = "sending"
  /\ mails' = [mails EXCEPT ![worker[p].item] = @ + 1]
  /\ Proceed(p, "accepted")
  /\ UNCHANGED <<rowVars, countVars>>

\* sendMail rejects; the server did not take the mail.
Refuse(p) ==
  /\ worker[p].phase = "sending"
  /\ Proceed(p, "refused")
  /\ UNCHANGED <<rowVars, mails, countVars>>

\* sendMail rejects, a timeout, although the server took the mail.
LoseReply(p) ==
  /\ worker[p].phase = "sending"
  /\ mails' = [mails EXCEPT ![worker[p].item] = @ + 1]
  /\ excuses' = [excuses EXCEPT ![worker[p].item] = @ + 1]
  /\ Proceed(p, "unknown")
  /\ UNCHANGED <<rowVars, retries, crashes>>

\* The UPDATE to 'sent': whatever the row has become in the meantime.
UpdateSent(n) ==
  /\ status' = [status EXCEPT ![n] = "sent"]
  /\ lease' = [lease EXCEPT ![n] = "none"]
  /\ due' = [due EXCEPT ![n] = TRUE]
  /\ UNCHANGED attempts

RecordSent(p) ==
  /\ worker[p].phase = "accepted"
  /\ UpdateSent(worker[p].item)
  /\ worker' = [worker EXCEPT ![p] = Idle]
  /\ UNCHANGED <<mails, countVars>>

\* The UPDATE to 'sent' throws inside the try: the catch will record a failure.
LoseRecord(p) ==
  /\ worker[p].phase = "accepted"
  /\ crashes < MaxCrashes
  /\ crashes' = crashes + 1
  /\ excuses' = [excuses EXCEPT ![worker[p].item] = @ + 1]
  /\ Proceed(p, "unknown")
  /\ UNCHANGED <<rowVars, mails, retries>>

Failing(p) == worker[p].phase \in {"refused", "unknown"}

\* Mutant of UpdateFailed: the lock is kept.
UpdateLocked(n, read) ==
  /\ status[n] # "sent"
  /\ status' = [status EXCEPT ![n] = "failed"]
  /\ due' = [due EXCEPT ![n] = read + 1 >= MaxAttempts]
  /\ UNCHANGED <<attempts, lease>>

\* Mutant of UpdateFailed: the attempts are written as this process counts them.
UpdateStale(n, read) ==
  /\ status[n] # "sent"
  /\ status' = [status EXCEPT ![n] = "failed"]
  /\ attempts' = [attempts EXCEPT ![n] = read + 1]
  /\ lease' = [lease EXCEPT ![n] = "none"]
  /\ due' = [due EXCEPT ![n] = read + 1 >= MaxAttempts]

\* The UPDATE to 'failed'.  After the last attempt, as this process counts
\* them, next_attempt_at becomes NULL.
UpdateFailed(n, read) ==
  /\ status[n] # "sent"
  /\ status' = [status EXCEPT ![n] = "failed"]
  /\ lease' = [lease EXCEPT ![n] = "none"]
  /\ due' = [due EXCEPT ![n] = read + 1 >= MaxAttempts]
  /\ UNCHANGED attempts

\* The catch.
RecordFailed(p) ==
  /\ Failing(p)
  /\ UpdateFailed(worker[p].item, worker[p].read)
  /\ worker' = [worker EXCEPT ![p] = Idle]
  /\ UNCHANGED <<mails, countVars>>

\* Mutant of FailureRejected: the failure of any row may be lost.
FailureLost(p) ==
  /\ Failing(p)
  /\ worker' \in {[worker EXCEPT ![p] = w] : w \in {Idle, Down}}
  /\ UNCHANGED <<rowVars, mails, countVars>>

\* On a row that another process has recorded as sent the UPDATE breaks
\* CHECK ((status='sent')=(sent_at IS NOT NULL)) and throws out of processDue:
\* a failed request, or an unhandled rejection that ends the process.
FailureRejected(p) ==
  /\ Failing(p)
  /\ status[worker[p].item] = "sent"
  /\ worker' \in {[worker EXCEPT ![p] = w] : w \in {Idle, Down}}
  /\ UNCHANGED <<rowVars, mails, countVars>>

\* The process dies, or a database error ends its round, at any point.
Crash(p) ==
  /\ worker[p] # Down
  /\ crashes < MaxCrashes
  /\ crashes' = crashes + 1
  /\ worker' = [worker EXCEPT ![p] = Down]
  /\ UNCHANGED <<rowVars, mails, retries, excuses>>

Restart(p) ==
  /\ worker[p] = Down
  /\ worker' = [worker EXCEPT ![p] = Idle]
  /\ UNCHANGED <<rowVars, mails, countVars>>

\* Five minutes pass.
LeaseEnds(n) ==
  /\ lease[n] = "held"
  /\ lease' = [lease EXCEPT ![n] = "over"]
  /\ UNCHANGED <<status, attempts, due, worker, mails, countVars>>

\* The backoff passes.
BackoffEnds(n) ==
  /\ status[n] \in {"pending", "failed"} /\ ~due[n]
  /\ due' = [due EXCEPT ![n] = TRUE]
  /\ UNCHANGED <<status, attempts, lease, worker, mails, countVars>>

\* An administrator retries a failed row.
Retry(n) ==
  /\ status[n] = "failed"
  /\ retries[n] < MaxRetries
  /\ retries' = [retries EXCEPT ![n] = @ + 1]
  /\ status' = [status EXCEPT ![n] = "pending"]
  /\ attempts' = [attempts EXCEPT ![n] = 0]
  /\ due' = [due EXCEPT ![n] = TRUE]
  /\ UNCHANGED <<lease, worker, mails, excuses, crashes>>

ClaimAny(p) == \E n \in Notification : Claim(p, n)
SendEnds(p) == Accept(p) \/ Refuse(p) \/ LoseReply(p)
Record(p) == RecordSent(p) \/ RecordFailed(p) \/ FailureRejected(p)

Next ==
  \/ \E n \in Notification : Enqueue(n) \/ LeaseEnds(n) \/ BackoffEnds(n) \/ Retry(n)
  \/ \E p \in Process :
       ClaimAny(p) \/ SendEnds(p) \/ Record(p) \/ LoseRecord(p) \/ Crash(p) \/ Restart(p)

Spec == Init /\ [][Next]_vars

\* The timer of each process calls processDue every 15 seconds, sendMail ends
\* (the mailer has timeouts), a statement ends, time passes, and the service
\* manager restarts a process that died.  Nobody is obliged to retry a row.
Fairness ==
  /\ \A p \in Process :
       WF_vars(ClaimAny(p)) /\ WF_vars(SendEnds(p)) /\ WF_vars(Record(p)) /\ WF_vars(Restart(p))
  /\ \A n \in Notification : WF_vars(LeaseEnds(n)) /\ WF_vars(BackoffEnds(n))

FairSpec == Spec /\ Fairness

-----------------------------------------------------------------------------
Working == [phase : Phase, item : Notification, read : 0..(MaxAttempts - 1)]

\* The types, with the CHECKs of the table: a row is locked exactly while it
\* is processing, and attempts stays in range.
TypeOK ==
  /\ status \in [Notification -> {"none", "pending", "processing", "sent", "failed"}]
  /\ attempts \in [Notification -> 0..MaxAttempts]
  /\ lease \in [Notification -> {"none", "held", "over"}]
  /\ due \in [Notification -> BOOLEAN]
  /\ worker \in [Process -> {Idle, Down} \cup Working]
  /\ mails \in [Notification -> Nat]
  /\ retries \in [Notification -> 0..MaxRetries]
  /\ excuses \in [Notification -> Nat]
  /\ crashes \in 0..MaxCrashes
  /\ \A n \in Notification : status[n] = "processing" <=> lease[n] # "none"

\* A row that says its mail was sent is right, whoever wrote it and however
\* late: the server has taken the mail.
SentMeansDelivered ==
  \A n \in Notification : status[n] = "sent" => mails[n] > 0

\* Processes that may still deliver n.
Sending(n) == {p \in Process : worker[p].phase = "sending" /\ worker[p].item = n}

\* A recipient gets the mail a second time only if a claim was taken over or a
\* success was not learnt: never because two processes claim the same row, and
\* never more often than that happened.
DuplicatesExplained ==
  \A n \in Notification : mails[n] + Cardinality(Sending(n)) <= 1 + excuses[n]

\* A row is given up after MaxAttempts sends in all, however its workers
\* overlap: each further round needs an administrator.
SendsAreBounded ==
  \A n \in Notification :
    mails[n] + Cardinality(Sending(n)) <= attempts[n] + MaxAttempts * retries[n]

\* A late result never undoes the record of a delivered mail.
SentIsFinal ==
  [][\A n \in Notification : status[n] = "sent" => status'[n] = "sent"]_vars

\* The promise to the recipients that this module implements.
Asked == {n \in Notification : status[n] # "none"}
Reported == {n \in Notification : status[n] = "sent"}

Promise == INSTANCE AtLeastOnce WITH asked <- Asked, copies <- mails, closed <- Reported

\* Claims, takeovers, late results, crashes and retries deliver as promised: a
\* row is sent only with its mail taken, stays sent, and each mail beyond the
\* first is preceded by a takeover or a success nobody learnt, of its own.
ImplementsAtLeastOnce == Promise!Spec

\* Rows in processing that no process is at work on.
Abandoned ==
  {n \in Notification :
     status[n] = "processing" /\ \A p \in Process : Busy(p) => worker[p].item # n}

\* Only crashes leave rows in processing with nobody to record a result, one
\* row each: overlapping workers, late results and retries never do.
StuckRowsAreCrashes ==
  IsFiniteSet(Abandoned) /\ Cardinality(Abandoned) <= crashes

\* No notification is forgotten: every one is eventually sent or has had all
\* its attempts, whatever crashed in between.
EventuallySentOrExhausted ==
  \A n \in Notification :
    status[n] # "none" ~> status[n] = "sent" \/ attempts[n] = MaxAttempts

\* docs/changes/2026-09-09-notification-outbox.md:15: a row stuck in processing
\* for five minutes or more is recovered.
StuckIsRecovered ==
  \A n \in Notification :
    status[n] = "processing" /\ lease[n] = "over" ~> status[n] # "processing" \/ lease[n] = "held"

=============================================================================
