---------------------------- MODULE OutboxProofs ----------------------------
(* The safety properties of the outbox, for any number of notifications,   *)
(* processes, attempts, retries and crashes.                               *)
EXTENDS Outbox, FiniteSetTheorems, TLAPS

\* What a process does next with the notification it holds: only its phase.
LEMMA ProceedKeepsItem ==
  ASSUME TypeOK, NEW p \in Process, Busy(p), NEW phase \in Phase, Proceed(p, phase)
  PROVE  /\ worker' \in [Process -> {Idle, Down} \cup Working]
         /\ worker[p] \in Working
         /\ worker'[p].phase = phase
         /\ worker'[p].item = worker[p].item
         /\ \A q \in Process \ {p} : worker'[q] = worker[q]
<1>1. worker[p] \in Working
  BY DEF TypeOK, Busy, Idle, Down, Phase
<1>2. [worker[p] EXCEPT !.phase = phase] \in Working
  BY <1>1 DEF Working
<1> QED
  BY <1>1, <1>2 DEF TypeOK, Proceed, Working

\* Every step keeps the types and the CHECKs of the table.
LEMMA TypeStep == TypeOK /\ [Next]_vars => TypeOK'
<1> SUFFICES ASSUME TypeOK, [Next]_vars PROVE TypeOK'
  OBVIOUS
<1> USE OutboxAssumption
<1>1. ASSUME NEW n \in Notification, Enqueue(n) PROVE TypeOK'
  BY <1>1 DEF TypeOK, Enqueue, countVars
<1>2. ASSUME NEW n \in Notification, LeaseEnds(n) PROVE TypeOK'
  BY <1>2 DEF TypeOK, LeaseEnds, countVars
<1>3. ASSUME NEW n \in Notification, BackoffEnds(n) PROVE TypeOK'
  BY <1>3 DEF TypeOK, BackoffEnds, countVars
<1>4. ASSUME NEW n \in Notification, Retry(n) PROVE TypeOK'
  BY <1>4 DEF TypeOK, Retry
<1>5. ASSUME NEW p \in Process, NEW n \in Notification, Claim(p, n) PROVE TypeOK'
  <2>1. At("sending", n, attempts[n]) \in Working
    BY <1>5 DEF TypeOK, Claim, Claimable, At, Working, Phase
  <2> QED
    BY <1>5, <2>1 DEF TypeOK, Claim, Claimable
<1>6. ASSUME NEW p \in Process, SendEnds(p) PROVE TypeOK'
  <2>1. Busy(p) /\ worker[p] \in Working
    BY <1>6 DEF TypeOK, SendEnds, Accept, Refuse, LoseReply, Busy, Phase, Idle, Down
  <2>2. worker[p].item \in Notification
    BY <2>1 DEF Working
  <2>3. worker' \in [Process -> {Idle, Down} \cup Working]
    BY <1>6, <2>1, ProceedKeepsItem DEF SendEnds, Accept, Refuse, LoseReply, Phase
  <2> QED
    BY <1>6, <2>2, <2>3 DEF TypeOK, SendEnds, Accept, Refuse, LoseReply, rowVars, countVars
<1>7. ASSUME NEW p \in Process, Record(p) PROVE TypeOK'
  <2>1. worker[p] \in Working
    BY <1>7 DEF TypeOK, Record, RecordSent, UpdateSent, RecordFailed, UpdateFailed,
                FailureRejected, Failing, Idle, Down
  <2>2. worker[p].item \in Notification
    BY <2>1 DEF Working
  <2>3. CASE RecordSent(p)
    BY <2>2, <2>3 DEF TypeOK, RecordSent, UpdateSent, countVars
  <2>4. CASE RecordFailed(p)
    BY <2>2, <2>4 DEF TypeOK, RecordFailed, UpdateFailed, countVars
  <2>5. CASE FailureRejected(p)
    BY <2>5 DEF TypeOK, FailureRejected, rowVars, countVars
  <2> QED
    BY <1>7, <2>3, <2>4, <2>5 DEF Record
<1>8. ASSUME NEW p \in Process, LoseRecord(p) PROVE TypeOK'
  <2>1. Busy(p) /\ worker[p] \in Working
    BY <1>8 DEF TypeOK, LoseRecord, Busy, Phase, Idle, Down
  <2>2. worker[p].item \in Notification
    BY <2>1 DEF Working
  <2>3. worker' \in [Process -> {Idle, Down} \cup Working]
    BY <1>8, <2>1, ProceedKeepsItem DEF LoseRecord, Phase
  <2> QED
    BY <1>8, <2>2, <2>3 DEF TypeOK, LoseRecord, rowVars
<1>9. ASSUME NEW p \in Process, Crash(p) \/ Restart(p) PROVE TypeOK'
  BY <1>9 DEF TypeOK, Crash, Restart, rowVars, countVars
<1>10. CASE UNCHANGED vars
  BY <1>10 DEF TypeOK, vars, rowVars, countVars
<1> QED
  BY <1>1, <1>2, <1>3, <1>4, <1>5, <1>6, <1>7, <1>8, <1>9, <1>10 DEF Next, ClaimAny

\* The outbox starts in a state of its types.
LEMMA TypeInit == Init => TypeOK
  BY OutboxAssumption DEF Init, TypeOK

\* The types and the CHECKs of the table hold in every state.
THEOREM OutboxTypes == Spec => []TypeOK
  BY TypeInit, TypeStep, PTL DEF Spec


-----------------------------------------------------------------------------
(* A mail that a row, or a process, reports as taken was taken.            *)

ReportsAreTrue ==
  /\ SentMeansDelivered
  /\ \A p \in Process : worker[p].phase = "accepted" => mails[worker[p].item] > 0

\* A report of success, on the row or held by a process, stays true.
LEMMA ReportsStep == TypeOK /\ ReportsAreTrue /\ [Next]_vars => ReportsAreTrue'
<1> SUFFICES ASSUME TypeOK, ReportsAreTrue, [Next]_vars PROVE ReportsAreTrue'
  OBVIOUS
<1> USE DEF ReportsAreTrue, SentMeansDelivered
<1>1. ASSUME NEW n \in Notification, Enqueue(n) \/ LeaseEnds(n) \/ BackoffEnds(n) \/ Retry(n)
      PROVE  ReportsAreTrue'
  BY <1>1 DEF TypeOK, Enqueue, LeaseEnds, BackoffEnds, Retry
<1>2. ASSUME NEW p \in Process, NEW n \in Notification, Claim(p, n) PROVE ReportsAreTrue'
  BY <1>2 DEF TypeOK, Claim, At
<1>3. ASSUME NEW p \in Process, SendEnds(p) PROVE ReportsAreTrue'
  <2>1. Busy(p) /\ worker[p] \in Working
    BY <1>3 DEF TypeOK, SendEnds, Accept, Refuse, LoseReply, Busy, Phase, Idle, Down
  <2>2. worker[p].item \in Notification
    BY <2>1 DEF Working
  <2>3. PICK phase \in Phase :
          /\ Proceed(p, phase)
          /\ phase = "accepted" => Accept(p)
    BY <1>3 DEF SendEnds, Accept, Refuse, LoseReply, Phase
  <2>4. /\ worker'[p].phase = phase
        /\ worker'[p].item = worker[p].item
        /\ \A q \in Process \ {p} : worker'[q] = worker[q]
    BY <2>1, <2>3, ProceedKeepsItem
  <2>5. \A n \in Notification : mails[n] > 0 => mails'[n] > 0
    BY <1>3, <2>2 DEF TypeOK, SendEnds, Accept, Refuse, LoseReply
  <2>6. \A q \in Process : worker[q].phase = "accepted" => worker[q].item \in Notification
    BY DEF TypeOK, Working, Idle, Down
  <2>7. phase = "accepted" => mails'[worker[p].item] > 0
    BY <2>2, <2>3 DEF TypeOK, Accept
  <2>8. status' = status
    BY <1>3 DEF SendEnds, Accept, Refuse, LoseReply, rowVars
  <2> QED
    BY <2>4, <2>5, <2>6, <2>7, <2>8
<1>4. ASSUME NEW p \in Process, Record(p) PROVE ReportsAreTrue'
  <2>1. worker[p] \in Working
    BY <1>4 DEF TypeOK, Record, RecordSent, UpdateSent, RecordFailed, UpdateFailed,
                FailureRejected, Failing, Idle, Down
  <2>2. worker[p].item \in Notification
    BY <2>1 DEF Working
  <2> QED
    BY <1>4, <2>2 DEF TypeOK, Record, RecordSent, UpdateSent, RecordFailed, UpdateFailed,
                      FailureRejected, rowVars, Idle, Down
<1>5. ASSUME NEW p \in Process, LoseRecord(p) PROVE ReportsAreTrue'
  <2>1. Busy(p)
    BY <1>5 DEF LoseRecord, Busy, Phase
  <2>2. /\ worker'[p].phase = "unknown"
        /\ \A q \in Process \ {p} : worker'[q] = worker[q]
    BY <1>5, <2>1, ProceedKeepsItem DEF LoseRecord, Phase
  <2> QED
    BY <1>5, <2>2 DEF LoseRecord, rowVars
<1>6. ASSUME NEW p \in Process, Crash(p) \/ Restart(p) PROVE ReportsAreTrue'
  BY <1>6 DEF TypeOK, Crash, Restart, rowVars, Idle, Down
<1>7. CASE UNCHANGED vars
  BY <1>7 DEF vars, rowVars
<1> QED
  BY <1>1, <1>2, <1>3, <1>4, <1>5, <1>6, <1>7 DEF Next, ClaimAny

\* A row recorded as sent had its mail taken by the server, for every
\* interleaving of claims, late results and crashes.
THEOREM OutboxSentMeansDelivered == Spec => []SentMeansDelivered
<1>1. Init => ReportsAreTrue
  BY DEF Init, ReportsAreTrue, SentMeansDelivered, Idle
<1>2. ReportsAreTrue => SentMeansDelivered
  BY DEF ReportsAreTrue
<1> QED
  BY <1>1, <1>2, ReportsStep, OutboxTypes, PTL DEF Spec

\* No step takes a row out of 'sent': a late failure is refused by the CHECK,
\* a claim and a retry do not choose such a row.
THEOREM OutboxSentIsFinal == Spec => SentIsFinal
<1>1. TypeOK /\ [Next]_vars => [\A n \in Notification : status[n] = "sent" => status'[n] = "sent"]_vars
  <2> SUFFICES ASSUME TypeOK, Next, NEW n \in Notification, status[n] = "sent"
               PROVE  status'[n] = "sent"
    OBVIOUS
  <2>1. ASSUME NEW m \in Notification, Enqueue(m) \/ LeaseEnds(m) \/ BackoffEnds(m) \/ Retry(m)
        PROVE  status'[n] = "sent"
    BY <2>1 DEF TypeOK, Enqueue, LeaseEnds, BackoffEnds, Retry
  <2>2. ASSUME NEW p \in Process, NEW m \in Notification, Claim(p, m) PROVE status'[n] = "sent"
    BY <2>2 DEF TypeOK, Claim, Claimable
  <2>3. ASSUME NEW p \in Process,
               SendEnds(p) \/ LoseRecord(p) \/ Crash(p) \/ Restart(p) \/ FailureRejected(p)
        PROVE  status'[n] = "sent"
    BY <2>3 DEF SendEnds, Accept, Refuse, LoseReply, LoseRecord, Crash, Restart,
                FailureRejected, rowVars
  <2>4. ASSUME NEW p \in Process, RecordSent(p) \/ RecordFailed(p) PROVE status'[n] = "sent"
    BY <2>4 DEF TypeOK, RecordSent, UpdateSent, RecordFailed, UpdateFailed
  <2> QED
    BY <2>1, <2>2, <2>3, <2>4 DEF Next, ClaimAny, Record
<1> QED
  BY <1>1, OutboxTypes, PTL DEF Spec, SentIsFinal

-----------------------------------------------------------------------------
(* Counting the processes that may still deliver, or still report, a mail. *)

Held(n, phases) == {p \in Process : worker[p].phase \in phases /\ worker[p].item = n}
Unreported == {"sending", "refused", "unknown"}

\* How the number of processes in a set changes when only p comes or goes.
LEMMA OneProcess ==
  ASSUME NEW A \in SUBSET Process, NEW B \in SUBSET Process, NEW p \in Process
  PROVE  /\ Cardinality(A) \in Nat /\ Cardinality(B) \in Nat
         /\ B \subseteq A => Cardinality(B) <= Cardinality(A)
         /\ B \subseteq A \cup {p} => Cardinality(B) <= Cardinality(A) + 1
         /\ B \subseteq A \ {p} /\ p \in A => Cardinality(B) + 1 <= Cardinality(A)
<1>1. IsFiniteSet(A) /\ IsFiniteSet(B)
  BY OutboxAssumption, FS_Subset
<1>2. /\ IsFiniteSet(A \cup {p}) /\ IsFiniteSet(A \ {p})
      /\ Cardinality(A \cup {p}) <= Cardinality(A) + 1
      /\ p \in A => Cardinality(A \ {p}) = Cardinality(A) - 1
  BY <1>1, FS_AddElement, FS_RemoveElement, FS_CardinalityType
<1>3. /\ Cardinality(A) \in Nat /\ Cardinality(B) \in Nat
      /\ Cardinality(A \cup {p}) \in Nat /\ Cardinality(A \ {p}) \in Nat
  BY <1>1, <1>2, FS_CardinalityType
<1>4. /\ B \subseteq A => Cardinality(B) <= Cardinality(A)
      /\ B \subseteq A \cup {p} => Cardinality(B) <= Cardinality(A \cup {p})
      /\ B \subseteq A \ {p} => Cardinality(B) <= Cardinality(A \ {p})
  BY <1>1, <1>2, FS_Subset
<1> QED
  BY <1>2, <1>3, <1>4

\* A delivery beyond the first, past or still possible, has its excuse: while
\* the row is neither claimed nor sent there is none left without one.
DeliveriesAccounted ==
  \A n \in Notification :
    mails[n] + Cardinality(Held(n, Unreported))
      <= excuses[n] + IF status[n] \in {"processing", "sent"} THEN 1 ELSE 0

\* The same for the processes at work on a notification, over a step of p.
LEMMA HeldStep ==
  ASSUME NEW n, NEW phases, NEW p \in Process,
         \A q \in Process \ {p} : worker'[q] = worker[q]
  PROVE  LET old == Cardinality(Held(n, phases))
             new == Cardinality(Held(n, phases)')
         IN  /\ old \in Nat /\ new \in Nat
             /\ new <= old + 1
             /\ p \notin Held(n, phases)' \/ p \in Held(n, phases) => new <= old
             /\ p \notin Held(n, phases)' /\ p \in Held(n, phases) => new + 1 <= old
<1>1. /\ Held(n, phases) \in SUBSET Process
      /\ Held(n, phases)' \in SUBSET Process
      /\ Held(n, phases)' \subseteq Held(n, phases) \cup {p}
  BY DEF Held
<1>2. /\ p \notin Held(n, phases)' => Held(n, phases)' \subseteq Held(n, phases) \ {p}
      /\ p \notin Held(n, phases)' \/ p \in Held(n, phases)
           => Held(n, phases)' \subseteq Held(n, phases)
  BY <1>1
<1> HIDE DEF Held
<1> QED
  BY <1>1, <1>2, OneProcess

\* The process that a step moves from one phase to the next, and only it.
LEMMA PhaseStep ==
  ASSUME TypeOK, NEW p \in Process, SendEnds(p) \/ LoseRecord(p)
  PROVE  /\ worker[p] \in Working /\ worker[p].item \in Notification
         /\ worker'[p].item = worker[p].item
         /\ Accept(p) => worker[p].phase = "sending" /\ worker'[p].phase = "accepted"
         /\ Refuse(p) => worker[p].phase = "sending" /\ worker'[p].phase = "refused"
         /\ LoseReply(p) => worker[p].phase = "sending" /\ worker'[p].phase = "unknown"
         /\ LoseRecord(p) => worker[p].phase = "accepted" /\ worker'[p].phase = "unknown"
         /\ \A q \in Process \ {p} : worker'[q] = worker[q]
<1>1. Busy(p)
  BY DEF SendEnds, Accept, Refuse, LoseReply, LoseRecord, Busy, Phase
<1>2. ASSUME NEW phase \in Phase, Proceed(p, phase)
      PROVE  /\ worker[p] \in Working /\ worker[p].item \in Notification
             /\ worker'[p].phase = phase /\ worker'[p].item = worker[p].item
             /\ \A q \in Process \ {p} : worker'[q] = worker[q]
  <2>1. worker[p] \in Working
    BY <1>1, <1>2, ProceedKeepsItem
  <2> QED
    BY <1>1, <1>2, <2>1, ProceedKeepsItem DEF Working
<1>3. /\ Accept(p) => Proceed(p, "accepted") /\ worker[p].phase = "sending"
      /\ Refuse(p) => Proceed(p, "refused") /\ worker[p].phase = "sending"
      /\ LoseReply(p) => Proceed(p, "unknown") /\ worker[p].phase = "sending"
      /\ LoseRecord(p) => Proceed(p, "unknown") /\ worker[p].phase = "accepted"
  BY DEF Accept, Refuse, LoseReply, LoseRecord
<1>4. {"accepted", "refused", "unknown"} \subseteq Phase
  BY DEF Phase
<1> QED
  BY <1>2, <1>3, <1>4 DEF SendEnds

\* A process that records its result, or dies, holds nothing afterwards.
LEMMA RoundEnds ==
  ASSUME TypeOK, NEW p \in Process, Record(p) \/ Crash(p) \/ Restart(p)
  PROVE  /\ worker'[p] \in {Idle, Down}
         /\ \A q \in Process \ {p} : worker'[q] = worker[q]
  BY DEF TypeOK, Record, RecordSent, UpdateSent, RecordFailed, UpdateFailed,
         FailureRejected, Crash, Restart

\* The process that claims starts with the row in hand.
LEMMA ClaimStarts ==
  ASSUME TypeOK, NEW p \in Process, NEW n \in Notification, Claim(p, n)
  PROVE  /\ worker[p] = Idle
         /\ worker'[p].phase = "sending" /\ worker'[p].item = n
         /\ \A q \in Process \ {p} : worker'[q] = worker[q]
  BY DEF TypeOK, Claim, At

\* Every step keeps the account of deliveries.
LEMMA DeliveriesStep == TypeOK /\ DeliveriesAccounted /\ [Next]_vars => DeliveriesAccounted'
<1> SUFFICES ASSUME TypeOK, DeliveriesAccounted, [Next]_vars, NEW n \in Notification
             PROVE  DeliveriesAccounted!(n)'
  BY DEF DeliveriesAccounted
<1> DEFINE old == Cardinality(Held(n, Unreported))
           new == Cardinality(Held(n, Unreported)')
<1>0. DeliveriesAccounted!(n)
  BY DEF DeliveriesAccounted
<1> USE DEF TypeOK
<1>1. CASE worker' = worker /\ UNCHANGED <<mails, excuses>>
           /\ (status'[n] \in {"processing", "sent"} <=> status[n] \in {"processing", "sent"})
  <2>1. new = old
    BY <1>1 DEF Held
  <2> QED
    BY <1>0, <1>1, <2>1
<1>2. ASSUME NEW m \in Notification, Enqueue(m) \/ LeaseEnds(m) \/ BackoffEnds(m) \/ Retry(m)
      PROVE  DeliveriesAccounted!(n)'
  BY <1>1, <1>2 DEF Enqueue, LeaseEnds, BackoffEnds, Retry, countVars
<1>3. ASSUME NEW p \in Process, NEW m \in Notification, Claim(p, m)
      PROVE  DeliveriesAccounted!(n)'
  <2>1. /\ \A q \in Process \ {p} : worker'[q] = worker[q]
        /\ m # n => p \notin Held(n, Unreported)'
    BY <1>3, ClaimStarts DEF Held
  <2>2. old \in Nat /\ new \in Nat /\ new <= old + 1 /\ (m # n => new <= old)
    BY <2>1, HeldStep
  <2> HIDE DEF old, new
  <2> QED
    BY <1>0, <1>3, <2>2 DEF Claim, Claimable, old, new
<1>4. ASSUME NEW p \in Process, SendEnds(p) \/ LoseRecord(p) PROVE DeliveriesAccounted!(n)'
  <2> DEFINE i == worker[p].item
  <2>1. /\ i \in Notification /\ worker'[p].item = i
        /\ \A q \in Process \ {p} : worker'[q] = worker[q]
    BY <1>4, PhaseStep
  <2>2. old \in Nat /\ new \in Nat /\ new <= old + 1 /\ (i # n => new <= old)
    <3>1. i # n => p \notin Held(n, Unreported)'
      BY <2>1 DEF Held
    <3> QED
      BY <2>1, <3>1, HeldStep
  <2>3. Accept(p) /\ i = n => new + 1 <= old
    <3>1. Accept(p) /\ i = n => p \in Held(n, Unreported) /\ p \notin Held(n, Unreported)'
      BY <1>4, PhaseStep DEF Held, Unreported
    <3> QED
      BY <2>1, <3>1, HeldStep
  <2>4. Refuse(p) \/ LoseReply(p) => new <= old
    <3>1. Refuse(p) \/ LoseReply(p) => (i = n => p \in Held(n, Unreported))
      BY <1>4, PhaseStep DEF Held, Unreported
    <3> QED
      BY <2>1, <2>2, <3>1, HeldStep
  <2> HIDE DEF old, new
  <2>5. CASE Accept(p)
    BY <1>0, <2>1, <2>2, <2>3, <2>5 DEF Accept, rowVars, countVars, old, new
  <2>6. CASE Refuse(p)
    BY <1>0, <2>1, <2>2, <2>4, <2>6 DEF Refuse, rowVars, countVars, old, new
  <2>7. CASE LoseReply(p)
    BY <1>0, <2>1, <2>2, <2>4, <2>7 DEF LoseReply, rowVars, old, new
  <2>8. CASE LoseRecord(p)
    BY <1>0, <2>1, <2>2, <2>8 DEF LoseRecord, rowVars, old, new
  <2> QED
    BY <1>4, <2>5, <2>6, <2>7, <2>8 DEF SendEnds
<1>5. ASSUME NEW p \in Process, Record(p) \/ Crash(p) \/ Restart(p)
      PROVE  DeliveriesAccounted!(n)'
  <2>1. /\ \A q \in Process \ {p} : worker'[q] = worker[q]
        /\ p \notin Held(n, Unreported)'
    BY <1>5, RoundEnds DEF Held, Unreported, Idle, Down
  <2>2. old \in Nat /\ new \in Nat /\ new <= old
    BY <2>1, HeldStep
  <2>3. RecordFailed(p) /\ worker[p].item = n => new + 1 <= old
    <3>1. RecordFailed(p) /\ worker[p].item = n => p \in Held(n, Unreported)
      BY DEF RecordFailed, UpdateFailed, Failing, Held, Unreported
    <3> QED
      BY <2>1, <3>1, HeldStep
  <2> HIDE DEF old, new
  <2>4. CASE RecordFailed(p)
    BY <1>0, <2>2, <2>3, <2>4 DEF RecordFailed, UpdateFailed, countVars, old, new
  <2>5. CASE RecordSent(p)
    BY <1>0, <2>2, <2>5 DEF RecordSent, UpdateSent, countVars, old, new
  <2>6. CASE FailureRejected(p) \/ Crash(p) \/ Restart(p)
    BY <1>0, <2>2, <2>6 DEF FailureRejected, Crash, Restart, rowVars, countVars, old, new
  <2> QED
    BY <1>5, <2>4, <2>5, <2>6 DEF Record
<1>6. CASE UNCHANGED vars
  BY <1>1, <1>6 DEF vars, rowVars, countVars
<1> QED
  BY <1>2, <1>3, <1>4, <1>5, <1>6 DEF Next, ClaimAny

\* In the first state nobody is at work.
LEMMA NobodyAtWork == ASSUME Init, NEW n, NEW phases, "idle" \notin phases
                      PROVE  Cardinality(Held(n, phases)) = 0
<1>1. Held(n, phases) = {}
  BY DEF Held, Init, Idle
<1> QED
  BY <1>1, FS_EmptySet

\* The account of deliveries holds throughout.
LEMMA DeliveriesAlways == Spec => []DeliveriesAccounted
<1>1. Init => DeliveriesAccounted
  <2> SUFFICES ASSUME Init, NEW n \in Notification PROVE DeliveriesAccounted!(n)
    BY DEF DeliveriesAccounted
  <2>1. Cardinality(Held(n, Unreported)) = 0
    BY NobodyAtWork DEF Unreported
  <2> QED
    BY <2>1 DEF Init
<1> QED
  BY <1>1, DeliveriesStep, OutboxTypes, PTL DEF Spec

\* A recipient is mailed again only after a takeover or a success that was not
\* learnt, and no more often than that.
THEOREM OutboxDuplicatesExplained == Spec => []DuplicatesExplained
<1>1. TypeOK /\ DeliveriesAccounted => DuplicatesExplained
  <2> SUFFICES ASSUME TypeOK, DeliveriesAccounted, NEW n \in Notification
               PROVE  DuplicatesExplained!(n)
    BY DEF DuplicatesExplained
  <2>1. IsFiniteSet(Held(n, Unreported)) /\ Sending(n) \subseteq Held(n, Unreported)
    <3>1. Held(n, Unreported) \subseteq Process
      BY DEF Held
    <3> QED
      BY <3>1, OutboxAssumption, FS_Subset DEF Held, Sending, Unreported
  <2>2. /\ Cardinality(Sending(n)) <= Cardinality(Held(n, Unreported))
        /\ Cardinality(Sending(n)) \in Nat /\ Cardinality(Held(n, Unreported)) \in Nat
    BY <2>1, FS_Subset, FS_CardinalityType
  <2> QED
    BY <2>2 DEF DeliveriesAccounted, TypeOK
<1> QED
  BY <1>1, DeliveriesAlways, OutboxTypes, PTL

-----------------------------------------------------------------------------
\* One retry more allows one round of attempts more.
LEMMA RoundsAdd == ASSUME NEW r \in Nat
                   PROVE  /\ MaxAttempts * (r + 1) = MaxAttempts * r + MaxAttempts
                          /\ MaxAttempts * r \in Nat
  BY OutboxAssumption

\* Every step keeps the number of sends within the attempts counted.
LEMMA SendsStep == TypeOK /\ SendsAreBounded /\ [Next]_vars => SendsAreBounded'
<1> SUFFICES ASSUME TypeOK, SendsAreBounded, [Next]_vars, NEW n \in Notification
             PROVE  SendsAreBounded!(n)'
  BY DEF SendsAreBounded
<1> DEFINE old == Cardinality(Sending(n))
           new == Cardinality(Sending(n)')
           limit == MaxAttempts * retries[n]
<1>0. SendsAreBounded!(n) /\ limit \in Nat
  BY RoundsAdd DEF SendsAreBounded, TypeOK
<1> USE DEF TypeOK
<1>1. Sending(n) = Held(n, {"sending"}) /\ Sending(n)' = Held(n, {"sending"})'
  BY DEF Sending, Held
<1>2. CASE worker' = worker /\ UNCHANGED <<mails, attempts, retries>>
  <2>1. new = old
    BY <1>2 DEF Sending
  <2> QED
    BY <1>0, <1>2, <2>1
<1>3. ASSUME NEW m \in Notification, Enqueue(m) \/ LeaseEnds(m) \/ BackoffEnds(m)
      PROVE  SendsAreBounded!(n)'
  BY <1>2, <1>3 DEF Enqueue, LeaseEnds, BackoffEnds, countVars
<1>4. ASSUME NEW m \in Notification, Retry(m) PROVE SendsAreBounded!(n)'
  <2>1. new = old
    BY <1>4 DEF Retry, Sending
  <2>2. old \in Nat
    BY <1>1, FS_Subset, FS_CardinalityType, OutboxAssumption DEF Held
  <2>3. CASE m = n
    <3>1. retries'[n] = retries[n] + 1 /\ attempts'[n] = 0 /\ mails' = mails
      BY <1>4, <2>3 DEF Retry
    <3>2. MaxAttempts * retries'[n] = limit + MaxAttempts
      BY <3>1, RoundsAdd
    <3> HIDE DEF old, new, limit
    <3> QED
      BY <1>0, <2>1, <2>2, <3>1, <3>2, OutboxAssumption DEF old, new, limit
  <2>4. CASE m # n
    BY <1>0, <1>4, <2>1, <2>4 DEF Retry
  <2> QED
    BY <2>3, <2>4
<1>5. ASSUME NEW p \in Process, NEW m \in Notification, Claim(p, m)
      PROVE  SendsAreBounded!(n)'
  <2>1. /\ \A q \in Process \ {p} : worker'[q] = worker[q]
        /\ m # n => p \notin Held(n, {"sending"})'
    BY <1>5, ClaimStarts DEF Held
  <2>2. old \in Nat /\ new \in Nat /\ new <= old + 1 /\ (m # n => new <= old)
    BY <1>1, <2>1, HeldStep
  <2>3. /\ mails' = mails /\ retries' = retries
        /\ attempts'[n] = IF m = n THEN attempts[n] + 1 ELSE attempts[n]
    BY <1>5 DEF Claim
  <2> HIDE DEF old, new, limit
  <2> QED
    BY <1>0, <2>2, <2>3 DEF old, new, limit
<1>6. ASSUME NEW p \in Process, SendEnds(p) \/ LoseRecord(p) PROVE SendsAreBounded!(n)'
  <2> DEFINE i == worker[p].item
  <2>1. /\ i \in Notification /\ worker'[p].item = i /\ worker'[p].phase # "sending"
        /\ worker[p].phase = "sending" \/ LoseRecord(p)
        /\ \A q \in Process \ {p} : worker'[q] = worker[q]
    BY <1>6, PhaseStep DEF SendEnds
  <2>2. /\ old \in Nat /\ new \in Nat /\ new <= old
        /\ worker[p].phase = "sending" /\ i = n => new + 1 <= old
    <3>1. /\ p \notin Held(n, {"sending"})'
          /\ worker[p].phase = "sending" /\ i = n => p \in Held(n, {"sending"})
      BY <2>1 DEF Held
    <3> QED
      BY <1>1, <2>1, <3>1, HeldStep
  <2>3. /\ UNCHANGED <<attempts, retries>>
        /\ mails'[n] = mails[n] \/ (mails'[n] = mails[n] + 1 /\ i = n /\ worker[p].phase = "sending")
    BY <1>6, <2>1 DEF SendEnds, Accept, Refuse, LoseReply, LoseRecord, rowVars, countVars
  <2> HIDE DEF old, new, limit
  <2> QED
    BY <1>0, <2>2, <2>3 DEF old, new, limit
<1>7. ASSUME NEW p \in Process, Record(p) \/ Crash(p) \/ Restart(p)
      PROVE  SendsAreBounded!(n)'
  <2>1. /\ \A q \in Process \ {p} : worker'[q] = worker[q]
        /\ p \notin Held(n, {"sending"})'
    BY <1>7, RoundEnds DEF Held, Idle, Down
  <2>2. old \in Nat /\ new \in Nat /\ new <= old
    BY <1>1, <2>1, HeldStep
  <2>3. UNCHANGED <<attempts, mails, retries>>
    BY <1>7 DEF Record, RecordSent, UpdateSent, RecordFailed, UpdateFailed,
                FailureRejected, Crash, Restart, rowVars, countVars
  <2> HIDE DEF old, new, limit
  <2> QED
    BY <1>0, <2>2, <2>3 DEF old, new, limit
<1>8. CASE UNCHANGED vars
  BY <1>2, <1>8 DEF vars, rowVars, countVars
<1> QED
  BY <1>3, <1>4, <1>5, <1>6, <1>7, <1>8 DEF Next, ClaimAny

\* A row costs at most MaxAttempts sends, and MaxAttempts more per retry.
THEOREM OutboxSendsAreBounded == Spec => []SendsAreBounded
<1>1. Init => SendsAreBounded
  <2> SUFFICES ASSUME Init, NEW n \in Notification PROVE SendsAreBounded!(n)
    BY DEF SendsAreBounded
  <2>1. Sending(n) = Held(n, {"sending"})
    BY DEF Sending, Held
  <2>2. Cardinality(Sending(n)) = 0
    BY <2>1, NobodyAtWork
  <2> QED
    BY <2>2, OutboxAssumption DEF Init
<1> QED
  BY <1>1, SendsStep, OutboxTypes, PTL DEF Spec

-----------------------------------------------------------------------------
(* The promise to the recipients.                                          *)

\* Whatever a process is at work on was asked for.
WorkIsAsked == \A p \in Process : Busy(p) => worker[p].item \in Asked

\* What was asked for stays asked for.
LEMMA AskedStays == ASSUME TypeOK, [Next]_vars PROVE Asked \subseteq Asked'
<1> SUFFICES ASSUME NEW n \in Notification, status[n] # "none" PROVE status'[n] # "none"
  BY DEF Asked
<1> USE DEF TypeOK
<1>1. ASSUME NEW m \in Notification, Enqueue(m) \/ LeaseEnds(m) \/ BackoffEnds(m) \/ Retry(m)
      PROVE  status'[n] # "none"
  BY <1>1 DEF Enqueue, LeaseEnds, BackoffEnds, Retry
<1>2. ASSUME NEW p \in Process, NEW m \in Notification, Claim(p, m) PROVE status'[n] # "none"
  BY <1>2 DEF Claim
<1>3. ASSUME NEW p \in Process,
             SendEnds(p) \/ LoseRecord(p) \/ Crash(p) \/ Restart(p) \/ FailureRejected(p)
      PROVE  status'[n] # "none"
  BY <1>3 DEF SendEnds, Accept, Refuse, LoseReply, LoseRecord, Crash, Restart,
              FailureRejected, rowVars
<1>4. ASSUME NEW p \in Process, RecordSent(p) \/ RecordFailed(p) PROVE status'[n] # "none"
  BY <1>4 DEF RecordSent, UpdateSent, RecordFailed, UpdateFailed
<1>5. CASE UNCHANGED vars
  BY <1>5 DEF vars, rowVars
<1> QED
  BY <1>1, <1>2, <1>3, <1>4, <1>5 DEF Next, ClaimAny, Record

\* A process gets to work by claiming a row; at work it keeps it.
LEMMA WorkerSteps ==
  ASSUME TypeOK, [Next]_vars, NEW p \in Process, Busy(p)'
  PROVE  \/ Busy(p) /\ worker'[p].item = worker[p].item
         \/ \E n \in Notification : Claim(p, n) /\ worker'[p].item = n
<1> USE DEF Busy
<1>1. CASE worker' = worker
  BY <1>1
<1>2. ASSUME NEW q \in Process, NEW n \in Notification, Claim(q, n)
      PROVE  \/ Busy(p) /\ worker'[p].item = worker[p].item
             \/ Claim(p, n) /\ worker'[p].item = n
  <2>1. CASE q = p
    BY <1>2, <2>1, ClaimStarts
  <2>2. CASE q # p
    <3>1. worker'[p] = worker[p]
      BY <1>2, <2>2, ClaimStarts
    <3> QED
      BY <3>1
  <2> QED
    BY <2>1, <2>2
<1>3. ASSUME NEW q \in Process, SendEnds(q) \/ LoseRecord(q)
      PROVE  Busy(p) /\ worker'[p].item = worker[p].item
  <2>1. /\ worker[q] \in Working /\ worker'[q].item = worker[q].item
        /\ \A r \in Process \ {q} : worker'[r] = worker[r]
    BY <1>3, PhaseStep
  <2>2. worker[q].phase \in Phase
    BY <2>1 DEF Working
  <2> QED
    BY <2>1, <2>2
<1>4. ASSUME NEW q \in Process, Record(q) \/ Crash(q) \/ Restart(q)
      PROVE  Busy(p) /\ worker'[p].item = worker[p].item
  <2>1. worker'[q].phase \notin Phase /\ \A r \in Process \ {q} : worker'[r] = worker[r]
    BY <1>4, RoundEnds DEF Idle, Down, Phase
  <2> QED
    BY <2>1
<1>5. ASSUME NEW n \in Notification, Enqueue(n) \/ LeaseEnds(n) \/ BackoffEnds(n) \/ Retry(n)
      PROVE  worker' = worker
  BY <1>5 DEF Enqueue, LeaseEnds, BackoffEnds, Retry
<1>6. CASE UNCHANGED vars
  BY <1>1, <1>6 DEF vars
<1> QED
  BY <1>1, <1>2, <1>3, <1>4, <1>5, <1>6 DEF Next, ClaimAny

\* Every step keeps processes at work on what was asked for.
LEMMA WorkStep == TypeOK /\ WorkIsAsked /\ [Next]_vars => WorkIsAsked'
<1> SUFFICES ASSUME TypeOK, WorkIsAsked, [Next]_vars, NEW p \in Process, Busy(p)'
             PROVE  worker'[p].item \in Asked'
  BY DEF WorkIsAsked
<1>1. CASE Busy(p) /\ worker'[p].item = worker[p].item
  BY <1>1, AskedStays DEF WorkIsAsked
<1>2. ASSUME NEW n \in Notification, Claim(p, n), worker'[p].item = n
      PROVE  worker'[p].item \in Asked'
  BY <1>2 DEF Claim, TypeOK, Asked
<1> QED
  BY <1>1, <1>2, WorkerSteps

\* While a process may deliver a notification there is an excuse for every mail
\* it has had.
LEMMA RoomToDeliver ==
  ASSUME TypeOK, DeliveriesAccounted, WorkIsAsked,
         NEW p \in Process, worker[p].phase = "sending"
  PROVE  LET n == worker[p].item
         IN  n \in Notification /\ n \in Asked /\ mails[n] <= excuses[n]
<1> DEFINE n == worker[p].item
           held == Held(n, Unreported)
<1>1. n \in Asked /\ n \in Notification
  BY DEF WorkIsAsked, Busy, Phase, Asked
<1>2. held \in SUBSET Process /\ p \in held
  BY DEF Held, Unreported
<1>3. Cardinality(held) \in Nat /\ Cardinality(held) >= 1
  <2>1. {} \in SUBSET Process /\ {} \subseteq held \ {p}
    OBVIOUS
  <2> HIDE DEF held
  <2>2. /\ Cardinality(held) \in Nat /\ Cardinality({}) \in Nat
        /\ Cardinality({}) + 1 <= Cardinality(held)
    BY <1>2, <2>1, OneProcess
  <2> QED
    BY <2>2
<1>4. mails[n] + Cardinality(held) <= excuses[n] + 1
  <2>1. mails[n] + Cardinality(held)
          <= excuses[n] + IF status[n] \in {"processing", "sent"} THEN 1 ELSE 0
    BY <1>1 DEF DeliveriesAccounted
  <2> HIDE DEF held
  <2> QED
    BY <1>1, <1>3, <2>1 DEF TypeOK
<1> HIDE DEF held
<1> QED
  BY <1>1, <1>3, <1>4 DEF TypeOK

\* Every step is a step of the promise or leaves it alone.
LEMMA PromiseStep ==
  TypeOK /\ ReportsAreTrue /\ DeliveriesAccounted /\ WorkIsAsked /\ [Next]_vars
    => [Promise!Next]_Promise!promises
<1> SUFFICES ASSUME TypeOK, ReportsAreTrue, DeliveriesAccounted, WorkIsAsked, [Next]_vars
             PROVE  Promise!Next \/ UNCHANGED Promise!promises
  OBVIOUS
<1>1. CASE UNCHANGED <<Asked, mails, excuses, Reported>>
  BY <1>1 DEF Promise!promises
<1>2. CASE UNCHANGED <<status, mails, excuses>>
  BY <1>1, <1>2 DEF Asked, Reported
<1>3. ASSUME NEW n \in Notification, Enqueue(n) PROVE Promise!Next
  <2>1. Promise!Ask(n)
    BY <1>3 DEF Promise!Ask, Enqueue, TypeOK, Asked, Reported, countVars
  <2> QED
    BY <2>1 DEF Promise!Next
<1>4. ASSUME NEW n \in Notification, LeaseEnds(n) \/ BackoffEnds(n)
      PROVE  UNCHANGED Promise!promises
  BY <1>2, <1>4 DEF LeaseEnds, BackoffEnds, countVars, Promise!promises, Asked, Reported
<1>5. ASSUME NEW n \in Notification, Retry(n) PROVE UNCHANGED Promise!promises
  <2>1. UNCHANGED <<Asked, mails, excuses, Reported>>
    BY <1>5 DEF Retry, TypeOK, Asked, Reported
  <2> QED
    BY <2>1 DEF Promise!promises
<1>6. ASSUME NEW p \in Process, NEW n \in Notification, Claim(p, n)
      PROVE  Promise!Next \/ UNCHANGED Promise!promises
  <2>1. UNCHANGED <<Asked, mails, Reported>> /\ n \in Asked
    BY <1>6 DEF Claim, Claimable, TypeOK, Asked, Reported
  <2>2. CASE lease[n] = "over"
    <3>1. excuses' = [excuses EXCEPT ![n] = excuses[n] + 1]
      BY <1>6, <2>2 DEF Claim
    <3>2. Promise!Excuse(n)
      BY <2>1, <3>1 DEF Promise!Excuse
    <3> QED
      BY <3>2 DEF Promise!Next
  <2>3. CASE lease[n] # "over"
    <3>1. excuses' = excuses
      BY <1>6, <2>3 DEF Claim, TypeOK
    <3> QED
      BY <2>1, <3>1 DEF Promise!promises
  <2> QED
    BY <2>2, <2>3
<1>7. ASSUME NEW p \in Process, Accept(p) \/ LoseReply(p) PROVE Promise!Next
  <2> DEFINE n == worker[p].item
  <2>1. n \in Notification /\ n \in Asked /\ mails[n] <= excuses[n]
    BY <1>7, RoomToDeliver DEF Accept, LoseReply
  <2>2. /\ mails' = [mails EXCEPT ![n] = mails[n] + 1]
        /\ excuses' \in {excuses, [excuses EXCEPT ![n] = excuses[n] + 1]}
        /\ status' = status
    BY <1>7 DEF Accept, LoseReply, rowVars, countVars
  <2>3. UNCHANGED <<Asked, Reported>>
    BY <2>2 DEF Asked, Reported
  <2> HIDE DEF n
  <2>4. Promise!Deliver(n)
    BY <2>1, <2>2, <2>3 DEF Promise!Deliver
  <2> QED
    BY <2>1, <2>4 DEF Promise!Next
<1>8. ASSUME NEW p \in Process, LoseRecord(p) PROVE Promise!Next
  <2> DEFINE n == worker[p].item
  <2>1. n \in Asked /\ n \in Notification
    BY <1>8 DEF LoseRecord, WorkIsAsked, Busy, Phase, Asked
  <2>2. /\ excuses' = [excuses EXCEPT ![n] = excuses[n] + 1]
        /\ status' = status /\ mails' = mails
    BY <1>8 DEF LoseRecord, rowVars
  <2>3. UNCHANGED <<Asked, Reported>>
    BY <2>2 DEF Asked, Reported
  <2> HIDE DEF n
  <2>4. Promise!Excuse(n)
    BY <2>1, <2>2, <2>3 DEF Promise!Excuse
  <2> QED
    BY <2>1, <2>4 DEF Promise!Next
<1>9. ASSUME NEW p \in Process, RecordSent(p) PROVE Promise!Next \/ UNCHANGED Promise!promises
  <2> DEFINE n == worker[p].item
  <2>1. n \in Asked /\ n \in Notification /\ mails[n] > 0
    BY <1>9 DEF RecordSent, WorkIsAsked, Busy, Phase, Asked, ReportsAreTrue
  <2>2. status' = [status EXCEPT ![n] = "sent"] /\ UNCHANGED <<mails, excuses>>
    BY <1>9 DEF RecordSent, UpdateSent, countVars
  <2> HIDE DEF n
  <2>3. Asked' = Asked /\ Reported' = Reported \cup {n}
    BY <2>1, <2>2 DEF Asked, Reported, TypeOK
  <2>4. CASE n \in Reported
    BY <2>2, <2>3, <2>4 DEF Promise!promises
  <2>5. CASE n \notin Reported
    <3>1. Promise!Close(n)
      BY <2>1, <2>2, <2>3, <2>5 DEF Promise!Close
    <3> QED
      BY <2>1, <3>1 DEF Promise!Next
  <2> QED
    BY <2>4, <2>5
<1>10. ASSUME NEW p \in Process, RecordFailed(p) PROVE UNCHANGED Promise!promises
  <2> DEFINE n == worker[p].item
  <2>1. n \in Asked /\ n \in Notification
    BY <1>10 DEF RecordFailed, Failing, WorkIsAsked, Busy, Phase, Asked
  <2>2. /\ status[n] # "sent" /\ status' = [status EXCEPT ![n] = "failed"]
        /\ UNCHANGED <<mails, excuses>>
    BY <1>10 DEF RecordFailed, UpdateFailed, countVars
  <2> HIDE DEF n
  <2>3. Asked' = Asked /\ Reported' = Reported
    BY <2>1, <2>2 DEF Asked, Reported, TypeOK
  <2> QED
    BY <2>2, <2>3 DEF Promise!promises
<1>11. ASSUME NEW p \in Process, Refuse(p) \/ FailureRejected(p) \/ Crash(p) \/ Restart(p)
       PROVE  UNCHANGED Promise!promises
  <2>1. UNCHANGED <<status, mails, excuses>>
    BY <1>11 DEF Refuse, FailureRejected, Crash, Restart, rowVars, countVars
  <2> QED
    BY <2>1 DEF Promise!promises, Asked, Reported
<1>12. CASE UNCHANGED vars
  BY <1>2, <1>12 DEF vars, rowVars, countVars
<1> QED
  BY <1>3, <1>4, <1>5, <1>6, <1>7, <1>8, <1>9, <1>10, <1>11, <1>12
     DEF Next, ClaimAny, SendEnds, Record

\* The outbox keeps its promise to the recipients: for any number of processes
\* every run is one of deliveries each asked for and excused, then reported.
THEOREM OutboxImplementsAtLeastOnce == Spec => ImplementsAtLeastOnce
<1>1. Init => Promise!Init
  BY DEF Init, Promise!Init, Asked, Reported
<1>2. Init => WorkIsAsked /\ ReportsAreTrue
  BY DEF Init, WorkIsAsked, ReportsAreTrue, SentMeansDelivered, Busy, Phase, Idle
<1> QED
  BY <1>1, <1>2, PromiseStep, WorkStep, ReportsStep, DeliveriesAlways, OutboxTypes, PTL
     DEF Spec, ImplementsAtLeastOnce, Promise!Spec

-----------------------------------------------------------------------------
(* Rows that nobody works on.                                              *)

\* Every step but a crash leaves no further row abandoned; a crash at most one.
LEMMA AbandonedStep ==
  ASSUME TypeOK, [Next]_vars
  PROVE  \/ Abandoned' \subseteq Abandoned /\ crashes' >= crashes
         \/ \E n : Abandoned' \subseteq Abandoned \cup {n} /\ crashes' = crashes + 1
<1> DEFINE Fewer == Abandoned' \subseteq Abandoned /\ crashes' >= crashes
           OneMore == \E n : Abandoned' \subseteq Abandoned \cup {n} /\ crashes' = crashes + 1
<1> SUFFICES Fewer \/ OneMore
  OBVIOUS
<1> USE OutboxAssumption
<1>1. crashes \in Nat
  BY DEF TypeOK
<1>2. ASSUME NEW n \in Notification, Enqueue(n) \/ LeaseEnds(n) \/ BackoffEnds(n) \/ Retry(n)
      PROVE  Fewer
  BY <1>1, <1>2 DEF TypeOK, Enqueue, LeaseEnds, BackoffEnds, Retry, countVars, Abandoned, Busy
<1>3. ASSUME NEW p \in Process, NEW n \in Notification, Claim(p, n) PROVE Fewer
  <2>1. /\ ~Busy(p) /\ Busy(p)' /\ worker'[p].item = n
        /\ \A q \in Process \ {p} : worker'[q] = worker[q]
    BY <1>3, ClaimStarts DEF Busy, Idle, Phase
  <2>2. crashes' = crashes /\ \A m \in Notification \ {n} : status'[m] = status[m]
    BY <1>3 DEF Claim, TypeOK
  <2> QED
    BY <1>1, <2>1, <2>2 DEF Abandoned, Busy
<1>4. ASSUME NEW p \in Process, SendEnds(p) \/ LoseRecord(p) PROVE Fewer
  <2>1. /\ worker[p] \in Working /\ worker'[p].item = worker[p].item
        /\ worker'[p].phase \in Phase
        /\ \A q \in Process \ {p} : worker'[q] = worker[q]
    BY <1>4, PhaseStep DEF SendEnds, Phase
  <2>2. status' = status /\ crashes' >= crashes
    BY <1>1, <1>4 DEF SendEnds, Accept, Refuse, LoseReply, LoseRecord, rowVars, countVars
  <2> QED
    BY <2>1, <2>2 DEF Abandoned, Busy
<1>5. ASSUME NEW p \in Process, Record(p) PROVE Fewer
  <2>1. /\ \A q \in Process \ {p} : worker'[q] = worker[q]
        /\ crashes' = crashes
    BY <1>5, RoundEnds DEF Record, RecordSent, RecordFailed, FailureRejected, countVars
  <2>2. \A n \in Notification :
          /\ status'[n] = "processing" => status[n] = "processing"
          /\ Busy(p) /\ worker[p].item = n => status'[n] # "processing"
    BY <1>5 DEF Record, RecordSent, UpdateSent, RecordFailed, UpdateFailed, FailureRejected,
                rowVars, TypeOK
  <2> QED
    BY <1>1, <2>1, <2>2 DEF Abandoned, Busy
<1>6. ASSUME NEW p \in Process, Crash(p) PROVE OneMore
  <2>1. /\ \A q \in Process \ {p} : worker'[q] = worker[q]
        /\ status' = status /\ crashes' = crashes + 1
    BY <1>6, RoundEnds DEF Crash, rowVars
  <2>2. Abandoned' \subseteq Abandoned \cup {worker[p].item}
    BY <2>1 DEF Abandoned, Busy
  <2> QED
    BY <2>1, <2>2
<1>7. ASSUME NEW p \in Process, Restart(p) PROVE Fewer
  <2>1. /\ \A q \in Process \ {p} : worker'[q] = worker[q]
        /\ ~Busy(p) /\ status' = status /\ crashes' = crashes
    BY <1>7, RoundEnds DEF Restart, rowVars, countVars, Busy, Down, Phase
  <2> QED
    BY <1>1, <2>1 DEF Abandoned, Busy
<1>8. CASE UNCHANGED vars
  BY <1>1, <1>8 DEF vars, rowVars, countVars, Abandoned, Busy
<1> QED
  BY <1>2, <1>3, <1>4, <1>5, <1>6, <1>7, <1>8 DEF Next, ClaimAny

\* No row is left in processing but by a crash, and each crash leaves one at most.
THEOREM OutboxStuckRowsAreCrashes == Spec => []StuckRowsAreCrashes
<1>1. Init => StuckRowsAreCrashes
  <2> SUFFICES ASSUME Init PROVE StuckRowsAreCrashes
    OBVIOUS
  <2>1. Abandoned = {}
    BY DEF Init, Abandoned
  <2> QED
    BY <2>1, FS_EmptySet DEF StuckRowsAreCrashes, Init
<1>2. TypeOK /\ StuckRowsAreCrashes /\ [Next]_vars => StuckRowsAreCrashes'
  <2> SUFFICES ASSUME TypeOK, StuckRowsAreCrashes, [Next]_vars PROVE StuckRowsAreCrashes'
    OBVIOUS
  <2>1. IsFiniteSet(Abandoned) /\ Cardinality(Abandoned) \in Nat
        /\ Cardinality(Abandoned) <= crashes
    BY FS_CardinalityType DEF StuckRowsAreCrashes
  <2>2. crashes \in Nat
    BY OutboxAssumption DEF TypeOK
  <2>3. CASE Abandoned' \subseteq Abandoned /\ crashes' >= crashes
    <3>1. IsFiniteSet(Abandoned') /\ Cardinality(Abandoned') <= Cardinality(Abandoned)
          /\ Cardinality(Abandoned') \in Nat
      BY <2>1, <2>3, FS_Subset, FS_CardinalityType
    <3>2. crashes' \in Nat
      BY TypeStep, OutboxAssumption DEF TypeOK
    <3> QED
      BY <2>1, <2>2, <2>3, <3>1, <3>2 DEF StuckRowsAreCrashes
  <2>4. ASSUME NEW n, Abandoned' \subseteq Abandoned \cup {n}, crashes' = crashes + 1
        PROVE  StuckRowsAreCrashes'
    <3>1. /\ IsFiniteSet(Abandoned \cup {n})
          /\ Cardinality(Abandoned \cup {n}) <= Cardinality(Abandoned) + 1
          /\ Cardinality(Abandoned \cup {n}) \in Nat
      BY <2>1, FS_AddElement, FS_CardinalityType
    <3>2. /\ IsFiniteSet(Abandoned')
          /\ Cardinality(Abandoned') <= Cardinality(Abandoned \cup {n})
          /\ Cardinality(Abandoned') \in Nat
      BY <2>4, <3>1, FS_Subset, FS_CardinalityType
    <3> QED
      BY <2>1, <2>2, <2>4, <3>1, <3>2 DEF StuckRowsAreCrashes
  <2> QED
    BY <2>3, <2>4, AbandonedStep
<1> QED
  BY <1>1, <1>2, OutboxTypes, PTL DEF Spec

=============================================================================
