---------------------------- MODULE AtLeastOnce ----------------------------
(***************************************************************************)
(* What a mail outbox promises the recipients of its notifications, with   *)
(* no rows, claims, leases or processes in sight: what is reported as sent *)
(* was delivered, a report stands, and a recipient gets another copy only  *)
(* when there was an excuse to send again.  Outbox implements this module. *)
(***************************************************************************)
EXTENDS Naturals

CONSTANT Notification

VARIABLES
  asked,    \* the notifications that are to be sent
  copies,   \* copies[n]: how often n was delivered
  excuses,  \* excuses[n]: how often there was reason to send n once more
  closed    \* the notifications reported as sent

promises == <<asked, copies, excuses, closed>>

Init ==
  /\ asked = {}
  /\ copies = [n \in Notification |-> 0]
  /\ excuses = [n \in Notification |-> 0]
  /\ closed = {}

\* A business command wants a notification sent.
Ask(n) ==
  /\ n \notin asked
  /\ asked' = asked \cup {n}
  /\ UNCHANGED <<copies, excuses, closed>>

\* A copy is delivered: the first one, or one that an excuse stands for.  The
\* delivery may itself be the next excuse, when nobody hears of it.
Deliver(n) ==
  /\ n \in asked
  /\ copies[n] <= excuses[n]
  /\ copies' = [copies EXCEPT ![n] = copies[n] + 1]
  /\ excuses' \in {excuses, [excuses EXCEPT ![n] = excuses[n] + 1]}
  /\ UNCHANGED <<asked, closed>>

\* A process that may have sent n is given up, or what it did is not learnt.
Excuse(n) ==
  /\ n \in asked
  /\ excuses' = [excuses EXCEPT ![n] = excuses[n] + 1]
  /\ UNCHANGED <<asked, copies, closed>>

\* What was delivered is reported, for good.
Close(n) ==
  /\ n \in asked \ closed
  /\ copies[n] > 0
  /\ closed' = closed \cup {n}
  /\ UNCHANGED <<asked, copies, excuses>>

Next == \E n \in Notification : Ask(n) \/ Deliver(n) \/ Excuse(n) \/ Close(n)

Spec == Init /\ [][Next]_promises

=============================================================================
