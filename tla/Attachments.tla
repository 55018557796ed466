----------------------------- MODULE Attachments -----------------------------
(***************************************************************************)
(* The files kept with a shipment or a return: attachment.service and the  *)
(* malware scanner.  An upload is authorized, scanned outside of any       *)
(* transaction, and then counted and stored under an advisory lock of its  *)
(* record.                                                                 *)
(***************************************************************************)
EXTENDS Integers, FiniteSets

CONSTANTS
  Record,     \* shipments and returns
  File,       \* contents, told apart by their sha256
  Infected,   \* those the scanner finds malware in
  Upload,     \* requests
  MaxFiles    \* files of a record (5 in the code)

ASSUME AttachmentsAssumption ==
  /\ Infected \subseteq File
  /\ MaxFiles \in Nat
  /\ "unlocked" \notin Upload

VARIABLES
  files,    \* business_attachments: the contents of a record
  upload,   \* how far a request is
  locked    \* the upload with the advisory lock of a record

attachmentVars == <<files, upload, locked>>

Waiting == [at |-> "waiting"]

NoFiles ==
  /\ files = [r \in Record |-> {}]
  /\ upload = [u \in Upload |-> Waiting]
  /\ locked = [r \in Record |-> "unlocked"]

\* The body is read and the user authorized; the scanner has the content.
Receive(u, r, f) ==
  /\ upload[u] = Waiting
  /\ upload' = [upload EXCEPT ![u] = [at |-> "scanning", record |-> r, file |-> f]]
  /\ UNCHANGED <<files, locked>>

\* assertSafe: the scanner answered, and answered OK.
Passes(f, heard) == heard /\ f \notin Infected

\* The scanner answers, or times out.
Scan(u, heard) ==
  /\ upload[u].at = "scanning"
  /\ upload' = [upload EXCEPT ![u] =
       IF Passes(upload[u].file, heard) THEN [@ EXCEPT !.at = "safe"] ELSE Waiting]
  /\ UNCHANGED <<files, locked>>

\* Mutant of Count: without the advisory lock.
CountUnlocked(u) ==
  /\ upload[u].at = "safe"
  /\ LET r == upload[u].record IN
       /\ Cardinality(files[r]) < MaxFiles
       /\ upload' = [upload EXCEPT ![u].at = "counted"]
       /\ UNCHANGED <<files, locked>>

\* BEGIN, authorize again, lock the record, count its files: there is room.
Count(u) ==
  /\ upload[u].at = "safe"
  /\ LET r == upload[u].record IN
       /\ locked[r] = "unlocked"
       /\ Cardinality(files[r]) < MaxFiles
       /\ upload' = [upload EXCEPT ![u].at = "counted"]
       /\ locked' = [locked EXCEPT ![r] = u]
  /\ UNCHANGED files

\* INSERT and COMMIT, unless the record has this content already.
Store(u) ==
  /\ upload[u].at = "counted"
  /\ LET r == upload[u].record IN
       /\ upload[u].file \notin files[r]
       /\ files' = [files EXCEPT ![r] = @ \cup {upload[u].file}]
       /\ locked' = [locked EXCEPT ![r] = IF @ = u THEN "unlocked" ELSE @]
  /\ upload' = [upload EXCEPT ![u] = Waiting]

\* ROLLBACK and a refusal: no room, a duplicate, no permission, a failure.
Refuse(u) ==
  /\ upload[u].at \in {"safe", "counted"}
  /\ upload' = [upload EXCEPT ![u] = Waiting]
  /\ locked' = [r \in Record |-> IF locked[r] = u THEN "unlocked" ELSE locked[r]]
  /\ UNCHANGED files

Proceed(u) ==
  \/ \E r \in Record, f \in File : Receive(u, r, f)
  \/ \E heard \in BOOLEAN : Scan(u, heard)
  \/ Count(u) \/ Store(u) \/ Refuse(u)

AttachmentsNext == \E u \in Upload : Proceed(u)

AttachmentsSpec == NoFiles /\ [][AttachmentsNext]_attachmentVars

-----------------------------------------------------------------------------
AttachmentsTypeOK ==
  /\ files \in [Record -> SUBSET File]
  /\ upload \in [Upload -> {Waiting} \cup
       [at : {"scanning", "safe", "counted"}, record : Record, file : File]]
  /\ locked \in [Record -> Upload \cup {"unlocked"}]

\* However many uploads for a record are scanned at the same time, it never has
\* more than MaxFiles files, and none that the scanner would have refused.
AttachmentsWithinLimit ==
  \A r \in Record : Cardinality(files[r]) <= MaxFiles /\ files[r] \cap Infected = {}

=============================================================================
