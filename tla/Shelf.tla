-------------------------------- MODULE Shelf --------------------------------
(***************************************************************************)
(* The balance of one SKU in one warehouse and the ledger of its movements *)
(* while the row of the balance may not exist yet: statements instead of   *)
(* transactions.  SELECT ... FOR UPDATE locks the row if there is one; a   *)
(* row that another transaction inserted is invisible until that commits,  *)
(* but a second INSERT of it waits.  (READ COMMITTED.)                     *)
(*                                                                         *)
(* Receipts (catalog.service) and inspected returns (return.service) put   *)
(* units on the shelf, a receipt creates the row if need be; adjustments   *)
(* (catalog.service) and counts (stock-count.service) need it; the import  *)
(* (initial-import.service) writes it without looking again.  Nothing is   *)
(* reserved here: what reservations do to a row that exists is in          *)
(* Fulfillment.                                                            *)
(***************************************************************************)
EXTENDS Integers

CONSTANTS
  Command,   \* receipts, returns and imports under way
  MaxStock   \* bound: the units of the SKU, and of a movement

ASSUME ShelfAssumption == MaxStock \in Nat /\ "nobody" \notin Command

VARIABLES
  row,       \* there is a row in inventory_balances
  onHand,    \* on_hand_quantity
  moved,     \* the sum of inventory_movements.quantity_delta
  counting,  \* stock_counts has a row with status 'counting'
  command,   \* what each command knows, and what it is about to write
  holder     \* the command with the lock of the row, or that inserted it

shelfVars == <<row, onHand, moved, counting, command, holder>>

Free == holder = "nobody"
Idle == [at |-> "idle"]
\* found: there was a row; import: the import's stock row.
Looked(units, found, import) ==
  [at |-> "looked", units |-> units, found |-> found, import |-> import]

Begin ==
  /\ row = FALSE /\ onHand = 0 /\ moved = 0 /\ counting = FALSE
  /\ command = [c \in Command |-> Idle]
  /\ holder = "nobody"

\* Mutant of Look: SELECT without FOR UPDATE.
LookOnly(c, units) ==
  /\ command[c] = Idle
  /\ command' = [command EXCEPT ![c] = Looked(units, row, FALSE)]
  /\ UNCHANGED <<row, onHand, moved, counting, holder>>

\* A receipt or a return: SELECT ... FOR UPDATE.
Look(c, units) ==
  /\ command[c] = Idle
  /\ row => Free
  /\ command' = [command EXCEPT ![c] = Looked(units, row, FALSE)]
  /\ holder' = IF row THEN c ELSE holder
  /\ UNCHANGED <<row, onHand, moved, counting>>

\* An import: analyze accepts a stock row if nothing is on the shelf.
LookToImport(c, units) ==
  /\ command[c] = Idle
  /\ row => onHand = 0
  /\ command' = [command EXCEPT ![c] = Looked(units, row, TRUE)]
  /\ UNCHANGED <<row, onHand, moved, counting, holder>>

\* SELECT 1 FROM stock_counts: the SKU is not under count.
CheckCount(c) ==
  /\ command[c].at = "looked" /\ ~command[c].import
  /\ ~counting
  /\ command' = [command EXCEPT ![c].at = "checked"]
  /\ UNCHANGED <<row, onHand, moved, counting, holder>>

\* INSERT ... ON CONFLICT, or the import's UPDATE: the row is this command's.
Write(c) ==
  /\ \/ command[c].at = "checked"
     \/ command[c].at = "looked" /\ command[c].import
  /\ Free \/ holder = c
  /\ command' = [command EXCEPT ![c].at = "written"]
  /\ holder' = c
  /\ UNCHANGED <<row, onHand, moved, counting>>

\* Mutant of Stored: a command that found no row writes its own units.
StoredAnew(c) == IF command[c].found /\ ~command[c].import
                 THEN onHand + command[c].units ELSE command[c].units

\* What the command wrote over the balance it waited for: the import sets it,
\* unless to nothing, the others add.
Stored(c) ==
  IF ~command[c].import \/ command[c].units = 0
  THEN onHand + command[c].units ELSE command[c].units

\* COMMIT, with a movement of the units.
Commit(c) ==
  /\ command[c].at = "written"
  /\ Stored(c) <= MaxStock /\ moved + command[c].units <= MaxStock
  /\ row' = TRUE
  /\ onHand' = Stored(c)
  /\ moved' = moved + command[c].units
  /\ command' = [command EXCEPT ![c] = Idle]
  /\ holder' = "nobody"
  /\ UNCHANGED counting

\* ROLLBACK: the SKU is under count, another line is refused, a failure.
Rollback(c) ==
  /\ command[c] # Idle
  /\ command' = [command EXCEPT ![c] = Idle]
  /\ holder' = IF holder = c THEN "nobody" ELSE holder
  /\ UNCHANGED <<row, onHand, moved, counting>>

\* adjustment: reads and writes the locked row.
Adjust(delta) ==
  /\ row /\ Free /\ ~counting
  /\ onHand + delta \in 0..MaxStock /\ moved + delta <= MaxStock
  /\ onHand' = onHand + delta
  /\ moved' = moved + delta
  /\ UNCHANGED <<row, counting, command, holder>>

\* stock-count start, under the lock of the row.
StartCount ==
  /\ row /\ Free /\ ~counting
  /\ counting' = TRUE
  /\ UNCHANGED <<row, onHand, moved, command, holder>>

\* finalize: the difference to what is on hand now is moved.
FinalizeCount(counted) ==
  /\ counting /\ Free
  /\ moved + counted - onHand <= MaxStock
  /\ onHand' = counted
  /\ moved' = moved + counted - onHand
  /\ counting' = FALSE
  /\ UNCHANGED <<row, command, holder>>

\* cancel does not look at the balance.
CancelCount ==
  /\ counting
  /\ counting' = FALSE
  /\ UNCHANGED <<row, onHand, moved, command, holder>>

Step ==
  \/ \E c \in Command :
       \/ \E units \in 1..MaxStock : Look(c, units)
       \/ \E units \in 0..MaxStock : LookToImport(c, units)
       \/ CheckCount(c) \/ Write(c) \/ Commit(c) \/ Rollback(c)
  \/ \E delta \in (-MaxStock)..MaxStock : Adjust(delta)
  \/ \E counted \in 0..MaxStock : FinalizeCount(counted)
  \/ StartCount \/ CancelCount

ShelfSpec == Begin /\ [][Step]_shelfVars

-----------------------------------------------------------------------------
ShelfTypeOK ==
  /\ row \in BOOLEAN /\ counting \in BOOLEAN
  /\ onHand \in 0..MaxStock /\ moved \in Int
  /\ holder \in Command \cup {"nobody"}
  /\ command \in [Command -> {Idle} \cup
       [at : {"looked", "checked", "written"}, units : 0..MaxStock,
        found : BOOLEAN, import : BOOLEAN]]

Importing(c) == command[c].at = "written" /\ command[c].import /\ command'[c] = Idle
Unseen(c) == command[c].at = "written" /\ ~command[c].found /\ command'[c] = Idle

\* The shelf changes by what is moved, whoever creates the row first: first
\* receipts and returns of a SKU at the same time lose none of it.  Only an
\* import writes over what it has not seen, and then the ledger has more than the
\* shelf, never less.
ShelfFollowsLedger ==
  [][/\ moved' - onHand' # moved - onHand => \E c \in Command : Importing(c)
     /\ moved' - onHand' >= moved - onHand]_shelfVars

\* While the SKU is counted the shelf stays as it is, except for an import and
\* for a command that looked before there was a row to lock.
OnlyUnseenDisturbCounts ==
  [][counting /\ counting' /\ onHand' # onHand =>
       \E c \in Command : Importing(c) \/ Unseen(c)]_shelfVars

=============================================================================
