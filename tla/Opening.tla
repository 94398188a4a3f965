------------------------------ MODULE Opening ------------------------------
(***************************************************************************)
(* Processes that open the database and bring its schema up to date: the   *)
(* web server and the commands, each of which may die at any point.        *)
(***************************************************************************)
EXTENDS Naturals

CONSTANTS
  Openers,     \* processes
  Latest,      \* the number of migrations in this release
  Repeatable   \* those that also succeed on a schema that has them already

ASSUME OpeningAssumption ==
  /\ Latest \in Nat
  /\ Repeatable \subseteq 1 .. Latest

VARIABLES
  version,  \* PRAGMA user_version
  schema,   \* the migrations whose effect is in the database
  opener,   \* how far each process is, and the migration it is at
  raced     \* whether two were migrating at a time (history)

openingVars == <<version, schema, opener, raced>>

Closed == [step |-> "closed", next |-> 0]

(* An older release left a prefix of the migrations, and no file at all is *)
(* the empty one.                                                          *)
OpeningInit ==
  /\ version \in 0 .. Latest
  /\ schema = 1 .. version
  /\ opener = [o \in Openers |-> Closed]
  /\ raced = FALSE

Move(o, to) == opener' = [opener EXCEPT ![o] = to]

ReadVersion(o) ==
  /\ opener[o].step = "closed"
  /\ raced' = (raced \/ \E p \in Openers : opener[p].step = "migrating")
  /\ Move(o, [step |-> "migrating", next |-> version + 1])
  /\ UNCHANGED <<version, schema>>

(* Mutation of ApplyMigration: the version is set by another transaction.  *)
ApplyThenSet(o) ==
  LET n == opener[o].next IN
  /\ opener[o].step = "migrating"
  /\ n <= Latest
  /\ \/ n \notin schema /\ schema' = schema \cup {n} /\ UNCHANGED <<version, opener, raced>>
     \/ n \in schema /\ version' = n /\ Move(o, [opener[o] EXCEPT !.next = n + 1])
        /\ UNCHANGED <<schema, raced>>

(* One transaction: the file's statements, then its number. Most of them   *)
(* (ADD COLUMN) fail on a schema that has them.                            *)
ApplyMigration(o) ==
  LET n == opener[o].next IN
  /\ opener[o].step = "migrating"
  /\ n <= Latest
  /\ n \in schema => n \in Repeatable
  /\ schema' = schema \cup {n}
  /\ version' = n
  /\ Move(o, [opener[o] EXCEPT !.next = n + 1])
  /\ UNCHANGED raced

Opened(o) ==
  /\ opener[o].step = "migrating"
  /\ opener[o].next > Latest
  /\ Move(o, [step |-> "open", next |-> 0])
  /\ UNCHANGED <<version, schema, raced>>

(* A migration fails, or the process ends: its transaction is rolled back. *)
CloseStore(o) ==
  /\ opener[o].step # "closed"
  /\ Move(o, Closed)
  /\ UNCHANGED <<version, schema, raced>>

OpenStep(o) == ApplyMigration(o) \/ Opened(o)

(* Any number of processes, in any order.                                  *)
OpeningNext == \E o \in Openers : ReadVersion(o) \/ OpenStep(o) \/ CloseStore(o)

OpeningSpec == OpeningInit /\ [][OpeningNext]_openingVars

OpeningTypeOK ==
  /\ version \in 0 .. Latest
  /\ schema \subseteq 1 .. Latest
  /\ raced \in BOOLEAN
  /\ opener \in [Openers -> [step : {"closed", "migrating", "open"}, next : 0 .. Latest + 1]]

(* Whatever process dies among them, or migrates at the same time, the     *)
(* version never promises a migration the database has not had; and unless *)
(* two processes have migrated at once it tells exactly which ones it has  *)
(* ("re-opening an up-to-date database is a no-op", migrate).              *)
VersionTellsSchema ==
  /\ 1 .. version \subseteq schema
  /\ ~raced => schema = 1 .. version

=============================================================================
