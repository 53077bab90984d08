------------------------------- MODULE Migrate -------------------------------
(***************************************************************************)
(* The migrations of the database (scripts/db-migrate.ts): each file once, *)
(* in order, with a row that says so.  What already exists is adopted.     *)
(*                                                                         *)
(* D1 carries out a file as a whole or not at all; a person at a console   *)
(* need not.  Several operators, or one whose run has died, may start the  *)
(* script.                                                                 *)
(***************************************************************************)
EXTENDS Naturals

CONSTANTS
    Files,      \* number of migrations
    Runner      \* runs of the script

ASSUME MigrateConstants == Files \in Nat \ {0}

VARIABLES
    schema,     \* schema[f]: how much of migration f the database has
    recorded,   \* the rows of schema_migrations
    byHand,     \* history: files of which a person had carried out a part
    run         \* run[r]: a run of the script, and the file it works on

migrateVars == <<schema, recorded, byHand, run>>

File == 1..Files

MigrateTypeOK ==
    /\ schema \in [File -> {"none", "part", "whole"}]
    /\ recorded \in SUBSET File
    /\ byHand \in SUBSET File
    /\ run \in [Runner -> [step : {"idle", "apply", "record", "stopped"},
                           pending : SUBSET File, at : File]]

\* A database that is older than the script has some of the migrations.
MigrateInit ==
    /\ schema \in [File -> {"none", "part", "whole"}]
    /\ recorded = {}
    /\ byHand = {f \in File : schema[f] = "part"}
    /\ run = [r \in Runner |-> [step |-> "idle", pending |-> {}, at |-> 1]]

First(s) == CHOOSE f \in s : \A g \in s : f <= g

\* The next file of the list that the run has made, or the end.
Advance(r, todo) ==
    run' = [run EXCEPT ![r] = [step |-> IF todo = {} THEN "stopped" ELSE "apply",
                               pending |-> todo,
                               at |-> IF todo = {} THEN 1 ELSE First(todo)]]

Stop(r) == run' = [run EXCEPT ![r].step = "stopped", ![r].pending = {}]

-----------------------------------------------------------------------------
\* The SELECT: what is not recorded is pending, whatever others do meanwhile;
\* when it fails, nothing counts as recorded.
StartRun(r) ==
    /\ run[r].step \in {"idle", "stopped"}
    /\ \E known \in {recorded, {}} : Advance(r, File \ known)
    /\ UNCHANGED <<schema, recorded, byHand>>

\* Mutation: a file that fails is recorded whatever the reason.
ApplyAnyway(r) ==
    /\ run[r].step = "apply"
    /\ \/ schema' = [schema EXCEPT ![run[r].at] = "whole"]
       \/ UNCHANGED schema
    /\ run' = [run EXCEPT ![r].step = "record"]
    /\ UNCHANGED <<recorded, byHand>>

\* d1Execute of the file, and isAlreadyAppliedError of its failure: the first
\* object that is there stops the whole file, and the file is adopted.
ApplyFile(r) ==
    /\ run[r].step = "apply"
    /\ schema' = [schema EXCEPT ![run[r].at] = IF @ = "none" THEN "whole" ELSE @]
    /\ run' = [run EXCEPT ![r].step = "record"]
    /\ UNCHANGED <<recorded, byHand>>

\* Any other failure ends the run; if only the answer is lost, the file is in.
ApplyFails(r) ==
    /\ run[r].step = "apply"
    /\ \/ UNCHANGED schema
       \/ schema' = [schema EXCEPT ![run[r].at] = IF @ = "none" THEN "whole" ELSE @]
    /\ Stop(r)
    /\ UNCHANGED <<recorded, byHand>>

\* The name is the primary key: a second INSERT fails, and the run with it.
RecordFile(r) ==
    /\ run[r].step = "record"
    /\ recorded' = recorded \cup {run[r].at}
    /\ IF run[r].at \in recorded THEN Stop(r)
       ELSE Advance(r, run[r].pending \ {run[r].at})
    /\ UNCHANGED <<schema, byHand>>

\* The script dies, or the INSERT fails.
DieBeforeRecord(r) ==
    /\ run[r].step = "record"
    /\ Stop(r)
    /\ UNCHANGED <<schema, recorded, byHand>>

-----------------------------------------------------------------------------
MigrateNext ==
    \E r \in Runner : \/ StartRun(r) \/ ApplyFile(r) \/ ApplyFails(r)
                      \/ RecordFile(r) \/ DieBeforeRecord(r)

MigrateSpec == MigrateInit /\ [][MigrateNext]_migrateVars

-----------------------------------------------------------------------------
(* Safety.                                                                 *)

\* Runs may die, overlap and be repeated: a migration that is recorded is in
\* the database, and whole unless somebody had carried out a part of it by hand;
\* and a file is tried only after those before it.
RecordedIsWhole ==
    /\ \A f \in recorded : schema[f] = "whole" \/ (schema[f] = "part" /\ f \in byHand)
    /\ \A r \in Runner, f \in File :
          run[r].step \in {"apply", "record"} /\ f < run[r].at => f \in recorded
=============================================================================
