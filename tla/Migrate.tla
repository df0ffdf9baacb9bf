------------------------------- MODULE Migrate ------------------------------
(***************************************************************************)
(* packages/db: migrate() runs the files of migrations/ in order against   *)
(* Aurora DSQL.  DSQL takes one DDL statement per transaction, so a file    *)
(* is not atomic: each statement commits alone and the file is recorded in *)
(* _migrations afterwards.  A run may stop between any two of these; the   *)
(* next one (the CDK trigger on every deployment, or the CLI) starts over, *)
(* and two may overlap.                                                    *)
(***************************************************************************)
EXTENDS Naturals, Sequences

CONSTANTS
  Runs,   \* calls of migrate()
  Files   \* the sorted files: [ts : BOOLEAN, statements : sequence of kinds]

(* Kinds of statements, by what a second execution does:
     "create"  fails with "already exists" (CREATE TABLE, ADD COLUMN, ...)
     "once"    fails otherwise (DROP, RENAME, a keyed INSERT ... SELECT)
     "repeat"  succeeds and has its effect again (UPDATE, an unkeyed INSERT)
     "bad"     not valid on DSQL, matched by a pattern of dsql-compat.ts *)
Kinds == {"create", "once", "repeat", "bad"}

ASSUME FilesAssumption ==
  Files \in Seq([ts : BOOLEAN, statements : Seq(Kinds)])

Names == 1 .. Len(Files)
Length(f) == Len(Files[f].statements)
Steps == UNION {{<<f, k>> : k \in 1 .. Length(f)} : f \in Names}
Kind(s) == Files[s[1]].statements[s[2]]

\* Files run in order and statements in the order of their file.
Precedes(s, t) == s[1] < t[1] \/ (s[1] = t[1] /\ s[2] < t[2])
FileOf(s) == s[1]

VARIABLES
  effects,   \* how often each statement has taken effect
  recorded,  \* the table _migrations
  pc, file, pos  \* of each run: program counter, file, statement in the file

vars == <<effects, recorded, pc, file, pos>>

-----------------------------------------------------------------------------
Init ==
  /\ effects = [s \in Steps |-> 0]
  /\ recorded = {}
  /\ pc = [r \in Runs |-> "idle"]
  /\ file = [r \in Runs |-> 1]
  /\ pos = [r \in Runs |-> 1]

\* migrate() is called: CREATE TABLE IF NOT EXISTS _migrations, then the files
\* are listed and sorted.
Start(r) ==
  /\ pc[r] = "idle"
  /\ pc' = [pc EXCEPT ![r] = "select"]
  /\ UNCHANGED <<effects, recorded, file, pos>>

\* Mutant: the first recorded file ends the run.
SkipFileReturning(r) ==
  /\ pc[r] = "select"
  /\ file[r] \in recorded
  /\ pc' = [pc EXCEPT ![r] = "done"]
  /\ UNCHANGED <<effects, recorded, file, pos>>

\* SELECT 1 FROM _migrations: a recorded file is skipped.
SkipFile(r) ==
  /\ pc[r] = "select"
  /\ file[r] \in recorded
  /\ file' = [file EXCEPT ![r] = @ + 1]
  /\ UNCHANGED <<effects, recorded, pc, pos>>

\* Mutant: the file is recorded before its statements run.
EnterFileRecordingIt(r) ==
  /\ pc[r] = "select"
  /\ file[r] \in Names \ recorded
  /\ recorded' = recorded \cup {file[r]}
  /\ pc' = [pc EXCEPT ![r] = "run"]
  /\ pos' = [pos EXCEPT ![r] = 1]
  /\ UNCHANGED <<effects, file>>

\* Mutant: the position in the file before is kept.
EnterFileKeepingPosition(r) ==
  /\ pc[r] = "select"
  /\ file[r] \in Names \ recorded
  /\ pc' = [pc EXCEPT ![r] = "run"]
  /\ UNCHANGED <<effects, recorded, file, pos>>

\* A file that is not recorded is read and split into its statements.
EnterFile(r) ==
  /\ pc[r] = "select"
  /\ file[r] \in Names \ recorded
  /\ pc' = [pc EXCEPT ![r] = "run"]
  /\ pos' = [pos EXCEPT ![r] = 1]
  /\ UNCHANGED <<effects, recorded, file>>

Complete(r) ==
  /\ pc[r] = "select"
  /\ file[r] \notin Names
  /\ pc' = [pc EXCEPT ![r] = "done"]
  /\ UNCHANGED <<effects, recorded, file, pos>>

Current(r) == <<file[r], pos[r]>>
Running(r) == pc[r] = "run" /\ pos[r] <= Length(file[r])
Again(s) == effects[s] > 0

\* validateStatement guards SQL files only.
Refused(s) == Kind(s) = "bad" /\ ~Files[s[1]].ts

\* What the database answers to the statement.
Fails(s) == (Kind(s) \in {"create", "once"} /\ Again(s)) \/ Kind(s) = "bad"

\* BEGIN, the statement, COMMIT.
Execute(r) ==
  LET s == Current(r)
  IN  /\ Running(r)
      /\ ~Refused(s) /\ ~Fails(s)
      /\ effects' = [effects EXCEPT ![s] = @ + 1]
      /\ pos' = [pos EXCEPT ![r] = @ + 1]
      /\ UNCHANGED <<recorded, pc, file>>

\* Mutant: "already exists" ends the file, as if all of it had been applied.
SkipExistingFile(r) ==
  LET s == Current(r)
  IN  /\ Running(r)
      /\ ~Files[file[r]].ts /\ Kind(s) = "create" /\ Again(s)
      /\ pos' = [pos EXCEPT ![r] = Length(file[r]) + 1]
      /\ UNCHANGED <<effects, recorded, pc, file>>

\* Mutant: "already exists" is an error like any other.
SkipExistingNever(r) ==
  LET s == Current(r)
  IN  /\ Running(r)
      /\ ~Files[file[r]].ts /\ Kind(s) = "create" /\ Again(s)
      /\ pc' = [pc EXCEPT ![r] = "failed"]
      /\ UNCHANGED <<effects, recorded, file, pos>>

\* ROLLBACK after "already exists": the statement counts as done.
SkipExisting(r) ==
  LET s == Current(r)
  IN  /\ Running(r)
      /\ ~Files[file[r]].ts /\ Kind(s) = "create" /\ Again(s)
      /\ pos' = [pos EXCEPT ![r] = @ + 1]
      /\ UNCHANGED <<effects, recorded, pc, file>>

\* Mutant: a refused statement is logged and skipped.
AbortContinues(r) ==
  LET s == Current(r)
  IN  /\ Running(r)
      /\ Refused(s) \/ (Fails(s) /\ (Kind(s) = "create" => Files[file[r]].ts))
      /\ IF Refused(s) THEN pos' = [pos EXCEPT ![r] = @ + 1] /\ UNCHANGED pc
                       ELSE pc' = [pc EXCEPT ![r] = "failed"] /\ UNCHANGED pos
      /\ UNCHANGED <<effects, recorded, file>>

\* Any other error ends the run, the statements before it stay committed.
Abort(r) ==
  LET s == Current(r)
  IN  /\ Running(r)
      /\ Refused(s) \/ (Fails(s) /\ (Kind(s) = "create" => Files[file[r]].ts))
      /\ pc' = [pc EXCEPT ![r] = "failed"]
      /\ UNCHANGED <<effects, recorded, file, pos>>

\* Mutant: the index is advanced before the name is taken from it.
RecordNext(r) ==
  /\ pc[r] = "run" /\ pos[r] > Length(file[r])
  /\ file[r] \notin recorded
  /\ recorded' = recorded \cup {file[r] + 1}
  /\ file' = [file EXCEPT ![r] = @ + 1]
  /\ pc' = [pc EXCEPT ![r] = "select"]
  /\ UNCHANGED <<effects, pos>>

\* INSERT INTO _migrations; the primary key refuses a second run's row.
Record(r) ==
  /\ pc[r] = "run" /\ pos[r] > Length(file[r])
  /\ file[r] \notin recorded
  /\ recorded' = recorded \cup {file[r]}
  /\ file' = [file EXCEPT ![r] = @ + 1]
  /\ pc' = [pc EXCEPT ![r] = "select"]
  /\ UNCHANGED <<effects, pos>>

RecordConflicts(r) ==
  /\ pc[r] = "run" /\ pos[r] > Length(file[r])
  /\ file[r] \in recorded
  /\ pc' = [pc EXCEPT ![r] = "failed"]
  /\ UNCHANGED <<effects, recorded, file, pos>>

\* The connection, the process or the Lambda's 15 minutes end, or DSQL refuses a
\* transaction for a conflict; with the connection lost the ROLLBACK throws too.
\* A COMMIT whose answer is lost is Execute followed by Crash.
Crash(r) ==
  /\ pc[r] \in {"select", "run"}
  /\ pc' = [pc EXCEPT ![r] = "failed"]
  /\ UNCHANGED <<effects, recorded, file, pos>>

Step(r) ==
  \/ SkipFile(r) \/ EnterFile(r) \/ Complete(r) \/ Execute(r) \/ SkipExisting(r)
  \/ Abort(r) \/ Record(r) \/ RecordConflicts(r)

Next == \E r \in Runs : Start(r) \/ Step(r) \/ Crash(r)

Spec == Init /\ [][Next]_vars

-----------------------------------------------------------------------------
TypeOK ==
  /\ effects \in [Steps -> Nat]
  /\ recorded \subseteq Names
  /\ pc \in [Runs -> {"idle", "select", "run", "done", "failed"}]
  /\ file \in [Runs -> 1 .. Len(Files) + 1]
  /\ pos \in [Runs -> Nat \ {0}]

Applied == {s \in Steps : effects[s] > 0}

\* A statement an earlier run was stopped at is never jumped over: whatever has
\* taken effect, everything before it has, although runs overlap, crash and
\* start over from the table _migrations alone.
InOrder == \A s \in Applied, t \in Steps : Precedes(t, s) => t \in Applied

\* A file found in _migrations is skipped for ever, so it must have taken effect
\* completely, "already exists" included.
RecordedIsApplied == \A s \in Steps : FileOf(s) \in recorded => s \in Applied

\* A statement that is not valid on DSQL stops every run: neither it nor a
\* statement after it takes effect, and its file and the later ones are never
\* recorded, whichever statements of its file were committed before the
\* validation reached it.
RejectedBlocks ==
  \A s \in Steps : Kind(s) = "bad" =>
    /\ \A t \in Applied : Precedes(t, s)
    /\ \A f \in recorded : f < FileOf(s)

\* "Migrations complete" is true: every file is recorded and every statement has
\* taken effect, whichever runs did the work (the deployment goes on after it).
CompletedIsApplied ==
  (\E r \in Runs : pc[r] = "done") => recorded = Names /\ Applied = Steps

\* The abstract specification this one implements.
Log == INSTANCE MigrationLog WITH applied <- Applied, logged <- recorded
ImplementsLog == Log!Spec
=============================================================================
