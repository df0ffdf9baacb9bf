---------------------------- MODULE MigrationLog ----------------------------
(***************************************************************************)
(* What applying migrations promises, whoever applies them and however     *)
(* often they are interrupted: the statements take effect in the order of  *)
(* the files, none before all of its predecessors, and a file is recorded  *)
(* as applied only when all of it is.                                      *)
(***************************************************************************)
EXTENDS Naturals

CONSTANTS
  Steps,           \* the statements of all files
  Names,           \* the files
  Precedes(_, _),  \* the order of the statements
  FileOf(_)        \* the file of a statement

VARIABLES applied, logged

\* The next statement in order takes effect.
Apply(s) ==
  /\ \A t \in Steps : Precedes(t, s) => t \in applied
  /\ applied' = applied \cup {s}
  /\ UNCHANGED logged

\* A file is recorded.
Log(f) ==
  /\ \A s \in Steps : FileOf(s) = f => s \in applied
  /\ logged' = logged \cup {f}
  /\ UNCHANGED applied

Init == applied = {} /\ logged = {}
Next == (\E s \in Steps : Apply(s)) \/ (\E f \in Names : Log(f))
Spec == Init /\ [][Next]_<<applied, logged>>
=============================================================================
