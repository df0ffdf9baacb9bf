---------------------------- MODULE MigrateProofs ---------------------------
(***************************************************************************)
(* Theorems about Migrate, for every number of overlapping or interrupted  *)
(* runs and every sequence of migration files.                             *)
(***************************************************************************)
EXTENDS Migrate, TLAPS

-----------------------------------------------------------------------------
(* The statements and their order. *)

LEMMA LengthType == \A f \in Names : Length(f) \in Nat
  BY FilesAssumption DEF Names, Length

\* A statement is a file and a position in it.
LEMMA StepsMember ==
  /\ \A f \in Names : \A k \in 1 .. Length(f) : <<f, k>> \in Steps
  /\ \A s \in Steps : /\ s[1] \in Names /\ s[2] \in 1 .. Length(s[1])
                      /\ s = <<s[1], s[2]>>
  BY DEF Steps

LEMMA NamesNat == Names \subseteq Nat /\ \A f \in Names : 1 .. f \subseteq Names
  BY FilesAssumption DEF Names

LEMMA LastFile == \A f \in Names : f + 1 \in 1 .. Len(Files) + 1
  BY FilesAssumption DEF Names

-----------------------------------------------------------------------------
(* The inductive invariant: a run that reached a statement leaves nothing      *)
(* before it undone.  A run knows of its predecessors' work only through       *)
(* _migrations, so RecordedIsApplied is part of it.                            *)

DoneBefore(s) == \A t \in Steps : Precedes(t, s) => t \in Applied

Progress ==
  \A r \in Runs :
    /\ pc[r] = "select" => DoneBefore(<<file[r], 1>>)
    /\ pc[r] = "run" => file[r] \in Names /\ DoneBefore(<<file[r], pos[r]>>)
    /\ pc[r] = "idle" => file[r] = 1

\* A statement DSQL does not accept has no effect.
NothingBad == \A s \in Applied : Kind(s) # "bad"

Inv == TypeOK /\ InOrder /\ RecordedIsApplied /\ Progress /\ NothingBad

LEMMA InitInv == Init => Inv
<1> SUFFICES ASSUME Init PROVE Inv
  OBVIOUS
<1>1. TypeOK /\ Applied = {} /\ recorded = {}
  BY DEF Init, TypeOK, Applied
<1>2. DoneBefore(<<1, 1>>)
  BY StepsMember, NamesNat DEF DoneBefore, Precedes, Names
<1>. QED BY <1>1, <1>2 DEF Init, Inv, InOrder, RecordedIsApplied, Progress, NothingBad

\* Steps that neither execute nor record keep what is said of the database.
LEMMA DatabaseUnchanged ==
  ASSUME Inv, UNCHANGED <<effects, recorded>>
  PROVE  /\ UNCHANGED Applied
         /\ (InOrder /\ RecordedIsApplied /\ NothingBad)'
  BY DEF Inv, Applied, InOrder, RecordedIsApplied, NothingBad

LEMMA DoneBeforeKept ==
  ASSUME Applied \subseteq Applied', NEW s, DoneBefore(s)
  PROVE  DoneBefore(s)'
  BY DEF DoneBefore

LEMMA NextInv == Inv /\ [Next]_vars => Inv'
<1> SUFFICES ASSUME Inv, [Next]_vars PROVE Inv'
  OBVIOUS
<1> USE DEF Inv
<1>1. ASSUME NEW r \in Runs,
             \/ Start(r) \/ SkipFile(r) \/ EnterFile(r) \/ Complete(r) \/ SkipExisting(r)
             \/ Abort(r) \/ RecordConflicts(r) \/ Crash(r)
      PROVE  Inv'
  <2>1. UNCHANGED <<effects, recorded>>
    BY <1>1 DEF Start, SkipFile, EnterFile, Complete, SkipExisting, Abort, RecordConflicts, Crash
  <2>2. TypeOK'
    <3>1. pc' \in [Runs -> {"idle", "select", "run", "done", "failed"}]
      BY <1>1 DEF Start, SkipFile, EnterFile, Complete, SkipExisting, Abort,
                  RecordConflicts, Crash, TypeOK
    <3>2. file' \in [Runs -> 1 .. Len(Files) + 1]
      <4>1. CASE SkipFile(r)
        <5>1. file' = [file EXCEPT ![r] = @ + 1] /\ file[r] \in Names
          BY <4>1 DEF SkipFile, TypeOK
        <5>. QED BY <5>1, LastFile DEF TypeOK
      <4>2. CASE ~SkipFile(r)
        BY <1>1, <4>2 DEF Start, EnterFile, Complete, SkipExisting, Abort,
                          RecordConflicts, Crash, TypeOK
      <4>. QED BY <4>1, <4>2
    <3>3. pos' \in [Runs -> Nat \ {0}]
      BY <1>1 DEF Start, SkipFile, EnterFile, Complete, SkipExisting, Abort,
                  RecordConflicts, Crash, TypeOK
    <3>. QED BY <2>1, <3>1, <3>2, <3>3 DEF TypeOK
  <2>3. UNCHANGED Applied /\ (InOrder /\ RecordedIsApplied /\ NothingBad)'
    BY <2>1, DatabaseUnchanged
  <2>4. \A q \in Runs \ {r} : pc'[q] = pc[q] /\ file'[q] = file[q] /\ pos'[q] = pos[q]
    BY <1>1 DEF Start, SkipFile, EnterFile, Complete, SkipExisting, Abort, RecordConflicts,
                Crash, TypeOK
  <2> DEFINE P == /\ pc'[r] = "select" => DoneBefore(<<file'[r], 1>>)
                  /\ pc'[r] = "run" => file'[r] \in Names /\ DoneBefore(<<file'[r], pos'[r]>>)
                  /\ pc'[r] = "idle" => file'[r] = 1
  <2>5. P
    <3>1. CASE Start(r)
      <4>1. pc'[r] = "select" /\ file'[r] = 1
        BY <3>1 DEF Start, TypeOK, Progress
      <4>2. DoneBefore(<<1, 1>>)
        BY StepsMember, NamesNat DEF DoneBefore, Precedes, Names
      <4>. QED BY <4>1, <4>2
    <3>2. CASE SkipFile(r)
      <4>1. pc'[r] = "select" /\ file'[r] = file[r] + 1 /\ file[r] \in recorded
        BY <3>2 DEF SkipFile, TypeOK
      <4>2. DoneBefore(<<file[r] + 1, 1>>)
        <5>1. file[r] \in Nat /\ pc[r] = "select"
          BY <3>2 DEF SkipFile, TypeOK
        <5>2. ASSUME NEW t \in Steps, Precedes(t, <<file[r] + 1, 1>>) PROVE t \in Applied
          <6>1. t[1] \in Nat /\ t[2] \in Nat \ {0}
            BY StepsMember, NamesNat, LengthType
          <6>2. t[1] = file[r] \/ t[1] < file[r]
            BY <5>1, <5>2, <6>1 DEF Precedes
          <6>3. CASE t[1] = file[r]
            BY <4>1, <6>3 DEF RecordedIsApplied, FileOf
          <6>4. CASE t[1] < file[r]
            BY <5>1, <6>4 DEF Progress, DoneBefore, Precedes
          <6>. QED BY <6>2, <6>3, <6>4
        <5>. QED BY <5>2 DEF DoneBefore
      <4>. QED BY <4>1, <4>2
    <3>3. CASE EnterFile(r)
      <4>1. pc'[r] = "run" /\ file'[r] = file[r] /\ pos'[r] = 1 /\ file[r] \in Names
        BY <3>3 DEF EnterFile, TypeOK
      <4>. QED BY <3>3, <4>1 DEF EnterFile, Progress
    <3>4. CASE SkipExisting(r)
      <4>1. /\ pc'[r] = "run" /\ file'[r] = file[r] /\ pos'[r] = pos[r] + 1
            /\ pc[r] = "run" /\ pos[r] \in Nat /\ file[r] \in Names
        BY <3>4 DEF SkipExisting, Running, TypeOK, Progress
      <4>2. Current(r) \in Steps => Current(r) \in Applied
        BY <3>4 DEF SkipExisting, Again, Applied
      <4>3. DoneBefore(<<file[r], pos[r] + 1>>)
        <5>1. ASSUME NEW t \in Steps, Precedes(t, <<file[r], pos[r] + 1>>) PROVE t \in Applied
          <6>1. t[1] \in Nat /\ t[2] \in Nat /\ file[r] \in Nat /\ t = <<t[1], t[2]>>
            BY <4>1, StepsMember, NamesNat, LengthType
          <6>2. Precedes(t, <<file[r], pos[r]>>) \/ t = Current(r)
            BY <4>1, <5>1, <6>1 DEF Precedes, Current
          <6>. QED BY <4>1, <4>2, <6>2 DEF Progress, DoneBefore
        <5>. QED BY <5>1 DEF DoneBefore
      <4>. QED BY <4>1, <4>3
    <3>5. CASE Complete(r) \/ Abort(r) \/ RecordConflicts(r) \/ Crash(r)
      BY <3>5 DEF Complete, Abort, RecordConflicts, Crash, TypeOK
    <3>. QED BY <1>1, <3>1, <3>2, <3>3, <3>4, <3>5
  <2>6. Progress'
    <3>1. \A s : DoneBefore(s) => DoneBefore(s)'
      BY <2>3, DoneBeforeKept
    <3>. QED BY <2>4, <2>5, <3>1 DEF Progress
  <2>. QED BY <2>2, <2>3, <2>6
<1>2. ASSUME NEW r \in Runs, Execute(r) PROVE Inv'
  <2> DEFINE s == Current(r)
  <2>1. /\ pc[r] = "run" /\ file[r] \in Names /\ pos[r] \in Nat \ {0}
        /\ pos[r] <= Length(file[r]) /\ Kind(s) # "bad"
        /\ effects' = [effects EXCEPT ![s] = @ + 1]
        /\ pos' = [pos EXCEPT ![r] = @ + 1]
        /\ UNCHANGED <<recorded, pc, file>>
    BY <1>2 DEF Execute, Running, Fails, TypeOK, Progress
  <2> s \in Steps
    BY <2>1, StepsMember, LengthType DEF Current
  <2> HIDE DEF s
  <2>2. TypeOK'
    <3>1. effects' \in [Steps -> Nat]
      BY <2>1 DEF TypeOK
    <3>2. pos' \in [Runs -> Nat \ {0}]
      BY <2>1 DEF TypeOK
    <3>. QED BY <2>1, <3>1, <3>2 DEF TypeOK
  <2>3. Applied' = Applied \cup {s}
    BY <2>1 DEF Applied, TypeOK
  <2>4. DoneBefore(s)
    BY <2>1 DEF Progress, Current, s
  <2>5. InOrder'
    BY <2>3, <2>4 DEF InOrder, DoneBefore
  <2>6. RecordedIsApplied' /\ NothingBad'
    BY <2>1, <2>3 DEF RecordedIsApplied, NothingBad
  <2>7. \A t \in Steps : Precedes(t, <<file[r], pos[r] + 1>>) => t \in Applied'
    <3> SUFFICES ASSUME NEW t \in Steps, Precedes(t, <<file[r], pos[r] + 1>>)
                 PROVE  t \in Applied'
      OBVIOUS
    <3>1. t[1] \in Nat /\ t[2] \in Nat /\ file[r] \in Nat /\ t = <<t[1], t[2]>>
      BY <2>1, StepsMember, NamesNat, LengthType
    <3>2. Precedes(t, s) \/ t = s
      BY <2>1, <3>1 DEF Precedes, Current, s
    <3>. QED BY <2>3, <2>4, <3>2 DEF DoneBefore
  <2>8. Progress'
    <3>1. Applied \subseteq Applied'
      BY <2>3
    <3>2. \A q \in Runs : pos'[q] = IF q = r THEN pos[r] + 1 ELSE pos[q]
      BY <2>1 DEF TypeOK
    <3> SUFFICES ASSUME NEW q \in Runs
                 PROVE  /\ pc'[q] = "select" => DoneBefore(<<file[q], 1>>)'
                        /\ pc'[q] = "run" => file'[q] \in Names /\ DoneBefore(<<file[q], pos[q]>>)'
                        /\ pc'[q] = "idle" => file'[q] = 1
      BY DEF Progress
    <3>3. CASE q = r
      BY <2>1, <2>7, <3>2, <3>3 DEF DoneBefore
    <3>4. CASE q # r
      BY <2>1, <3>1, <3>2, <3>4 DEF Progress, DoneBefore
    <3>. QED BY <3>3, <3>4
  <2>. QED BY <2>2, <2>5, <2>6, <2>8
<1>3. ASSUME NEW r \in Runs, Record(r) PROVE Inv'
  <2>1. /\ pc[r] = "run" /\ file[r] \in Names /\ pos[r] > Length(file[r]) /\ pos[r] \in Nat
        /\ recorded' = recorded \cup {file[r]}
        /\ file' = [file EXCEPT ![r] = @ + 1]
        /\ pc' = [pc EXCEPT ![r] = "select"]
        /\ UNCHANGED <<effects, pos>>
        /\ DoneBefore(<<file[r], pos[r]>>)
    BY <1>3 DEF Record, TypeOK, Progress
  <2>2. TypeOK'
    <3>1. file' \in [Runs -> 1 .. Len(Files) + 1]
      BY <2>1, LastFile DEF TypeOK
    <3>2. pc' \in [Runs -> {"idle", "select", "run", "done", "failed"}]
      BY <2>1 DEF TypeOK
    <3>. QED BY <2>1, <3>1, <3>2 DEF TypeOK
  <2>3. UNCHANGED Applied /\ InOrder' /\ NothingBad'
    BY <2>1 DEF Applied, InOrder, NothingBad
  <2>4. ASSUME NEW t \in Steps, t[1] <= file[r] PROVE t \in Applied
    <3>1. t[1] \in Nat /\ t[2] \in Nat /\ t[2] <= Length(t[1]) /\ file[r] \in Nat
      BY <2>1, StepsMember, NamesNat, LengthType
    <3>2. Precedes(t, <<file[r], pos[r]>>)
      BY <2>1, <2>4, <3>1, LengthType DEF Precedes
    <3>. QED BY <2>1, <3>2 DEF DoneBefore
  <2>5. RecordedIsApplied'
    BY <2>1, <2>3, <2>4, StepsMember, NamesNat DEF RecordedIsApplied, FileOf
  <2>6. DoneBefore(<<file[r] + 1, 1>>)
    <3>1. ASSUME NEW t \in Steps, Precedes(t, <<file[r] + 1, 1>>) PROVE t[1] <= file[r]
      <4>1. t[1] \in Nat /\ t[2] \in Nat \ {0} /\ file[r] \in Nat
        BY <2>1, StepsMember, NamesNat, LengthType
      <4>. QED BY <3>1, <4>1 DEF Precedes
    <3>. QED BY <2>4, <3>1 DEF DoneBefore
  <2>7. Progress'
    <3>1. \A t : DoneBefore(t) => DoneBefore(t)'
      BY <2>3, DoneBeforeKept
    <3>2. \A q \in Runs \ {r} : pc'[q] = pc[q] /\ file'[q] = file[q]
      BY <2>1 DEF TypeOK
    <3>3. pc'[r] = "select" /\ file'[r] = file[r] + 1
      BY <2>1 DEF TypeOK
    <3>. QED BY <2>1, <2>6, <3>1, <3>2, <3>3 DEF Progress
  <2>. QED BY <2>2, <2>3, <2>5, <2>7
<1>4. CASE UNCHANGED vars
  BY <1>4 DEF vars, TypeOK, InOrder, RecordedIsApplied, Progress, NothingBad, Applied, DoneBefore
<1>. QED BY <1>1, <1>2, <1>3, <1>4 DEF Next, Step

-----------------------------------------------------------------------------
(* Files are recorded in order.  RecordedIsApplied does not say so of a file    *)
(* without statements, so RejectedBlocks needs it.                             *)

Recorded(n) == \A f \in Names : f < n => f \in recorded

LogInv ==
  /\ \A f \in recorded : Recorded(f)
  /\ \A r \in Runs :
       /\ pc[r] = "idle" => file[r] = 1
       /\ pc[r] \in {"select", "run", "done"} => Recorded(file[r])
       /\ pc[r] = "done" => file[r] \notin Names

LEMMA InitLogInv == Init => LogInv
  BY FilesAssumption DEF Init, LogInv, Recorded, Names

LEMMA NextLogInv == TypeOK /\ LogInv /\ [Next]_vars => LogInv'
<1> SUFFICES ASSUME TypeOK, LogInv, [Next]_vars PROVE LogInv'
  OBVIOUS
<1>1. ASSUME NEW r \in Runs,
             \/ Start(r) \/ EnterFile(r) \/ Complete(r) \/ Execute(r) \/ SkipExisting(r)
             \/ Abort(r) \/ RecordConflicts(r) \/ Crash(r)
      PROVE  LogInv'
  <2>1. UNCHANGED <<recorded, file>>
    BY <1>1 DEF Start, EnterFile, Complete, Execute, SkipExisting, Abort, RecordConflicts, Crash
  <2>2. \A q \in Runs : \/ pc'[q] = pc[q]
                        \/ pc[q] = "idle" /\ pc'[q] = "select"
                        \/ pc[q] = "select" /\ pc'[q] = "run"
                        \/ pc[q] = "select" /\ pc'[q] = "done" /\ file[q] \notin Names
                        \/ pc'[q] = "failed"
    <3>1. CASE Start(r)
      BY <3>1 DEF Start, TypeOK
    <3>2. CASE EnterFile(r)
      BY <3>2 DEF EnterFile, TypeOK
    <3>3. CASE Complete(r) \/ Abort(r) \/ RecordConflicts(r) \/ Crash(r)
      BY <3>3 DEF Complete, Abort, RecordConflicts, Crash, TypeOK
    <3>4. CASE Execute(r) \/ SkipExisting(r)
      BY <3>4 DEF Execute, SkipExisting
    <3>. QED BY <1>1, <3>1, <3>2, <3>3, <3>4
  <2>3. Recorded(1)
    BY FilesAssumption DEF Recorded, Names
  <2>. QED BY <2>1, <2>2, <2>3 DEF LogInv, Recorded
<1>2. ASSUME NEW r \in Runs, SkipFile(r) \/ Record(r) PROVE LogInv'
  <2>1. /\ pc[r] \in {"select", "run"} /\ pc' = [pc EXCEPT ![r] = "select"]
        /\ file[r] \in 1 .. Len(Files) + 1
        /\ file' = [file EXCEPT ![r] = @ + 1]
        /\ recorded' = recorded \cup {file[r]}
    BY <1>2 DEF SkipFile, Record, TypeOK
  <2>2. Recorded(file[r])
    BY <2>1 DEF LogInv
  <2>3. \A f \in Names : f < file[r] + 1 => f \in recorded'
    <3> SUFFICES ASSUME NEW f \in Names, f < file[r] + 1 PROVE f \in recorded'
      OBVIOUS
    <3>1. f < file[r] \/ f = file[r]
      BY <2>1, NamesNat, FilesAssumption
    <3>. QED BY <2>1, <2>2, <3>1 DEF Recorded
  <2>4. \A f \in recorded' : Recorded(f)'
    BY <2>1, <2>2 DEF LogInv, Recorded
  <2>5. ASSUME NEW q \in Runs
        PROVE  /\ pc'[q] = "idle" => file'[q] = 1
               /\ pc'[q] \in {"select", "run", "done"} => Recorded(file[q])'
               /\ pc'[q] = "done" => file'[q] \notin Names
    <3>1. CASE q = r
      BY <2>1, <2>3, <3>1 DEF Recorded, TypeOK
    <3>2. CASE q # r
      <4>1. pc'[q] = pc[q] /\ file'[q] = file[q]
        BY <2>1, <3>2 DEF TypeOK
      <4>2. pc[q] \in {"select", "run", "done"} => \A f \in Names : f < file[q] => f \in recorded'
        BY <2>1 DEF LogInv, Recorded
      <4>3. (pc[q] = "idle" => file[q] = 1) /\ (pc[q] = "done" => file[q] \notin Names)
        BY DEF LogInv
      <4>. QED BY <4>1, <4>2, <4>3 DEF Recorded
    <3>. QED BY <3>1, <3>2
  <2>. QED BY <2>4, <2>5 DEF LogInv
<1>3. CASE UNCHANGED vars
  BY <1>3 DEF vars, LogInv, Recorded
<1>. QED BY <1>1, <1>2, <1>3 DEF Next, Step

-----------------------------------------------------------------------------
LEMMA InvHolds == Spec => []Inv
  BY InitInv, NextInv, PTL DEF Spec

LEMMA LogInvHolds == Spec => []LogInv
<1>1. Inv => TypeOK
  BY DEF Inv
<1>. QED BY <1>1, InvHolds, InitLogInv, NextLogInv, PTL DEF Spec

\* Type correctness of migrate().
THEOREM MigrateTypeCorrect == Spec => []TypeOK
<1>1. Inv => TypeOK
  BY DEF Inv
<1>. QED BY <1>1, InvHolds, PTL

\* However runs overlap and wherever they are interrupted, statements take effect
\* in the order of the files.
THEOREM StatementsApplyInOrder == Spec => []InOrder
<1>1. Inv => InOrder
  BY DEF Inv
<1>. QED BY <1>1, InvHolds, PTL

\* What _migrations makes every later run skip has taken effect completely.
THEOREM RecordedFilesAreApplied == Spec => []RecordedIsApplied
<1>1. Inv => RecordedIsApplied
  BY DEF Inv
<1>. QED BY <1>1, InvHolds, PTL

\* A statement that DSQL does not accept stops every run for good: the later
\* statements never take effect and its file and the later ones are not recorded.
THEOREM RejectedStatementsBlock == Spec => []RejectedBlocks
<1>1. Inv /\ LogInv => RejectedBlocks
  <2> SUFFICES ASSUME Inv, LogInv, NEW s \in Steps, Kind(s) = "bad"
               PROVE  /\ \A t \in Applied : Precedes(t, s)
                      /\ \A f \in recorded : f < FileOf(s)
    BY DEF RejectedBlocks
  <2>1. s \notin Applied
    BY DEF Inv, NothingBad
  <2>2. ASSUME NEW t \in Applied PROVE Precedes(t, s)
    <3>1. t \in Steps
      BY DEF Applied
    <3>2. /\ s[1] \in Nat /\ s[2] \in Nat /\ s = <<s[1], s[2]>>
          /\ t[1] \in Nat /\ t[2] \in Nat /\ t = <<t[1], t[2]>>
      BY <3>1, StepsMember, NamesNat, LengthType
    <3>3. ~Precedes(s, t)
      BY <2>1 DEF Inv, InOrder
    <3>4. s # t
      BY <2>1
    <3>. QED BY <3>2, <3>3, <3>4 DEF Precedes
  <2>3. ASSUME NEW f \in recorded PROVE f < FileOf(s)
    <3>1. FileOf(s) \in Names /\ FileOf(s) \notin recorded /\ f \in Names
      BY <2>1, StepsMember DEF Inv, RecordedIsApplied, FileOf, TypeOK
    <3>2. ~(FileOf(s) < f)
      BY <3>1 DEF LogInv, Recorded
    <3>3. f \in Nat /\ FileOf(s) \in Nat /\ f # FileOf(s)
      BY <3>1, NamesNat
    <3>. QED BY <3>2, <3>3
  <2>. QED BY <2>2, <2>3
<1>. QED BY <1>1, LogInvHolds, InvHolds, PTL

\* A run that reports completion leaves nothing to apply.
THEOREM CompletedRunsAreApplied == Spec => []CompletedIsApplied
<1>1. Inv /\ LogInv => CompletedIsApplied
  <2> SUFFICES ASSUME Inv, LogInv, NEW r \in Runs, pc[r] = "done"
               PROVE  recorded = Names /\ Applied = Steps
    BY DEF CompletedIsApplied
  <2>1. file[r] = Len(Files) + 1 /\ Len(Files) \in Nat
    BY FilesAssumption DEF LogInv, Inv, TypeOK, Names
  <2>2. \A f \in Names : f \in recorded
    BY <2>1 DEF LogInv, Recorded, Names
  <2>3. \A s \in Steps : s \in Applied
    BY <2>2, StepsMember DEF Inv, RecordedIsApplied, FileOf
  <2>. QED BY <2>2, <2>3 DEF Inv, TypeOK, Applied
<1>. QED BY <1>1, LogInvHolds, InvHolds, PTL

-----------------------------------------------------------------------------
\* migrate() implements the migration log: each of its steps applies the next
\* statement, records a file that has taken effect, or changes neither.
THEOREM MigrateImplementsLog == Spec => ImplementsLog
<1>1. Init => Log!Init
  BY DEF Init, Log!Init, Applied
<1>2. Inv /\ [Next]_vars => [Log!Next]_<<Applied, recorded>>
  <2> SUFFICES ASSUME Inv, [Next]_vars PROVE Log!Next \/ UNCHANGED <<Applied, recorded>>
    OBVIOUS
  <2>1. ASSUME NEW r \in Runs, Execute(r) PROVE Log!Next
    <3>1. /\ pc[r] = "run" /\ file[r] \in Names /\ pos[r] \in 1 .. Length(file[r])
          /\ effects' = [effects EXCEPT ![Current(r)] = @ + 1] /\ UNCHANGED recorded
      <4>1. /\ pc[r] = "run" /\ pos[r] <= Length(file[r])
            /\ effects' = [effects EXCEPT ![Current(r)] = @ + 1] /\ UNCHANGED recorded
        BY <2>1 DEF Execute, Running
      <4>2. file[r] \in Names /\ pos[r] \in Nat \ {0}
        BY <4>1 DEF TypeOK, Inv, Progress
      <4>. QED BY <4>1, <4>2, LengthType
    <3>2. Current(r) \in Steps
      BY <3>1, StepsMember DEF Current
    <3>3. Applied' = Applied \cup {Current(r)}
      BY <3>1, <3>2 DEF Applied, TypeOK, Inv
    <3>4. \A t \in Steps : Precedes(t, Current(r)) => t \in Applied
      BY <3>1 DEF Inv, Progress, DoneBefore, Current
    <3>. QED BY <3>1, <3>2, <3>3, <3>4 DEF Log!Next, Log!Apply
  <2>2. ASSUME NEW r \in Runs, Record(r) PROVE Log!Next
    <3>1. /\ file[r] \in Names /\ recorded' = recorded \cup {file[r]} /\ UNCHANGED effects
      BY <2>2 DEF Record, Inv, Progress
    <3>2. UNCHANGED Applied
      BY <3>1 DEF Applied
    <3>3. RecordedIsApplied'
      BY NextInv DEF Inv
    <3>4. \A s \in Steps : FileOf(s) = file[r] => s \in Applied
      BY <3>1, <3>2, <3>3 DEF RecordedIsApplied
    <3>. QED BY <3>1, <3>2, <3>4 DEF Log!Next, Log!Log
  <2>3. ASSUME NEW r \in Runs,
               \/ Start(r) \/ SkipFile(r) \/ EnterFile(r) \/ Complete(r) \/ SkipExisting(r)
               \/ Abort(r) \/ RecordConflicts(r) \/ Crash(r)
        PROVE  UNCHANGED <<Applied, recorded>>
    BY <2>3 DEF Start, SkipFile, EnterFile, Complete, SkipExisting, Abort, RecordConflicts,
                Crash, Applied
  <2>4. CASE UNCHANGED vars
    BY <2>4 DEF vars, Applied
  <2>. QED BY <2>1, <2>2, <2>3, <2>4 DEF Next, Step
<1>. QED BY <1>1, <1>2, InvHolds, PTL DEF Spec, ImplementsLog, Log!Spec
=============================================================================
