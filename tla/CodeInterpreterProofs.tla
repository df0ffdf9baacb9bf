------------------------ MODULE CodeInterpreterProofs -----------------------
(***************************************************************************)
(* Theorems about CodeInterpreter, for every number of calls.              *)
(***************************************************************************)
EXTENDS CodeInterpreter, TLAPS

-----------------------------------------------------------------------------
(* Types *)

LEMMA NextTypeOK == TypeOK /\ [Next]_vars => TypeOK'
<1> SUFFICES ASSUME TypeOK, [Next]_vars PROVE TypeOK'
  OBVIOUS
<1> USE NoneAssumption DEF TypeOK, Move
<1>1. ASSUME NEW c \in Calls, Callback(c) PROVE TypeOK'
  BY <1>1 DEF Callback
<1>2. ASSUME NEW c \in Calls, Started(c) PROVE TypeOK'
  BY <1>2 DEF Started
<1>3. ASSUME NEW c \in Calls, StartEnds(c) PROVE TypeOK'
  BY <1>3 DEF StartEnds
<1>4. ASSUME NEW c \in Calls, StartFails(c) PROVE TypeOK'
  BY <1>4 DEF StartFails
<1>5. ASSUME NEW c \in Calls, Execute(c) PROVE TypeOK'
  BY <1>5 DEF Execute, Live
<1>6. ASSUME NEW c \in Calls, ExecuteFails(c) PROVE TypeOK'
  BY <1>6 DEF ExecuteFails, Live
<1>7. ASSUME NEW c \in Calls, ReadFiles(c) PROVE TypeOK'
  BY <1>7 DEF ReadFiles, Live
<1>8. ASSUME NEW c \in Calls, ReadFilesFails(c) PROVE TypeOK'
  BY <1>8 DEF ReadFilesFails
<1>9. ASSUME NEW s \in Calls, SessionEnds(s) PROVE TypeOK'
  BY <1>9 DEF SessionEnds, process
<1>10. ASSUME NEW s \in Calls, TimerFires(s) PROVE TypeOK'
  BY <1>10 DEF TimerFires
<1>11. CASE Crash
  BY <1>11 DEF Crash, Running
<1>12. CASE UNCHANGED vars
  BY <1>12 DEF vars, process
<1>. QED
  BY <1>1, <1>2, <1>3, <1>4, <1>5, <1>6, <1>7, <1>8, <1>9, <1>10, <1>11, <1>12
  DEF Next, CallStep

\* Every reachable state is well typed, and a call that talks to the service
\* has a session (createCodeInterpreterTool).
THEOREM InterpreterTypeCorrect == Spec => []TypeOK
<1>1. Init => TypeOK
  BY ZenonT(40) DEF Init, TypeOK
<1>. QED BY <1>1, NextTypeOK, PTL DEF Spec

-----------------------------------------------------------------------------
(* The map and its timers, however calls overlap.  Besides EntryIsTimed, the   *)
(* invariant says how far the timer of a session may be ahead of the session.  *)

TimersFollowSessions ==
  \A s \in Calls :
    /\ pc[s] \in {"idle", "start", "started"} => timer[s] = "none"
    /\ pc[s] = "started" => service[s] # "none"
    /\ timer[s] = "set" => service[s] # "none"
    /\ timer[s] = "fired" => service[s] = "ended"

TimedInv == TypeOK /\ EntryIsTimed /\ TimersFollowSessions

LEMMA NextTimedInv == TimedInv /\ [Next]_vars => TimedInv'
<1> SUFFICES ASSUME TimedInv, [Next]_vars PROVE (EntryIsTimed /\ TimersFollowSessions)'
  BY NextTypeOK DEF TimedInv
<1> USE NoneAssumption DEF TimedInv, TypeOK, Move, EntryIsTimed, TimersFollowSessions
<1>1. ASSUME NEW c \in Calls, Callback(c) PROVE (EntryIsTimed /\ TimersFollowSessions)'
  BY <1>1 DEF Callback
<1>2. ASSUME NEW c \in Calls, Started(c) PROVE (EntryIsTimed /\ TimersFollowSessions)'
  BY <1>2 DEF Started
<1>3. ASSUME NEW c \in Calls, StartEnds(c) PROVE (EntryIsTimed /\ TimersFollowSessions)'
  BY <1>3 DEF StartEnds
<1>4. ASSUME NEW c \in Calls, StartFails(c) PROVE (EntryIsTimed /\ TimersFollowSessions)'
  BY <1>4 DEF StartFails
<1>5. ASSUME NEW c \in Calls, Execute(c) PROVE (EntryIsTimed /\ TimersFollowSessions)'
  BY <1>5 DEF Execute
<1>6. ASSUME NEW c \in Calls, ExecuteFails(c) PROVE (EntryIsTimed /\ TimersFollowSessions)'
  BY <1>6 DEF ExecuteFails
<1>7. ASSUME NEW c \in Calls, ReadFiles(c) PROVE (EntryIsTimed /\ TimersFollowSessions)'
  BY <1>7 DEF ReadFiles
<1>8. ASSUME NEW c \in Calls, ReadFilesFails(c) PROVE (EntryIsTimed /\ TimersFollowSessions)'
  BY <1>8 DEF ReadFilesFails
<1>9. ASSUME NEW s \in Calls, SessionEnds(s) PROVE (EntryIsTimed /\ TimersFollowSessions)'
  BY <1>9 DEF SessionEnds, process
<1>10. ASSUME NEW s \in Calls, TimerFires(s) PROVE (EntryIsTimed /\ TimersFollowSessions)'
  BY <1>10 DEF TimerFires
<1>11. CASE Crash
  BY <1>11 DEF Crash, Running
<1>12. CASE UNCHANGED vars
  BY <1>12 DEF vars, process
<1>. QED
  BY <1>1, <1>2, <1>3, <1>4, <1>5, <1>6, <1>7, <1>8, <1>9, <1>10, <1>11, <1>12
  DEF Next, CallStep

LEMMA AlwaysTimedInv == Spec => []TimedInv
<1>1. Init => TimedInv
  BY ZenonT(40) DEF Init, TimedInv, TypeOK, EntryIsTimed, TimersFollowSessions
<1>. QED BY <1>1, NextTimedInv, PTL DEF Spec

\* The session in the map has a pending timer of its own, however calls overlap
\* and whatever fails: no entry can stay for good (getOrCreateSession).
THEOREM EntriesAreTimed == Spec => []EntryIsTimed
<1>1. TimedInv => EntryIsTimed
  BY DEF TimedInv
<1>. QED BY <1>1, AlwaysTimedInv, PTL

-----------------------------------------------------------------------------
(* Calls one after the other.  A timer that is still set is that of the entry  *)
(* in the map, so that a call that finds no entry is alone with no session     *)
(* alive; a call that reads a chart is alone with the file it has just saved.  *)

InTurn ==
  ~overlap =>
    /\ \A c, d \in Calls : Running(c) /\ Running(d) => c = d
    /\ \A c \in Calls : pc[c] \in {"start", "started"} => mapped = None
    /\ \A s \in Calls : timer[s] = "set" => mapped = s

ChartInv ==
  ~overlap => \A c \in Calls : /\ image[c] \in {c, None}
                               /\ pc[c] = "read" => file[sessionId[c]] = c

LEMMA NextInTurn == TimedInv /\ InTurn /\ [Next]_vars => InTurn'
<1> SUFFICES ASSUME TimedInv, InTurn, [Next]_vars PROVE InTurn'
  OBVIOUS
<1> USE NoneAssumption DEF TimedInv, TypeOK, Move, InTurn, Running
<1>1. ASSUME NEW c \in Calls, Callback(c) PROVE InTurn'
  <2> SUFFICES ASSUME ~overlap' PROVE InTurn'
    OBVIOUS
  <2> USE <1>1 DEF Callback
  <2>1. ~overlap /\ \A d \in Calls : ~Running(d)
    OBVIOUS
  <2>2. \A d \in Calls : d # c => ~Running(d)'
    BY <2>1
  <2>3. \A d \in Calls : (pc[d] \in {"start", "started"})' => mapped' = None
    BY <2>1
  <2>. QED BY <2>1, <2>2, <2>3
<1>2. ASSUME NEW c \in Calls, Started(c) PROVE InTurn'
  BY <1>2 DEF Started
<1>3. ASSUME NEW c \in Calls, StartEnds(c) PROVE InTurn'
  BY <1>3 DEF StartEnds
<1>4. ASSUME NEW c \in Calls, StartFails(c) PROVE InTurn'
  BY <1>4 DEF StartFails
<1>5. ASSUME NEW c \in Calls, Execute(c) PROVE InTurn'
  BY <1>5 DEF Execute
<1>6. ASSUME NEW c \in Calls, ExecuteFails(c) PROVE InTurn'
  BY <1>6 DEF ExecuteFails
<1>7. ASSUME NEW c \in Calls, ReadFiles(c) PROVE InTurn'
  BY <1>7 DEF ReadFiles
<1>8. ASSUME NEW c \in Calls, ReadFilesFails(c) PROVE InTurn'
  BY <1>8 DEF ReadFilesFails
<1>9. ASSUME NEW s \in Calls, SessionEnds(s) PROVE InTurn'
  BY <1>9 DEF SessionEnds, process
<1>10. ASSUME NEW s \in Calls, TimerFires(s) PROVE InTurn'
  BY <1>10 DEF TimerFires
<1>11. CASE Crash
  BY <1>11 DEF Crash
<1>12. CASE UNCHANGED vars
  BY <1>12 DEF vars, process
<1>. QED
  BY <1>1, <1>2, <1>3, <1>4, <1>5, <1>6, <1>7, <1>8, <1>9, <1>10, <1>11, <1>12
  DEF Next, CallStep

LEMMA NextChartInv == TypeOK /\ InTurn /\ ChartInv /\ [Next]_vars => ChartInv'
<1> SUFFICES ASSUME TypeOK, InTurn, ChartInv, [Next]_vars PROVE ChartInv'
  OBVIOUS
<1> USE NoneAssumption DEF TypeOK, Move, ChartInv
<1>1. ASSUME NEW c \in Calls, Callback(c) PROVE ChartInv'
  BY <1>1 DEF Callback
<1>2. ASSUME NEW c \in Calls, Started(c) PROVE ChartInv'
  BY <1>2 DEF Started
<1>3. ASSUME NEW c \in Calls, StartEnds(c) PROVE ChartInv'
  BY <1>3 DEF StartEnds
<1>4. ASSUME NEW c \in Calls, StartFails(c) PROVE ChartInv'
  BY <1>4 DEF StartFails
<1>5. ASSUME NEW c \in Calls, Execute(c) PROVE ChartInv'
  BY <1>5 DEF Execute, InTurn, Running, Live
<1>6. ASSUME NEW c \in Calls, ExecuteFails(c) PROVE ChartInv'
  BY <1>6 DEF ExecuteFails, InTurn, Running, Live
<1>7. ASSUME NEW c \in Calls, ReadFiles(c) PROVE ChartInv'
  BY <1>7 DEF ReadFiles, Live
<1>8. ASSUME NEW c \in Calls, ReadFilesFails(c) PROVE ChartInv'
  BY <1>8 DEF ReadFilesFails
<1>9. ASSUME NEW s \in Calls, SessionEnds(s) PROVE ChartInv'
  BY <1>9 DEF SessionEnds, process
<1>10. ASSUME NEW s \in Calls, TimerFires(s) PROVE ChartInv'
  BY <1>10 DEF TimerFires
<1>11. CASE Crash
  BY <1>11 DEF Crash, Running
<1>12. CASE UNCHANGED vars
  BY <1>12 DEF vars, process
<1>. QED
  BY <1>1, <1>2, <1>3, <1>4, <1>5, <1>6, <1>7, <1>8, <1>9, <1>10, <1>11, <1>12
  DEF Next, CallStep

LEMMA AlwaysInTurn == Spec => [](TimedInv /\ InTurn /\ ChartInv)
<1>1. Init => InTurn /\ ChartInv
  BY DEF Init, InTurn, ChartInv, Running
<1>2. TimedInv => TypeOK
  BY DEF TimedInv
<1>. QED BY <1>1, <1>2, AlwaysTimedInv, NextInTurn, NextChartInv, PTL DEF Spec

\* As long as calls come one after the other, a live session that the process
\* has started is the one that calls find, through timeouts, failed starts and
\* crashes (getOrCreateSession).
THEOREM SessionsAreReusedInTurn == Spec => []SessionIsReusedInTurn
<1>1. TimedInv /\ InTurn => SessionIsReusedInTurn
  BY DEF TimedInv, TypeOK, TimersFollowSessions, InTurn, SessionIsReusedInTurn, SessionIsReused
<1>. QED BY <1>1, AlwaysInTurn, PTL

\* As long as calls come one after the other, the chart that a call delivers was
\* drawn by its own code (the readFiles fallback of createCodeInterpreterTool).
THEOREM ChartsStayFresh == Spec => []ChartsAreFresh
<1>1. ChartInv => ChartsAreFresh
  BY DEF ChartInv, ChartsAreFresh
<1>. QED BY <1>1, AlwaysInTurn, PTL
=============================================================================
