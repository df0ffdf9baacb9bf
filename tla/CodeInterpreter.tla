--------------------------- MODULE CodeInterpreter --------------------------
(***************************************************************************)
(* The code interpreter tool of one conversation, as the process of one    *)
(* container runs it: code-interpreter-tool.ts keeps the conversation's    *)
(* interpreter session in a map, creates it on demand, and forgets it when *)
(* a timer says that the service has ended it.  Several requests of the    *)
(* conversation may call the tool at the same time.                        *)
(***************************************************************************)
CONSTANTS
  Calls,   \* calls of the tool's callback; a session is named by the call that starts it
  None

ASSUME NoneAssumption == None \notin Calls

VARIABLES
  mapped,   \* sessionMap.get(conversationSessionId)
  timer,    \* the setTimeout of each session
  pc,       \* of each call
  sessionId,\* of each call
  image,    \* the chart that each call has put into the image buffer: the call that saved it
  service,  \* the interpreter sessions
  file,     \* the chart in each session's working directory: the last call that saved it
  overlap   \* history variable: two calls have been running at a time

process == <<mapped, timer, pc, sessionId, image>>
vars == <<process, service, file, overlap>>

Init ==
  /\ mapped = None
  /\ timer = [s \in Calls |-> "none"]
  /\ pc = [c \in Calls |-> "idle"]
  /\ sessionId = [c \in Calls |-> None]
  /\ image = [c \in Calls |-> None]
  /\ service = [s \in Calls |-> "none"]
  /\ file = [s \in Calls |-> None]
  /\ overlap = FALSE

Move(c, place) == pc' = [pc EXCEPT ![c] = place]
Running(c) == pc[c] \in {"start", "started", "execute", "read"}
Live(c) == sessionId[c] # None /\ service[sessionId[c]] = "live"

-----------------------------------------------------------------------------
(* getOrCreateSession *)

\* The callback finds the conversation's session, or asks for a new one.
Callback(c) ==
  /\ pc[c] = "idle"
  /\ \/ mapped # None /\ sessionId' = [sessionId EXCEPT ![c] = mapped] /\ Move(c, "execute")
     \/ mapped = None /\ Move(c, "start") /\ UNCHANGED sessionId
  /\ overlap' = (overlap \/ \E d \in Calls : Running(d))
  /\ UNCHANGED <<mapped, timer, image, service, file>>

\* The service starts the session; its timeout runs from here.
Started(c) ==
  /\ pc[c] = "start"
  /\ Move(c, "started")
  /\ service' = [service EXCEPT ![c] = "live"]
  /\ UNCHANGED <<mapped, timer, sessionId, image, file, overlap>>

\* Mutant: the timer is set only for a conversation that had no entry.
StartEndsUntimed(c) ==
  /\ pc[c] = "started"
  /\ Move(c, "execute")
  /\ sessionId' = [sessionId EXCEPT ![c] = c]
  /\ mapped' = c
  /\ timer' = [timer EXCEPT ![c] = IF mapped = None THEN "set" ELSE @]
  /\ UNCHANGED <<image, service, file, overlap>>

\* Mutant: the id of a new session is not returned.
StartEndsUnbound(c) ==
  /\ pc[c] = "started"
  /\ Move(c, "execute")
  /\ mapped' = c
  /\ timer' = [timer EXCEPT ![c] = "set"]
  /\ UNCHANGED <<sessionId, image, service, file, overlap>>

\* The answer arrives: the entry is written over and its timer is set.
StartEnds(c) ==
  /\ pc[c] = "started"
  /\ Move(c, "execute")
  /\ sessionId' = [sessionId EXCEPT ![c] = c]
  /\ mapped' = c
  /\ timer' = [timer EXCEPT ![c] = "set"]
  /\ UNCHANGED <<image, service, file, overlap>>

\* Mutant: the entry is written before the session is known to exist.
StartFailsMapped(c) ==
  /\ pc[c] \in {"start", "started"}
  /\ Move(c, "done")
  /\ mapped' = c
  /\ UNCHANGED <<timer, sessionId, image, service, file, overlap>>

\* The request fails, started or not; the callback answers with a text.
StartFails(c) ==
  /\ pc[c] \in {"start", "started"}
  /\ Move(c, "done")
  /\ UNCHANGED <<mapped, timer, sessionId, image, service, file, overlap>>

-----------------------------------------------------------------------------
(* The rest of the callback *)

\* Mutant: the file is looked for whether or not the code has failed.
ExecuteReadingAlways(c) ==
  /\ pc[c] = "execute" /\ Live(c)
  /\ Move(c, "read")
  /\ file' \in {file, [file EXCEPT ![sessionId[c]] = c]}
  /\ UNCHANGED <<mapped, timer, sessionId, image, service, overlap>>

\* The code runs: it saves a chart that the answer does not hold (savefig), or
\* returns one, or has none, or fails, perhaps after it has saved one.  (Code that
\* mentions savefig and does not fail is taken to have saved a chart.)
Execute(c) ==
  /\ pc[c] = "execute" /\ Live(c)
  /\ LET saved == [file EXCEPT ![sessionId[c]] = c]
     IN  \/ Move(c, "read") /\ file' = saved /\ UNCHANGED image
         \/ /\ Move(c, "done") /\ file' \in {file, saved}
            /\ image' \in {image, [image EXCEPT ![c] = c]}
  /\ UNCHANGED <<mapped, timer, sessionId, service, overlap>>

\* InvokeCodeInterpreter throws, as it does for a session that has ended, or its
\* stream does: the tool fails and the entry stays.
ExecuteFails(c) ==
  /\ pc[c] = "execute"
  /\ Move(c, "failed")
  /\ UNCHANGED file \/ (Live(c) /\ file' = [file EXCEPT ![sessionId[c]] = c])
  /\ UNCHANGED <<mapped, timer, sessionId, image, service, overlap>>

\* readFiles in the session that ran the code.
ReadFiles(c) ==
  /\ pc[c] = "read" /\ Live(c)
  /\ Move(c, "done")
  /\ image' = [image EXCEPT ![c] = file[sessionId[c]]]
  /\ UNCHANGED <<mapped, timer, sessionId, service, file, overlap>>

\* readFiles throws: a warning, and the text is the answer.
ReadFilesFails(c) ==
  /\ pc[c] = "read"
  /\ Move(c, "done")
  /\ UNCHANGED <<mapped, timer, sessionId, image, service, file, overlap>>

-----------------------------------------------------------------------------
\* The service ends a session, at its timeout or before.
SessionEnds(s) ==
  /\ service[s] = "live"
  /\ service' = [service EXCEPT ![s] = "ended"]
  /\ UNCHANGED <<process, file, overlap>>

\* Mutant: the timer fires a little early.
TimerFiresEarly(s) ==
  /\ timer[s] = "set"
  /\ timer' = [timer EXCEPT ![s] = "fired"]
  /\ mapped' = None
  /\ UNCHANGED <<pc, sessionId, image, service, file, overlap>>

\* The timer was set after the service's timeout began to run, so the session
\* has ended.  It deletes the entry of the conversation, whosever it is.
TimerFires(s) ==
  /\ timer[s] = "set" /\ service[s] = "ended"
  /\ timer' = [timer EXCEPT ![s] = "fired"]
  /\ mapped' = None
  /\ UNCHANGED <<pc, sessionId, image, service, file, overlap>>

\* The container stops with its map, its timers and its calls.
Crash ==
  /\ mapped' = None
  /\ timer' = [s \in Calls |-> "none"]
  /\ pc' = [c \in Calls |-> IF Running(c) THEN "lost" ELSE pc[c]]
  /\ UNCHANGED <<sessionId, image, service, file, overlap>>

CallStep(c) ==
  \/ Callback(c) \/ Started(c) \/ StartEnds(c) \/ StartFails(c)
  \/ Execute(c) \/ ExecuteFails(c) \/ ReadFiles(c) \/ ReadFilesFails(c)

Next == (\E c \in Calls : CallStep(c) \/ SessionEnds(c) \/ TimerFires(c)) \/ Crash

Spec == Init /\ [][Next]_vars

\* The service ends sessions, and the event loop runs timers.
FairSpec == Spec /\ \A s \in Calls : WF_vars(SessionEnds(s)) /\ WF_vars(TimerFires(s))

-----------------------------------------------------------------------------
TypeOK ==
  /\ mapped \in Calls \cup {None}
  /\ timer \in [Calls -> {"none", "set", "fired"}]
  /\ pc \in [Calls -> {"idle", "start", "started", "execute", "read", "done", "failed", "lost"}]
  /\ sessionId \in [Calls -> Calls \cup {None}]
  /\ image \in [Calls -> Calls \cup {None}]
  /\ service \in [Calls -> {"none", "live", "ended"}]
  /\ file \in [Calls -> Calls \cup {None}]
  /\ overlap \in BOOLEAN
  /\ \A c \in Calls : pc[c] \in {"execute", "read"} => sessionId[c] # None

\* No entry outlives its session for good: however calls overlap, the session in
\* the map has a timer of its own that has not fired yet.
EntryIsTimed == mapped # None => timer[mapped] = "set"

\* A dead session does not answer the conversation's calls for ever: its entry
\* goes, and the next call starts a new one.
EntryGoes == \A s \in Calls : mapped = s ~> mapped # s

\* "Reuses the interpreter session tied to the conversation"
\* (code-interpreter-tool.ts:51): a session that the process has started and
\* that is alive is the one that calls find, so there is one at most.
SessionIsReused ==
  \A s \in Calls : timer[s] # "none" /\ service[s] = "live" => mapped = s

\* It holds as long as calls come one after the other, through timeouts, failed
\* starts and crashes.
SessionIsReusedInTurn == ~overlap => SessionIsReused

\* A chart in the answer was drawn by the code of that very call, not left in
\* the working directory by an earlier one: calls one after the other.
ChartsAreFresh == ~overlap => \A c \in Calls : image[c] \in {c, None}
=============================================================================
