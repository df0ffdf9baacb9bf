------------------------- MODULE SessionPersistence -------------------------
(***************************************************************************)
(* Where a chat session lives: its messages as events of AgentCore Memory, *)
(* its entry in the sidebar as a row of the DSQL table "sessions".  No      *)
(* transaction spans the two.  The chat agent (index.ts with               *)
(* SessionPersistenceHook) writes both while it answers, a fire-and-forget *)
(* task renames the row later, and the web application's                   *)
(* DELETE /api/sessions removes the row at once and the events in the      *)
(* background.  One action per awaited call; a failed call the code        *)
(* swallows is an outcome of the same action.                              *)
(***************************************************************************)
EXTENDS Integers, FiniteSets

CONSTANTS
  Sessions,      \* session ids of one user
  Invocations,   \* requests to POST /invocations
  Deletes,       \* requests to DELETE /api/sessions
  Window,        \* CONVERSATION_WINDOW_SIZE
  TitlePeriod,   \* a title is generated for user messages 1, 1 + TitlePeriod, ...
  PageSize,      \* events in one page of ListEvents
  MaxRounds      \* bound: rounds of tool use in one invocation

ASSUME ConstantsAssumption ==
  /\ Window \in Nat \ {0}
  /\ TitlePeriod \in Nat \ {0}
  /\ PageSize \in Nat \ {0}
  /\ MaxRounds \in Nat

VARIABLES
  row,      \* table sessions: "none", or where the row's title comes from
  events,   \* AgentCore Memory: the events of each session
  clock,    \* the next eventTimestamp, also the event's id
  titles,   \* running generateTitleAsync tasks
  \* One POST /invocations each: program counter, session, and what the handler
  \* and its hook hold.
  pc, sess, first, count, msg, rounds,
  \* One DELETE each: program counter, session, listed ids.
  dpc, dsess, ids,
  \* History variables, read by properties only.
  excuse,   \* why a session may be without a row
  gone,     \* sessions deleted while no invocation was in flight
  horizon,  \* clock when the delete started listing
  clean     \* no call of the delete's background task failed

agentVars   == <<pc, sess, first, count, msg, rounds>>
deleteVars  == <<dpc, dsess, ids>>
historyVars == <<excuse, gone, horizon, clean>>
vars == <<row, events, clock, titles, agentVars, deleteVars, historyVars>>

-----------------------------------------------------------------------------
(* Messages.  "text": payloadToMessage restores it; "other": only tool use,
   tool results, images or blanks, which it drops. *)

Roles == {"user", "assistant"}
Kinds == {"text", "other"}
Message == [role : Roles, kind : Kinds, tools : BOOLEAN]
Event == [id : Nat, role : Roles, kind : Kinds]
Rows == {"none", "extracted", "generated"}

UserMessage(k) == [role |-> "user", kind |-> k, tools |-> FALSE]
AssistantMessage(k, t) == [role |-> "assistant", kind |-> k, tools |-> t]

\* appendMessage: messageToPayload and CreateEvent, which may fail and then leave
\* nothing (nor does a message without content).
AppendMessage(s, m) ==
  \/ /\ events' = [events EXCEPT ![s] = @ \cup {[id |-> clock, role |-> m.role, kind |-> m.kind]}]
     /\ clock' = clock + 1
  \/ UNCHANGED <<events, clock>>

\* loadMessages: in order of time, what payloadToMessage restores, slice(-Window).
History(s) ==
  LET readable == {e \in events[s] : e.kind = "text"}
  IN  {e \in readable : Cardinality({f \in readable : f.id > e.id}) < Window}

UserMessages(h) == {e \in h : e.role = "user"}

InFlight(i) == pc[i] \notin {"idle", "done"}

\* The handlers of I are over and what they held is gone.
Return(I) ==
  /\ pc'     = [i \in Invocations |-> IF i \in I THEN "done" ELSE pc[i]]
  /\ first'  = [i \in Invocations |-> IF i \in I THEN TRUE ELSE first[i]]
  /\ count'  = [i \in Invocations |-> IF i \in I THEN 0 ELSE count[i]]
  /\ rounds' = [i \in Invocations |-> IF i \in I THEN 0 ELSE rounds[i]]
  /\ msg'    = [i \in Invocations |-> IF i \in I THEN UserMessage("other") ELSE msg[i]]
  /\ UNCHANGED sess

-----------------------------------------------------------------------------
Init ==
  /\ row = [s \in Sessions |-> "none"]
  /\ events = [s \in Sessions |-> {}]
  /\ clock = 0
  /\ titles = {}
  /\ pc = [i \in Invocations |-> "idle"]
  /\ sess \in [Invocations -> Sessions]
  /\ first = [i \in Invocations |-> TRUE]
  /\ count = [i \in Invocations |-> 0]
  /\ msg = [i \in Invocations |-> UserMessage("other")]
  /\ rounds = [i \in Invocations |-> 0]
  /\ dpc = [d \in Deletes |-> "idle"]
  /\ dsess \in [Deletes -> Sessions]
  /\ ids = [d \in Deletes |-> {}]
  /\ excuse = [s \in Sessions |-> {}]
  /\ gone = {}
  /\ horizon = [d \in Deletes |-> 0]
  /\ clean = [d \in Deletes |-> TRUE]

-----------------------------------------------------------------------------
(* The chat agent. *)

\* POST /invocations with a session id: a hook of its own, then loadHistory.
Receive(i) ==
  /\ pc[i] = "idle"
  /\ pc' = [pc EXCEPT ![i] = "load"]
  /\ gone' = gone \ {sess[i]}
  /\ UNCHANGED <<row, events, clock, titles, sess, first, count, msg, rounds,
                 deleteVars, excuse, horizon, clean>>

\* loadHistory returns; the agent adds the prompt as the first new message.
LoadHistory(i) ==
  LET users == Cardinality(UserMessages(History(sess[i])))
  IN  /\ pc[i] = "load"
      /\ count' = [count EXCEPT ![i] = users]
      /\ first' = [first EXCEPT ![i] = users = 0]
      /\ \E k \in {"text", "other"} : msg' = [msg EXCEPT ![i] = UserMessage(k)]
      /\ pc' = [pc EXCEPT ![i] = "append"]
      /\ UNCHANGED <<row, events, clock, titles, sess, rounds, deleteVars, historyVars>>

\* loadHistory or the MCP client throws: the request answers 500 before any message is added.
LoadHistoryFails(i) ==
  /\ pc[i] = "load"
  /\ Return({i})
  /\ UNCHANGED <<row, events, clock, titles, deleteVars, historyVars>>

\* Mutant: a prompt without text returns early, after the flag was cleared.
MessageAddedSkipsBlank(i) ==
  /\ pc[i] = "append"
  /\ AppendMessage(sess[i], msg[i])
  /\ first' = [first EXCEPT ![i] = FALSE]
  /\ pc' = [pc EXCEPT ![i] =
              IF msg[i].role = "user" /\ msg[i].kind = "text" /\ first[i] THEN "insert" ELSE "model"]
  /\ UNCHANGED <<row, titles, sess, count, msg, rounds, deleteVars, historyVars>>

\* onMessageAdded up to its first query: the message is stored, or storing it
\* failed and was logged; a user message is counted and the flag cleared before
\* the query it selects is sent.
MessageAdded(i) ==
  LET m == msg[i]
  IN  /\ pc[i] = "append"
      /\ AppendMessage(sess[i], m)
      /\ \/ /\ m.role = "user"
            /\ count' = [count EXCEPT ![i] = @ + 1]
            /\ first' = [first EXCEPT ![i] = FALSE]
            /\ pc' = [pc EXCEPT ![i] = IF first[i] THEN "insert" ELSE "touch"]
         \/ /\ m.role = "assistant"
            /\ pc' = [pc EXCEPT ![i] = IF m.tools THEN "tools" ELSE "images"]
            /\ UNCHANGED <<count, first>>
      /\ UNCHANGED <<row, titles, sess, msg, rounds, deleteVars, historyVars>>

\* Mutant: the task is filed under the session, not under its request.
StartTitleBySession(i) == titles' = titles \cup {sess[i]}

\* The end of onMessageAdded: every TitlePeriod-th user message that has text
\* starts a title task; nothing waits for it.  Only the prompt has text, so an
\* invocation starts one task at most.
StartTitle(i) ==
  titles' = IF (count[i] - 1) % TitlePeriod = 0 /\ msg[i].kind = "text"
            THEN titles \cup {i} ELSE titles

\* Mutant: DO UPDATE SET title = excluded.title as well.
InsertRowOverwritesTitle(i) ==
  /\ pc[i] = "insert"
  /\ row' = [row EXCEPT ![sess[i]] = "extracted"]
  /\ excuse' = [excuse EXCEPT ![sess[i]] = {}]
  /\ pc' = [pc EXCEPT ![i] = "model"]
  /\ StartTitle(i)
  /\ UNCHANGED <<events, clock, sess, first, count, msg, rounds, deleteVars,
                 gone, horizon, clean>>

\* INSERT ... ON CONFLICT ("sessionId") DO UPDATE SET "updatedAt": an existing
\* row keeps its title.
InsertRow(i) ==
  LET s == sess[i]
  IN  /\ pc[i] = "insert"
      /\ row' = [row EXCEPT ![s] = IF @ = "none" THEN "extracted" ELSE @]
      /\ excuse' = [excuse EXCEPT ![s] = {}]
      /\ pc' = [pc EXCEPT ![i] = "model"]
      /\ StartTitle(i)
      /\ UNCHANGED <<events, clock, sess, first, count, msg, rounds, deleteVars,
                     gone, horizon, clean>>

\* The INSERT fails: logged, and never tried again.
InsertRowFails(i) ==
  /\ pc[i] = "insert"
  /\ excuse' = [excuse EXCEPT ![sess[i]] = @ \cup {"insert lost"}]
  /\ pc' = [pc EXCEPT ![i] = "model"]
  /\ StartTitle(i)
  /\ UNCHANGED <<row, events, clock, sess, first, count, msg, rounds, deleteVars,
                 gone, horizon, clean>>

\* UPDATE ... SET "updatedAt" WHERE "sessionId": no row, no effect.
TouchRow(i) ==
  /\ pc[i] = "touch"
  /\ pc' = [pc EXCEPT ![i] = "model"]
  /\ StartTitle(i)
  /\ UNCHANGED <<row, events, clock, sess, first, count, msg, rounds, deleteVars,
                 historyVars>>

\* The model's message; it asks for tools at most MaxRounds times.
ModelReplies(i) ==
  /\ pc[i] = "model"
  /\ \E k \in Kinds, t \in BOOLEAN :
        /\ t => rounds[i] < MaxRounds
        /\ msg' = [msg EXCEPT ![i] = AssistantMessage(k, t)]
  /\ pc' = [pc EXCEPT ![i] = "append"]
  /\ UNCHANGED <<row, events, clock, titles, sess, first, count, rounds, deleteVars,
                 historyVars>>

\* The tools have run: their results are a message of role user.
ToolsReturn(i) ==
  /\ pc[i] = "tools"
  /\ msg' = [msg EXCEPT ![i] = UserMessage("other")]
  /\ rounds' = [rounds EXCEPT ![i] = @ + 1]
  /\ pc' = [pc EXCEPT ![i] = "append"]
  /\ UNCHANGED <<row, events, clock, titles, sess, first, count, deleteVars, historyVars>>

\* The stream is over: images of the code interpreter are stored as one message
\* (a failure is logged), then [DONE].
Finish(i) ==
  /\ pc[i] = "images"
  /\ \/ rounds[i] > 0 /\ AppendMessage(sess[i], AssistantMessage("other", FALSE))
     \/ UNCHANGED <<events, clock>>
  /\ Return({i})
  /\ UNCHANGED <<row, titles, deleteVars, historyVars>>

\* The stream throws: an error event ends the response; the prompt stays stored.
StreamFails(i) ==
  /\ pc[i] \in {"model", "tools"}
  /\ Return({i})
  /\ UNCHANGED <<row, events, clock, titles, deleteVars, historyVars>>

\* Mutant: the title is written with an upsert.
TitleEndsUpserting(i) ==
  /\ i \in titles
  /\ titles' = titles \ {i}
  /\ row' = [row EXCEPT ![sess[i]] = "generated"]
  /\ UNCHANGED <<events, clock, agentVars, deleteVars, historyVars>>

\* generateTitleAsync: UPDATE ... SET title WHERE "sessionId"; its own failure
\* is logged.
TitleEnds(i) ==
  /\ i \in titles
  /\ titles' = titles \ {i}
  /\ \/ row' = [row EXCEPT ![sess[i]] = IF @ = "none" THEN @ ELSE "generated"]
     \/ UNCHANGED row
  /\ UNCHANGED <<events, clock, agentVars, deleteVars, historyVars>>

\* The runtime container of a session stops: its requests and title tasks with it.
Crash(s) ==
  /\ \E i \in Invocations : sess[i] = s /\ InFlight(i)
  /\ Return({i \in Invocations : sess[i] = s /\ InFlight(i)})
  /\ titles' = {i \in titles : sess[i] # s}
  /\ excuse' = [excuse EXCEPT ![s] =
                  IF \E i \in Invocations : sess[i] = s /\ pc[i] = "insert"
                  THEN @ \cup {"insert lost"} ELSE @]
  /\ UNCHANGED <<row, events, clock, deleteVars, gone, horizon, clean>>

-----------------------------------------------------------------------------
(* DELETE /api/sessions of the web application. *)

\* The row is deleted, or that failed and was logged; either way the answer is
\* success and the background task starts.
DeleteRow(d) ==
  LET s == dsess[d]
  IN  /\ dpc[d] = "idle"
      /\ \/ /\ row' = [row EXCEPT ![s] = "none"]
            /\ excuse' = [excuse EXCEPT ![s] = @ \cup {"deleted"}]
            /\ gone' = IF \E i \in Invocations : sess[i] = s /\ InFlight(i)
                       THEN gone ELSE gone \cup {s}
         \/ UNCHANGED <<row, excuse, gone>>
      /\ dpc' = [dpc EXCEPT ![d] = "list"]
      /\ horizon' = [horizon EXCEPT ![d] = clock]
      /\ UNCHANGED <<events, clock, titles, agentVars, dsess, ids, clean>>

Unlisted(d) == {e \in events[dsess[d]] : e.id \notin ids[d]}

\* One page of ListEvents, in whatever order the service keeps.
ListPage(d) ==
  /\ dpc[d] = "list"
  /\ \E page \in SUBSET Unlisted(d) :
        /\ page # {} /\ Cardinality(page) <= PageSize
        /\ ids' = [ids EXCEPT ![d] = @ \cup {e.id : e \in page}]
  /\ UNCHANGED <<row, events, clock, titles, agentVars, dpc, dsess, historyVars>>

\* Mutant: the pages after the first are not asked for.
ListDoneAfterAnyPage(d) ==
  /\ dpc[d] = "list"
  /\ ids[d] # {}
  /\ dpc' = [dpc EXCEPT ![d] = "erase"]
  /\ UNCHANGED <<row, events, clock, titles, agentVars, dsess, ids, historyVars>>

\* The page without a next token: every event the listing began with was seen.
\* All deletions are then sent at once.
ListDone(d) ==
  /\ dpc[d] = "list"
  /\ \A e \in Unlisted(d) : e.id >= horizon[d]
  /\ dpc' = [dpc EXCEPT ![d] = "erase"]
  /\ UNCHANGED <<row, events, clock, titles, agentVars, dsess, ids, historyVars>>

\* One DeleteEvent settles, fulfilled or rejected.
EraseEvent(d) ==
  /\ dpc[d] = "erase"
  /\ \E id \in ids[d] :
        /\ ids' = [ids EXCEPT ![d] = @ \ {id}]
        /\ \/ /\ events' = [events EXCEPT ![dsess[d]] = {e \in @ : e.id # id}]
              /\ UNCHANGED clean
           \/ /\ clean' = [clean EXCEPT ![d] = FALSE]
              /\ UNCHANGED events
  /\ UNCHANGED <<row, clock, titles, agentVars, dpc, dsess, excuse, gone, horizon>>

EraseDone(d) ==
  /\ dpc[d] = "erase"
  /\ ids[d] = {}
  /\ dpc' = [dpc EXCEPT ![d] = "done"]
  /\ UNCHANGED <<row, events, clock, titles, agentVars, dsess, ids, historyVars>>

\* The listing throws, or the web application's process is frozen and reclaimed
\* after it has answered: nothing resumes the task.
BackgroundLost(d) ==
  /\ dpc[d] \in {"list", "erase"}
  /\ dpc' = [dpc EXCEPT ![d] = "done"]
  /\ ids' = [ids EXCEPT ![d] = {}]
  /\ clean' = [clean EXCEPT ![d] = FALSE]
  /\ UNCHANGED <<row, events, clock, titles, agentVars, dsess, excuse, gone, horizon>>

-----------------------------------------------------------------------------
\* What the agent does when nothing fails.
AgentStep(i) ==
  \/ LoadHistory(i) \/ MessageAdded(i) \/ InsertRow(i) \/ TouchRow(i)
  \/ ModelReplies(i) \/ ToolsReturn(i) \/ Finish(i)

AgentFailure(i) == LoadHistoryFails(i) \/ InsertRowFails(i) \/ StreamFails(i)

DeleteStep(d) ==
  DeleteRow(d) \/ ListPage(d) \/ ListDone(d) \/ EraseEvent(d) \/ EraseDone(d)

Next ==
  \/ \E i \in Invocations : Receive(i) \/ AgentStep(i) \/ AgentFailure(i)
  \/ \E i \in Invocations : TitleEnds(i)
  \/ \E s \in Sessions : Crash(s)
  \/ \E d \in Deletes : DeleteStep(d) \/ BackgroundLost(d)

Spec == Init /\ [][Next]_vars

\* A request that has been received runs on: every call it awaits settles, by
\* an answer or by the SDK's timeout.  Users are not fair, and neither are
\* title tasks nor background deletions, which nothing waits for.
FairSpec == Spec /\ \A i \in Invocations : WF_vars(AgentStep(i) \/ AgentFailure(i))

-----------------------------------------------------------------------------
StoreTypeOK ==
  /\ row \in [Sessions -> Rows]
  /\ events \in [Sessions -> SUBSET Event]
  /\ \A s \in Sessions : IsFiniteSet(events[s])
  /\ clock \in Nat

PCs == {"idle", "load", "append", "insert", "touch", "model", "tools", "images", "done"}

AgentTypeOK ==
  /\ titles \subseteq Invocations
  /\ pc \in [Invocations -> PCs]
  /\ sess \in [Invocations -> Sessions]
  /\ first \in [Invocations -> BOOLEAN]
  /\ count \in [Invocations -> Nat]
  /\ msg \in [Invocations -> Message]
  /\ rounds \in [Invocations -> Nat]

DeleteTypeOK ==
  /\ dpc \in [Deletes -> {"idle", "list", "erase", "done"}]
  /\ dsess \in [Deletes -> Sessions]
  /\ ids \in [Deletes -> SUBSET Nat]

HistoryTypeOK ==
  /\ excuse \in [Sessions -> SUBSET {"insert lost", "deleted"}]
  /\ gone \subseteq Sessions
  /\ horizon \in [Deletes -> Nat]
  /\ clean \in [Deletes -> BOOLEAN]

TypeOK == StoreTypeOK /\ AgentTypeOK /\ DeleteTypeOK /\ HistoryTypeOK

\* The row of s is there, or is still to come from an invocation that has
\* counted its first user message, or its absence has a known cause.
Accounted(s) ==
  \/ row[s] # "none"
  \/ excuse[s] # {}
  \/ \E i \in Invocations : sess[i] = s /\ pc[i] = "insert"

\* A session with a user message in Memory is in the sidebar's table, is about
\* to be, or its INSERT was lost or its row deleted: however invocations that
\* each decide from their own snapshot of the history interleave, none of them
\* leaves the INSERT to another one that does not do it (onMessageAdded).
StoredSessionIsListed ==
  \A s \in Sessions : UserMessages(events[s]) # {} => Accounted(s)

\* A session deleted while none of its requests was running stays out of the
\* table until a new request names it, whatever title task is still running
\* (the UPDATEs of the hook never create a row).
DeletedStaysDeleted == \A s \in gone : row[s] = "none"

\* A delete whose calls all succeeded leaves no event that was stored before it
\* began to list, although requests go on storing events meanwhile
\* (DELETE /api/sessions).
DeletePurges ==
  \A d \in Deletes :
    dpc[d] = "done" /\ clean[d] =>
      \A e \in events[dsess[d]] : e.id >= horizon[d]

\* A generated title is never replaced by the text of a message: a second
\* "first" message (concurrent requests, a window without user messages) meets
\* the existing row and only touches it.
TitleNotDowngraded ==
  [][\A s \in Sessions : row[s] = "generated" => row'[s] # "extracted"]_vars

\* "5n+1": a title task starts at user messages 1, 1 + TitlePeriod, 1 + 2 *
\* TitlePeriod, ... of the conversation, the comment above the code that starts
\* it says (session-persistence-hook.ts:138).
TitleOnSchedule ==
  [][\A i \in titles' \ titles :
       (Cardinality({e \in UserMessages(events[sess[i]]) : e.kind = "text"}) - 1)
         % TitlePeriod = 0]_vars

\* Whatever fails, a session with a stored user message does not stay in the
\* state "about to be listed": its row appears or the reason it does not is one
\* of the two known ones.
EventuallySettled ==
  \A s \in Sessions :
    UserMessages(events[s]) # {} ~>
      (row[s] # "none" \/ excuse[s] # {} \/ UserMessages(events[s]) = {})
=============================================================================
