---------------------- MODULE SessionPersistenceProofs ----------------------
(***************************************************************************)
(* Theorems about SessionPersistence, for every set of sessions, requests  *)
(* and deletes and every window, title period, page size and tool bound.   *)
(***************************************************************************)
EXTENDS SessionPersistence, FiniteSetTheorems, TLAPS

-----------------------------------------------------------------------------
(* Helpers. *)

\* Either way appendMessage ends, Memory stays a finite set of events per
\* session and the clock a natural number.
LEMMA AppendMessageType ==
  ASSUME StoreTypeOK, NEW s \in Sessions, NEW m \in Message, AppendMessage(s, m)
  PROVE  /\ events' \in [Sessions -> SUBSET Event]
         /\ \A t \in Sessions : IsFiniteSet(events'[t])
         /\ clock' \in Nat
<1> DEFINE e == [id |-> clock, role |-> m.role, kind |-> m.kind]
<1>1. e \in Event
  BY DEF StoreTypeOK, Message, Event
<1>2. CASE UNCHANGED <<events, clock>>
  BY <1>2 DEF StoreTypeOK
<1>3. CASE events' = [events EXCEPT ![s] = @ \cup {e}] /\ clock' = clock + 1
  <2>1. events \in [Sessions -> SUBSET Event] /\ clock \in Nat
    BY DEF StoreTypeOK
  <2>2. events[s] \cup {e} \in SUBSET Event
    BY <1>1, <2>1
  <2>3. events' \in [Sessions -> SUBSET Event] /\ clock' \in Nat
    BY <1>3, <2>1, <2>2
  <2>4. ASSUME NEW t \in Sessions PROVE IsFiniteSet(events'[t])
    <3>1. events'[t] = events[t] \/ events'[t] = events[t] \cup {e}
      BY <1>3, <2>1
    <3>2. IsFiniteSet(events[t])
      BY DEF StoreTypeOK
    <3>. QED BY <3>1, <3>2, FS_AddElement
  <2>. QED BY <2>3, <2>4
<1>. QED BY <1>2, <1>3 DEF AppendMessage

\* Both constructors build messages.
LEMMA MessageType ==
  ASSUME NEW k \in Kinds, NEW t \in BOOLEAN
  PROVE  UserMessage(k) \in Message /\ AssistantMessage(k, t) \in Message
  BY DEF UserMessage, AssistantMessage, Message, Roles

\* The number of user messages a hook loads is a natural number.
LEMMA LoadedCountType ==
  ASSUME StoreTypeOK, NEW s \in Sessions
  PROVE  Cardinality(UserMessages(History(s))) \in Nat
<1>1. UserMessages(History(s)) \subseteq events[s]
  BY DEF UserMessages, History
<1>2. IsFiniteSet(events[s])
  BY DEF StoreTypeOK
<1>. QED BY <1>1, <1>2, FS_Subset, FS_CardinalityType

\* A handler that returns leaves well-typed locals.
LEMMA ReturnType ==
  ASSUME AgentTypeOK, NEW I \in SUBSET Invocations, Return(I), titles' \subseteq titles
  PROVE  AgentTypeOK'
<1>1. UserMessage("other") \in Message
  BY MessageType DEF Kinds
<1>. QED BY <1>1 DEF Return, AgentTypeOK, PCs

\* onMessageAdded's last step starts titles for invocations only.
LEMMA StartTitleType ==
  ASSUME AgentTypeOK, NEW i \in Invocations, StartTitle(i)
  PROVE  titles' \subseteq Invocations
  BY DEF StartTitle, AgentTypeOK

-----------------------------------------------------------------------------
(* Type correctness. *)

LEMMA InitTypeOK == Init => TypeOK
<1> SUFFICES ASSUME Init PROVE TypeOK
  OBVIOUS
<1>1. StoreTypeOK
  BY FS_EmptySet DEF Init, StoreTypeOK, Rows
<1>2. AgentTypeOK
  <2>1. UserMessage("other") \in Message
    BY MessageType DEF Kinds
  <2>. QED BY <2>1 DEF Init, AgentTypeOK, PCs
<1>3. DeleteTypeOK /\ HistoryTypeOK
  BY DEF Init, DeleteTypeOK, HistoryTypeOK
<1>. QED BY <1>1, <1>2, <1>3 DEF TypeOK

\* The agent's own variables.
LEMMA AgentTypeStep ==
  ASSUME TypeOK, NEW i \in Invocations,
         Receive(i) \/ AgentStep(i) \/ AgentFailure(i) \/ TitleEnds(i)
  PROVE  AgentTypeOK'
<1> USE DEF TypeOK
<1>1. CASE Receive(i)
  BY <1>1 DEF Receive, AgentTypeOK, PCs
<1>2. CASE LoadHistory(i)
  <2> DEFINE n == Cardinality(UserMessages(History(sess[i])))
             b == n = 0
  <2>1. n \in Nat /\ b \in BOOLEAN
    BY LoadedCountType DEF AgentTypeOK
  <2>2. PICK k \in Kinds : msg' = [msg EXCEPT ![i] = UserMessage(k)]
    BY <1>2 DEF LoadHistory, Kinds
  <2>3. UserMessage(k) \in Message
    BY MessageType
  <2>4. /\ count' = [count EXCEPT ![i] = n]
        /\ first' = [first EXCEPT ![i] = b]
        /\ pc' = [pc EXCEPT ![i] = "append"]
        /\ UNCHANGED <<titles, sess, rounds>>
    BY <1>2 DEF LoadHistory
  <2> HIDE DEF n, b
  <2>. QED BY <2>1, <2>2, <2>3, <2>4 DEF AgentTypeOK, PCs
<1>3. CASE MessageAdded(i)
  <2>1. UNCHANGED <<titles, sess, msg, rounds>>
    BY <1>3 DEF MessageAdded
  <2>2. \/ /\ count' = [count EXCEPT ![i] = @ + 1]
           /\ first' = [first EXCEPT ![i] = FALSE]
        \/ UNCHANGED <<count, first>>
    BY <1>3 DEF MessageAdded
  <2>3. PICK p \in PCs : pc' = [pc EXCEPT ![i] = p]
    BY <1>3 DEF MessageAdded, PCs
  <2>4. pc' \in [Invocations -> PCs]
    BY <2>3 DEF AgentTypeOK
  <2>5. count' \in [Invocations -> Nat] /\ first' \in [Invocations -> BOOLEAN]
    <3>1. CASE UNCHANGED <<count, first>>
      BY <3>1 DEF AgentTypeOK
    <3>2. CASE count' = [count EXCEPT ![i] = @ + 1] /\ first' = [first EXCEPT ![i] = FALSE]
      <4>1. count \in [Invocations -> Nat] /\ first \in [Invocations -> BOOLEAN]
        BY DEF AgentTypeOK
      <4>2. count' \in [Invocations -> Nat]
        BY <3>2, <4>1
      <4>3. first' \in [Invocations -> BOOLEAN]
        BY <3>2, <4>1
      <4>. QED BY <4>2, <4>3
    <3>. QED BY <2>2, <3>1, <3>2
  <2>. QED BY <2>1, <2>4, <2>5 DEF AgentTypeOK
<1>4. CASE InsertRow(i) \/ InsertRowFails(i) \/ TouchRow(i)
  <2>1. /\ pc' = [pc EXCEPT ![i] = "model"]
        /\ UNCHANGED <<sess, first, count, msg, rounds>>
        /\ StartTitle(i)
    BY <1>4 DEF InsertRow, InsertRowFails, TouchRow
  <2>. QED BY <2>1, StartTitleType DEF AgentTypeOK, PCs
<1>5. CASE ModelReplies(i)
  <2>1. PICK k \in Kinds, t \in BOOLEAN : msg' = [msg EXCEPT ![i] = AssistantMessage(k, t)]
    BY <1>5 DEF ModelReplies
  <2>2. AssistantMessage(k, t) \in Message
    BY MessageType
  <2>. QED BY <1>5, <2>1, <2>2 DEF ModelReplies, AgentTypeOK, PCs
<1>6. CASE ToolsReturn(i)
  <2>1. UserMessage("other") \in Message
    BY MessageType DEF Kinds
  <2>. QED BY <1>6, <2>1 DEF ToolsReturn, AgentTypeOK, PCs
<1>7. CASE Finish(i) \/ LoadHistoryFails(i) \/ StreamFails(i)
  BY <1>7, ReturnType DEF Finish, LoadHistoryFails, StreamFails
<1>8. CASE TitleEnds(i)
  BY <1>8 DEF TitleEnds, AgentTypeOK, agentVars
<1>. QED BY <1>1, <1>2, <1>3, <1>4, <1>5, <1>6, <1>7, <1>8 DEF AgentStep, AgentFailure

\* The table, Memory and the clock.
LEMMA StoreTypeStep ==
  ASSUME TypeOK, NEW i \in Invocations,
         Receive(i) \/ AgentStep(i) \/ AgentFailure(i) \/ TitleEnds(i)
  PROVE  StoreTypeOK'
<1> USE DEF TypeOK
<1>1. sess[i] \in Sessions /\ msg[i] \in Message
  BY DEF AgentTypeOK
<1>2. CASE UNCHANGED <<row, events, clock>>
  BY <1>2 DEF StoreTypeOK
<1>3. CASE MessageAdded(i)
  <2>1. AppendMessage(sess[i], msg[i]) /\ UNCHANGED row
    BY <1>3 DEF MessageAdded
  <2>. QED BY <1>1, <2>1, AppendMessageType DEF StoreTypeOK
<1>4. CASE Finish(i)
  <2>1. /\ AppendMessage(sess[i], AssistantMessage("other", FALSE)) \/ UNCHANGED <<events, clock>>
        /\ UNCHANGED row
    BY <1>4 DEF Finish
  <2>2. AssistantMessage("other", FALSE) \in Message
    BY MessageType DEF Kinds
  <2>. QED BY <1>1, <2>1, <2>2, AppendMessageType DEF StoreTypeOK
<1>5. CASE InsertRow(i)
  BY <1>1, <1>5 DEF InsertRow, StoreTypeOK, Rows
<1>6. CASE TitleEnds(i)
  BY <1>1, <1>6 DEF TitleEnds, StoreTypeOK, Rows
<1>. QED
  BY <1>2, <1>3, <1>4, <1>5, <1>6
     DEF AgentStep, AgentFailure, Receive, LoadHistory, LoadHistoryFails, InsertRowFails,
         TouchRow, ModelReplies, ToolsReturn, StreamFails

LEMMA NextTypeOK == TypeOK /\ [Next]_vars => TypeOK'
<1> SUFFICES ASSUME TypeOK, [Next]_vars PROVE TypeOK'
  OBVIOUS
<1> USE DEF TypeOK
<1>1. ASSUME NEW i \in Invocations,
             Receive(i) \/ AgentStep(i) \/ AgentFailure(i) \/ TitleEnds(i)
      PROVE  TypeOK'
  <2>1. UNCHANGED <<dpc, dsess, ids, horizon, clean>>
    BY <1>1 DEF AgentStep, AgentFailure, Receive, LoadHistory, LoadHistoryFails, MessageAdded,
                InsertRow, InsertRowFails, TouchRow, ModelReplies, ToolsReturn, Finish,
                StreamFails, TitleEnds, deleteVars, historyVars
  <2>2. gone' \subseteq gone
    BY <1>1 DEF AgentStep, AgentFailure, Receive, LoadHistory, LoadHistoryFails, MessageAdded,
                InsertRow, InsertRowFails, TouchRow, ModelReplies, ToolsReturn, Finish,
                StreamFails, TitleEnds, historyVars
  <2>3. excuse' \in [Sessions -> SUBSET {"insert lost", "deleted"}]
    BY <1>1, ZenonT(40) DEF AgentStep, AgentFailure, Receive, LoadHistory, LoadHistoryFails, MessageAdded,
                InsertRow, InsertRowFails, TouchRow, ModelReplies, ToolsReturn, Finish,
                StreamFails, TitleEnds, historyVars, HistoryTypeOK
  <2>4. DeleteTypeOK' /\ HistoryTypeOK'
    BY <2>1, <2>2, <2>3 DEF DeleteTypeOK, HistoryTypeOK
  <2>. QED BY <1>1, <2>4, AgentTypeStep, StoreTypeStep
<1>2. ASSUME NEW s \in Sessions, Crash(s) PROVE TypeOK'
  <2>1. AgentTypeOK'
    BY <1>2, ReturnType DEF Crash
  <2>2. StoreTypeOK' /\ DeleteTypeOK' /\ HistoryTypeOK'
    BY <1>2 DEF Crash, StoreTypeOK, DeleteTypeOK, HistoryTypeOK, deleteVars
  <2>. QED BY <2>1, <2>2
<1>3. ASSUME NEW d \in Deletes, DeleteRow(d) PROVE TypeOK'
  <2>1. dsess[d] \in Sessions
    BY DEF DeleteTypeOK
  <2>2. StoreTypeOK'
    BY <1>3, <2>1 DEF DeleteRow, StoreTypeOK, Rows
  <2>3. AgentTypeOK' /\ DeleteTypeOK'
    BY <1>3 DEF DeleteRow, AgentTypeOK, DeleteTypeOK, agentVars
  <2>4. excuse' \in [Sessions -> SUBSET {"insert lost", "deleted"}]
    <3>1. excuse \in [Sessions -> SUBSET {"insert lost", "deleted"}]
      BY DEF HistoryTypeOK
    <3>2. \/ excuse' = excuse
          \/ excuse' = [excuse EXCEPT ![dsess[d]] = @ \cup {"deleted"}]
      BY <1>3 DEF DeleteRow
    <3>. QED BY <2>1, <3>1, <3>2
  <2>5. gone' \subseteq Sessions /\ horizon' \in [Deletes -> Nat] /\ UNCHANGED clean
    BY <1>3, <2>1 DEF DeleteRow, HistoryTypeOK, StoreTypeOK
  <2>. QED BY <2>2, <2>3, <2>4, <2>5 DEF HistoryTypeOK
<1>4. ASSUME NEW d \in Deletes, ListPage(d) PROVE TypeOK'
  <2>1. PICK page \in SUBSET Unlisted(d) : ids' = [ids EXCEPT ![d] = @ \cup {e.id : e \in page}]
    BY <1>4 DEF ListPage
  <2>2. events[dsess[d]] \subseteq Event
    BY DEF StoreTypeOK, DeleteTypeOK
  <2>3. {e.id : e \in page} \subseteq Nat
    BY <2>2 DEF Unlisted, Event
  <2>4. DeleteTypeOK'
    BY <1>4, <2>1, <2>3 DEF ListPage, DeleteTypeOK
  <2>. QED BY <1>4, <2>4 DEF ListPage, StoreTypeOK, AgentTypeOK, HistoryTypeOK, agentVars, historyVars
<1>5. ASSUME NEW d \in Deletes, ListDone(d) \/ EraseDone(d) PROVE TypeOK'
  <2>1. DeleteTypeOK'
    BY <1>5 DEF ListDone, EraseDone, DeleteTypeOK
  <2>2. UNCHANGED <<row, events, clock, titles, agentVars, historyVars>>
    BY <1>5 DEF ListDone, EraseDone
  <2>. QED BY <2>1, <2>2 DEF StoreTypeOK, AgentTypeOK, HistoryTypeOK, agentVars, historyVars
<1>6. ASSUME NEW d \in Deletes, EraseEvent(d) PROVE TypeOK'
  <2>1. PICK id \in ids[d] :
           /\ ids' = [ids EXCEPT ![d] = @ \ {id}]
           /\ \/ /\ events' = [events EXCEPT ![dsess[d]] = {e \in @ : e.id # id}]
                 /\ UNCHANGED clean
              \/ /\ clean' = [clean EXCEPT ![d] = FALSE]
                 /\ UNCHANGED events
    BY <1>6 DEF EraseEvent
  <2>2. \A t \in Sessions : events'[t] \subseteq events[t]
    BY <2>1 DEF StoreTypeOK
  <2>3. events' \in [Sessions -> SUBSET Event]
    <3>1. events \in [Sessions -> SUBSET Event]
      BY DEF StoreTypeOK
    <3>2. events' = events \/ \E S \in SUBSET Event : events' = [events EXCEPT ![dsess[d]] = S]
      <4> DEFINE S == {e \in events[dsess[d]] : e.id # id}
      <4>1. S \in SUBSET Event
        BY <3>1 DEF DeleteTypeOK
      <4>. QED BY <2>1, <4>1
    <3>. QED BY <3>1, <3>2
  <2>4. \A t \in Sessions : IsFiniteSet(events'[t])
    BY <2>2, FS_Subset DEF StoreTypeOK
  <2>5. StoreTypeOK'
    BY <1>6, <2>3, <2>4 DEF EraseEvent, StoreTypeOK
  <2>6. DeleteTypeOK'
    BY <1>6, <2>1 DEF EraseEvent, DeleteTypeOK
  <2>7. clean' \in [Deletes -> BOOLEAN]
    BY <2>1 DEF HistoryTypeOK
  <2>. QED BY <1>6, <2>5, <2>6, <2>7 DEF EraseEvent, AgentTypeOK, HistoryTypeOK, agentVars
<1>7. ASSUME NEW d \in Deletes, BackgroundLost(d) PROVE TypeOK'
  <2>1. DeleteTypeOK' /\ HistoryTypeOK'
    BY <1>7 DEF BackgroundLost, DeleteTypeOK, HistoryTypeOK
  <2>. QED BY <1>7, <2>1 DEF BackgroundLost, StoreTypeOK, AgentTypeOK, agentVars
<1>8. CASE UNCHANGED vars
  BY <1>8 DEF vars, agentVars, deleteVars, historyVars, StoreTypeOK, AgentTypeOK,
              DeleteTypeOK, HistoryTypeOK
<1>. QED
  BY <1>1, <1>2, <1>3, <1>4, <1>5, <1>6, <1>7, <1>8 DEF Next, DeleteStep

\* Every variable keeps its type, whatever the requests do.
THEOREM TypeCorrect == Spec => []TypeOK
  BY InitTypeOK, NextTypeOK, PTL DEF Spec

-----------------------------------------------------------------------------
(* A stored session is listed.  The invariant alone is not inductive: an       *)
(* invocation that found a user message in Memory sends no INSERT, so that     *)
(* decision, taken at loadHistory, has to stay justified until the invocation  *)
(* ends.                                                                       *)

\* An invocation that no longer holds its first user message relies on a row,
\* on another invocation's INSERT or on a recorded cause.
DecisionJustified ==
  \A i \in Invocations :
    InFlight(i) /\ pc[i] # "load" /\ ~first[i] => Accounted(sess[i])

ListedInv == TypeOK /\ StoredSessionIsListed /\ DecisionJustified

\* Steps that take no session's account away.
AccountKept == \A s \in Sessions : Accounted(s) => Accounted(s)'

\* No step makes an accounted session unaccounted: whoever removes a row or
\* gives up an INSERT records why.
LEMMA AccountKeptByNext ==
  ASSUME TypeOK, [Next]_vars
  PROVE  AccountKept
<1> SUFFICES ASSUME NEW s \in Sessions, Accounted(s) PROVE Accounted(s)'
  BY DEF AccountKept
<1> USE DEF TypeOK
<1>1. ASSUME UNCHANGED <<row, excuse, sess>>,
             \A j \in Invocations : pc[j] = "insert" => pc'[j] = "insert"
      PROVE  Accounted(s)'
  BY <1>1 DEF Accounted
<1>2. ASSUME NEW i \in Invocations,
             \/ Receive(i) \/ LoadHistory(i) \/ LoadHistoryFails(i) \/ MessageAdded(i)
             \/ TouchRow(i) \/ ModelReplies(i) \/ ToolsReturn(i) \/ Finish(i) \/ StreamFails(i)
      PROVE  Accounted(s)'
  <2>1. UNCHANGED <<row, excuse, sess>>
    BY <1>2 DEF Receive, LoadHistory, LoadHistoryFails, MessageAdded, TouchRow, ModelReplies,
                ToolsReturn, Finish, StreamFails, Return, historyVars
  <2>2. \A j \in Invocations : pc[j] = "insert" => pc'[j] = "insert"
    BY <1>2 DEF Receive, LoadHistory, LoadHistoryFails, MessageAdded, TouchRow, ModelReplies,
                ToolsReturn, Finish, StreamFails, Return, AgentTypeOK
  <2>. QED BY <1>1, <2>1, <2>2
<1>3. ASSUME NEW i \in Invocations, InsertRow(i) PROVE Accounted(s)'
  <2>1. CASE sess[i] = s
    <3>1. row'[s] # "none"
      BY <1>3, <2>1 DEF InsertRow, StoreTypeOK
    <3>. QED BY <3>1 DEF Accounted
  <2>2. CASE sess[i] # s
    <3>1. row'[s] = row[s] /\ excuse'[s] = excuse[s]
      BY <1>3, <2>2 DEF InsertRow, StoreTypeOK, HistoryTypeOK
    <3>2. ASSUME NEW j \in Invocations, sess[j] = s, pc[j] = "insert"
          PROVE  sess'[j] = s /\ pc'[j] = "insert"
      BY <1>3, <2>2, <3>2 DEF InsertRow, AgentTypeOK
    <3>. QED BY <3>1, <3>2 DEF Accounted
  <2>. QED BY <2>1, <2>2
<1>4. ASSUME NEW i \in Invocations, InsertRowFails(i) PROVE Accounted(s)'
  <2>1. CASE sess[i] = s
    <3>1. excuse'[s] # {}
      BY <1>4, <2>1 DEF InsertRowFails, HistoryTypeOK
    <3>. QED BY <3>1 DEF Accounted
  <2>2. CASE sess[i] # s
    <3>1. row'[s] = row[s] /\ excuse'[s] = excuse[s]
      BY <1>4, <2>2 DEF InsertRowFails, HistoryTypeOK
    <3>2. ASSUME NEW j \in Invocations, sess[j] = s, pc[j] = "insert"
          PROVE  sess'[j] = s /\ pc'[j] = "insert"
      BY <1>4, <2>2, <3>2 DEF InsertRowFails, AgentTypeOK
    <3>. QED BY <3>1, <3>2 DEF Accounted
  <2>. QED BY <2>1, <2>2
<1>5. ASSUME NEW i \in Invocations, TitleEnds(i) PROVE Accounted(s)'
  <2>1. row[s] # "none" => row'[s] # "none"
    BY <1>5 DEF TitleEnds, StoreTypeOK
  <2>2. UNCHANGED <<excuse, pc, sess>>
    BY <1>5 DEF TitleEnds, agentVars, historyVars
  <2>. QED BY <2>1, <2>2 DEF Accounted
<1>6. ASSUME NEW t \in Sessions, Crash(t) PROVE Accounted(s)'
  <2>1. UNCHANGED <<row, sess>>
    BY <1>6 DEF Crash, Return
  <2>2. excuse[s] \subseteq excuse'[s]
    BY <1>6 DEF Crash, HistoryTypeOK
  <2>3. ASSUME NEW j \in Invocations, sess[j] = s, pc[j] = "insert"
        PROVE  pc'[j] = "insert" \/ excuse'[s] # {}
    BY <1>6, <2>3 DEF Crash, Return, HistoryTypeOK
  <2>. QED BY <2>1, <2>2, <2>3 DEF Accounted
<1>7. ASSUME NEW d \in Deletes, DeleteRow(d) PROVE Accounted(s)'
  <2>1. UNCHANGED <<pc, sess>>
    BY <1>7 DEF DeleteRow, agentVars
  <2>2. excuse[s] \subseteq excuse'[s] /\ (row'[s] = row[s] \/ excuse'[s] # {})
    <3>1. CASE UNCHANGED <<row, excuse>>
      BY <3>1
    <3>2. CASE /\ row' = [row EXCEPT ![dsess[d]] = "none"]
               /\ excuse' = [excuse EXCEPT ![dsess[d]] = @ \cup {"deleted"}]
      <4>1. CASE dsess[d] = s
        <5>1. excuse'[s] = excuse[s] \cup {"deleted"}
          BY <3>2, <4>1 DEF HistoryTypeOK
        <5>. QED BY <5>1
      <4>2. CASE dsess[d] # s
        BY <3>2, <4>2 DEF HistoryTypeOK, StoreTypeOK
      <4>. QED BY <4>1, <4>2
    <3>. QED BY <1>7, <3>1, <3>2 DEF DeleteRow
  <2>. QED BY <2>1, <2>2 DEF Accounted
<1>8. ASSUME NEW d \in Deletes,
             ListPage(d) \/ ListDone(d) \/ EraseEvent(d) \/ EraseDone(d) \/ BackgroundLost(d)
      PROVE  Accounted(s)'
  <2>1. UNCHANGED <<row, excuse, pc, sess>>
    BY <1>8 DEF ListPage, ListDone, EraseEvent, EraseDone, BackgroundLost, agentVars, historyVars
  <2>. QED BY <2>1 DEF Accounted
<1>9. CASE UNCHANGED vars
  BY <1>9 DEF vars, agentVars, historyVars, Accounted
<1>. QED
  BY <1>2, <1>3, <1>4, <1>5, <1>6, <1>7, <1>8, <1>9 DEF Next, AgentStep, AgentFailure, DeleteStep

\* A step that stores no user message and takes no new decision keeps the
\* invariant, because it keeps every account.
LEMMA ListedKept ==
  ASSUME ListedInv, AccountKept, UNCHANGED sess,
         \A s \in Sessions : UserMessages(events'[s]) \subseteq UserMessages(events[s]),
         \A i \in Invocations :
           (InFlight(i) /\ pc[i] # "load" /\ ~first[i])'
             => (InFlight(i) /\ pc[i] # "load" /\ ~first[i]) \/ Accounted(sess[i])
  PROVE  (StoredSessionIsListed /\ DecisionJustified)'
<1>1. ASSUME NEW s \in Sessions, UserMessages(events'[s]) # {} PROVE Accounted(s)'
  BY <1>1 DEF ListedInv, StoredSessionIsListed, AccountKept
<1>2. ASSUME NEW i \in Invocations, (InFlight(i) /\ pc[i] # "load" /\ ~first[i])'
      PROVE  Accounted(sess[i])'
  <2>1. sess[i] \in Sessions /\ sess'[i] = sess[i]
    BY DEF ListedInv, TypeOK, AgentTypeOK
  <2>2. Accounted(sess[i])
    BY <1>2 DEF ListedInv, DecisionJustified
  <2>. QED BY <2>1, <2>2 DEF AccountKept
<1>3. StoredSessionIsListed'
  BY <1>1 DEF StoredSessionIsListed, UserMessages
<1>4. DecisionJustified'
  BY <1>2 DEF DecisionJustified
<1>. QED BY <1>3, <1>4

LEMMA NextListedInv == ListedInv /\ [Next]_vars => ListedInv'
<1> SUFFICES ASSUME ListedInv, [Next]_vars PROVE ListedInv'
  OBVIOUS
<1>1. TypeOK /\ TypeOK' /\ AccountKept
  BY NextTypeOK, AccountKeptByNext DEF ListedInv
<1> DEFINE Goal == (StoredSessionIsListed /\ DecisionJustified)'
<1>2. ASSUME NEW i \in Invocations, Receive(i) PROVE Goal
  <2>1. UNCHANGED <<events, sess, first>> /\ pc' = [pc EXCEPT ![i] = "load"]
    BY <1>2 DEF Receive
  <2>. QED BY <1>1, <2>1, ListedKept DEF InFlight, TypeOK, AgentTypeOK
<1>3. ASSUME NEW i \in Invocations, LoadHistory(i) PROVE Goal
  <2>1. UNCHANGED <<events, sess>> /\ sess[i] \in Sessions
    BY <1>1, <1>3 DEF LoadHistory, TypeOK, AgentTypeOK
  <2>2. ASSUME ~first'[i] PROVE Accounted(sess[i])
    <3> DEFINE h == UserMessages(History(sess[i]))
    <3>1. first'[i] = (Cardinality(h) = 0)
      BY <1>1, <1>3 DEF LoadHistory, TypeOK, AgentTypeOK
    <3>2. h # {}
      BY <2>2, <3>1, FS_EmptySet
    <3>3. UserMessages(events[sess[i]]) # {}
      BY <3>2 DEF UserMessages, History
    <3>. QED BY <2>1, <3>3 DEF ListedInv, StoredSessionIsListed
  <2>3. \A j \in Invocations \ {i} : pc'[j] = pc[j] /\ first'[j] = first[j]
    BY <1>1, <1>3 DEF LoadHistory, TypeOK, AgentTypeOK
  <2>. QED BY <1>1, <2>1, <2>2, <2>3, ListedKept DEF InFlight
<1>4. ASSUME NEW i \in Invocations, MessageAdded(i) PROVE Goal
  <2>1. UNCHANGED <<row, sess, excuse, msg>> /\ sess[i] \in Sessions /\ pc[i] = "append"
    BY <1>1, <1>4 DEF MessageAdded, TypeOK, AgentTypeOK, historyVars
  <2>2. \A j \in Invocations \ {i} : pc'[j] = pc[j] /\ first'[j] = first[j]
    BY <1>1, <1>4 DEF MessageAdded, TypeOK, AgentTypeOK
  <2>3. \A s \in Sessions \ {sess[i]} : events'[s] = events[s]
    BY <1>1, <1>4 DEF MessageAdded, AppendMessage, TypeOK, StoreTypeOK
  <2>4. CASE msg[i].role = "user"
    <3>1. first[i] => pc'[i] = "insert"
      BY <1>1, <1>4, <2>4 DEF MessageAdded, TypeOK, AgentTypeOK
    <3>2. ~first[i] => Accounted(sess[i])
      BY <2>1 DEF ListedInv, DecisionJustified, InFlight
    <3>3. Accounted(sess[i])'
      BY <1>1, <2>1, <3>1, <3>2 DEF AccountKept, Accounted
    <3>4. StoredSessionIsListed'
      BY <1>1, <2>1, <2>3, <3>3 DEF StoredSessionIsListed, AccountKept, ListedInv
    <3>5. DecisionJustified'
      BY <1>1, <2>1, <2>2, <3>3 DEF DecisionJustified, AccountKept, ListedInv, InFlight,
                                    TypeOK, AgentTypeOK
    <3>. QED BY <3>4, <3>5
  <2>5. CASE msg[i].role # "user"
    <3>1. \A s \in Sessions : UserMessages(events'[s]) \subseteq UserMessages(events[s])
      <4>1. AppendMessage(sess[i], msg[i])
        BY <1>4 DEF MessageAdded
      <4>2. CASE UNCHANGED events
        BY <4>2
      <4>3. CASE events' = [events EXCEPT ![sess[i]] =
                              @ \cup {[id |-> clock, role |-> msg[i].role, kind |-> msg[i].kind]}]
        BY <2>1, <2>5, <4>3, <1>1 DEF UserMessages, TypeOK, StoreTypeOK
      <4>. QED BY <4>1, <4>2, <4>3 DEF AppendMessage
    <3>2. UNCHANGED first
      BY <1>4, <2>5 DEF MessageAdded
    <3>. QED BY <1>1, <2>1, <2>2, <3>1, <3>2, ListedKept DEF InFlight
  <2>. QED BY <2>4, <2>5
<1>5. ASSUME NEW i \in Invocations,
             \/ InsertRow(i) \/ InsertRowFails(i) \/ TouchRow(i)
             \/ ModelReplies(i) \/ ToolsReturn(i)
      PROVE  Goal
  <2>1. /\ UNCHANGED <<events, sess, first>> /\ pc[i] \in {"insert", "touch", "model", "tools"}
        /\ \A j \in Invocations \ {i} : pc'[j] = pc[j]
    BY <1>1, <1>5 DEF InsertRow, InsertRowFails, TouchRow, ModelReplies, ToolsReturn, TypeOK,
                      AgentTypeOK
  <2>. QED BY <1>1, <2>1, ListedKept DEF InFlight
<1>6. ASSUME NEW i \in Invocations, LoadHistoryFails(i) \/ StreamFails(i) \/ Finish(i)
      PROVE  Goal
  <2>1. /\ UNCHANGED sess /\ pc'[i] = "done"
        /\ \A j \in Invocations \ {i} : pc'[j] = pc[j] /\ first'[j] = first[j]
    BY <1>6 DEF LoadHistoryFails, StreamFails, Finish, Return
  <2>2. \A s \in Sessions : UserMessages(events'[s]) \subseteq UserMessages(events[s])
    <3>1. CASE UNCHANGED events
      BY <3>1
    <3>2. CASE AppendMessage(sess[i], AssistantMessage("other", FALSE))
      BY <1>1, <3>2 DEF AppendMessage, AssistantMessage, UserMessages, TypeOK, StoreTypeOK
    <3>. QED BY <1>6, <3>1, <3>2 DEF LoadHistoryFails, StreamFails, Finish
  <2>. QED BY <1>1, <2>1, <2>2, ListedKept DEF InFlight
<1>7. ASSUME NEW i \in Invocations, TitleEnds(i) PROVE Goal
  <2>1. UNCHANGED <<events, sess, pc, first>>
    BY <1>7 DEF TitleEnds, agentVars
  <2>. QED BY <1>1, <2>1, ListedKept DEF InFlight
<1>8. ASSUME NEW s \in Sessions, Crash(s) PROVE Goal
  <2>1. /\ UNCHANGED <<events, sess>>
        /\ \A j \in Invocations :
              pc'[j] = "done" \/ (pc'[j] = pc[j] /\ first'[j] = first[j])
    BY <1>8 DEF Crash, Return
  <2>. QED BY <1>1, <2>1, ListedKept DEF InFlight
<1>9. ASSUME NEW d \in Deletes, DeleteStep(d) \/ BackgroundLost(d) PROVE Goal
  <2>1. UNCHANGED <<sess, pc, first>>
    BY <1>9 DEF DeleteStep, DeleteRow, ListPage, ListDone, EraseEvent, EraseDone,
                BackgroundLost, agentVars
  <2>2. \A s \in Sessions : events'[s] \subseteq events[s]
    BY <1>1, <1>9 DEF DeleteStep, DeleteRow, ListPage, ListDone, EraseEvent, EraseDone,
                      BackgroundLost, TypeOK, StoreTypeOK
  <2>3. \A s \in Sessions : UserMessages(events'[s]) \subseteq UserMessages(events[s])
    BY <2>2 DEF UserMessages
  <2>. QED BY <1>1, <2>1, <2>3, ListedKept DEF InFlight
<1>10. ASSUME UNCHANGED vars PROVE Goal
  <2>1. UNCHANGED <<events, sess, pc, first>>
    BY <1>10 DEF vars, agentVars
  <2>. QED BY <1>1, <2>1, ListedKept DEF InFlight
<1>11. Goal
  BY <1>2, <1>3, <1>4, <1>5, <1>6, <1>7, <1>8, <1>9, <1>10 DEF Next, AgentStep, AgentFailure
<1>. QED BY <1>1, <1>11 DEF ListedInv

\* Nothing is stored and nobody is running at the start.
LEMMA InitListedInv == Init => ListedInv
  BY InitTypeOK DEF Init, ListedInv, StoredSessionIsListed, DecisionJustified, UserMessages,
                    InFlight

\* A session with a stored user message has a row, will get one, or the lost
\* INSERT or the delete that explains it is on record.
THEOREM StoredSessionsAreListed == Spec => []StoredSessionIsListed
  BY InitListedInv, NextListedInv, PTL DEF Spec, ListedInv

-----------------------------------------------------------------------------
(* A deleted session stays deleted.  Inductive with the fact that none of the  *)
(* session's requests is running: title tasks may be, and cannot matter.       *)

GoneInv ==
  /\ TypeOK
  /\ \A s \in gone :
       row[s] = "none" /\ \A i \in Invocations : sess[i] = s => ~InFlight(i)

LEMMA NextGoneInv == GoneInv /\ [Next]_vars => GoneInv'
<1> SUFFICES ASSUME GoneInv, [Next]_vars PROVE GoneInv'
  OBVIOUS
<1>1. TypeOK /\ TypeOK'
  BY NextTypeOK DEF GoneInv
<1> DEFINE Quiet(s) == row[s] = "none" /\ \A i \in Invocations : sess[i] = s => ~InFlight(i)
<1> SUFFICES ASSUME NEW s \in Sessions, s \in gone' PROVE Quiet(s)'
  BY <1>1 DEF GoneInv, TypeOK, HistoryTypeOK
<1>2. ASSUME NEW i \in Invocations, Receive(i) PROVE Quiet(s)'
  <2>1. s \in gone /\ sess[i] # s
    BY <1>2 DEF Receive
  <2>2. UNCHANGED <<row, sess>> /\ pc' = [pc EXCEPT ![i] = "load"]
    BY <1>2 DEF Receive
  <2>. QED BY <1>1, <2>1, <2>2 DEF GoneInv, InFlight, TypeOK, AgentTypeOK
<1>3. ASSUME NEW i \in Invocations, AgentStep(i) \/ AgentFailure(i) PROVE Quiet(s)'
  <2>1. InFlight(i) /\ UNCHANGED <<gone, sess>>
    BY <1>3 DEF AgentStep, AgentFailure, InFlight, LoadHistory, LoadHistoryFails, MessageAdded,
                InsertRow, InsertRowFails, TouchRow, ModelReplies, ToolsReturn, Finish,
                StreamFails, Return, historyVars
  <2>2. s \in gone /\ sess[i] # s
    BY <2>1 DEF GoneInv
  <2>3. \A j \in Invocations \ {i} : pc'[j] = pc[j]
    BY <1>1, <1>3 DEF AgentStep, AgentFailure, LoadHistory, LoadHistoryFails, MessageAdded,
                InsertRow, InsertRowFails, TouchRow, ModelReplies, ToolsReturn, Finish,
                StreamFails, Return, TypeOK, AgentTypeOK
  <2>4. row'[s] = row[s]
    BY <1>1, <1>3, <2>2 DEF AgentStep, AgentFailure, LoadHistory, LoadHistoryFails, MessageAdded,
                InsertRow, InsertRowFails, TouchRow, ModelReplies, ToolsReturn, Finish,
                StreamFails, TypeOK, StoreTypeOK
  <2>. QED BY <2>1, <2>2, <2>3, <2>4 DEF GoneInv, InFlight
<1>4. ASSUME NEW i \in Invocations, TitleEnds(i) PROVE Quiet(s)'
  <2>1. UNCHANGED <<gone, sess, pc>>
    BY <1>4 DEF TitleEnds, agentVars, historyVars
  <2>2. row[s] = "none" => row'[s] = "none"
    BY <1>1, <1>4 DEF TitleEnds, TypeOK, StoreTypeOK
  <2>. QED BY <2>1, <2>2 DEF GoneInv, InFlight
<1>5. ASSUME NEW t \in Sessions, Crash(t) PROVE Quiet(s)'
  <2>1. UNCHANGED <<gone, sess, row>> /\ \A j \in Invocations : pc'[j] \in {pc[j], "done"}
    BY <1>5 DEF Crash, Return
  <2>. QED BY <2>1 DEF GoneInv, InFlight
<1>6. ASSUME NEW d \in Deletes, DeleteRow(d) PROVE Quiet(s)'
  <2>1. UNCHANGED <<sess, pc>>
    BY <1>6 DEF DeleteRow, agentVars
  <2>2. row[s] = "none" => row'[s] = "none"
    BY <1>1, <1>6 DEF DeleteRow, TypeOK, StoreTypeOK
  <2>3. CASE s \in gone
    BY <2>1, <2>2, <2>3 DEF GoneInv, InFlight
  <2>4. CASE s \notin gone
    <3>1. s = dsess[d] /\ row'[s] = "none" /\ \A i \in Invocations : sess[i] = s => ~InFlight(i)
      BY <1>1, <1>6, <2>4 DEF DeleteRow, TypeOK, StoreTypeOK
    <3>. QED BY <2>1, <3>1 DEF InFlight
  <2>. QED BY <2>3, <2>4
<1>7. ASSUME NEW d \in Deletes,
             ListPage(d) \/ ListDone(d) \/ EraseEvent(d) \/ EraseDone(d) \/ BackgroundLost(d)
      PROVE  Quiet(s)'
  <2>1. UNCHANGED <<row, sess, pc, gone>>
    BY <1>7 DEF ListPage, ListDone, EraseEvent, EraseDone, BackgroundLost, agentVars, historyVars
  <2>. QED BY <2>1 DEF GoneInv, InFlight
<1>8. ASSUME UNCHANGED vars PROVE Quiet(s)'
  BY <1>8 DEF vars, agentVars, historyVars, GoneInv, InFlight
<1>. QED
  BY <1>2, <1>3, <1>4, <1>5, <1>6, <1>7, <1>8 DEF Next, DeleteStep

\* A session deleted while none of its requests was running has no row until a
\* new request names it.
THEOREM DeletedSessionsStayDeleted == Spec => []DeletedStaysDeleted
<1>1. Init => GoneInv
  BY InitTypeOK DEF Init, GoneInv
<1>2. GoneInv => DeletedStaysDeleted
  BY DEF GoneInv, DeletedStaysDeleted
<1>. QED BY <1>1, <1>2, NextGoneInv, PTL DEF Spec

-----------------------------------------------------------------------------
(* A clean delete purges.  Every event is older than the clock, and while a    *)
(* delete erases, each event it has to remove is still on its list.            *)

PurgeInv ==
  /\ TypeOK
  /\ \A s \in Sessions : \A e \in events[s] : e.id < clock
  /\ \A d \in Deletes :
       /\ horizon[d] <= clock
       /\ dpc[d] \in {"erase", "done"} /\ clean[d] =>
            \A e \in events[dsess[d]] : e.id >= horizon[d] \/ e.id \in ids[d]
       /\ dpc[d] = "done" => ids[d] = {}

\* What the agent does to Memory: it adds events stamped with the clock.
LEMMA AgentAddsNewEvents ==
  ASSUME PurgeInv, [Next]_vars, TypeOK',
         ~(\E d \in Deletes : DeleteStep(d) \/ BackgroundLost(d))
  PROVE  /\ UNCHANGED <<deleteVars, horizon, clean>>
         /\ clock <= clock'
         /\ \A s \in Sessions : \A e \in events'[s] :
              e \in events[s] \/ (e.id = clock /\ clock' = clock + 1)
<1> USE DEF PurgeInv, TypeOK
<1>1. ASSUME NEW s \in Sessions, NEW m \in Message, AppendMessage(s, m)
      PROVE  /\ clock <= clock'
             /\ \A t \in Sessions : \A e \in events'[t] :
                  e \in events[t] \/ (e.id = clock /\ clock' = clock + 1)
  BY <1>1 DEF AppendMessage, StoreTypeOK
<1>2. ASSUME NEW i \in Invocations, MessageAdded(i) PROVE AppendMessage(sess[i], msg[i])
  BY <1>2 DEF MessageAdded
<1>3. ASSUME NEW i \in Invocations, Finish(i)
      PROVE  \/ AppendMessage(sess[i], AssistantMessage("other", FALSE))
             \/ UNCHANGED <<events, clock>>
  BY <1>3 DEF Finish
<1>4. \A i \in Invocations : sess[i] \in Sessions /\ msg[i] \in Message
  BY DEF AgentTypeOK
<1>5. AssistantMessage("other", FALSE) \in Message
  BY MessageType DEF Kinds
<1>6. UNCHANGED <<deleteVars, horizon, clean>>
  BY DEF Next, AgentStep, AgentFailure, Receive, LoadHistory, LoadHistoryFails, MessageAdded,
         InsertRow, InsertRowFails, TouchRow, ModelReplies, ToolsReturn, Finish, StreamFails,
         TitleEnds, Crash, historyVars, vars
<1>7. \/ UNCHANGED <<events, clock>>
      \/ \E s \in Sessions, m \in Message : AppendMessage(s, m)
  BY <1>2, <1>3, <1>4, <1>5
     DEF Next, AgentStep, AgentFailure, Receive, LoadHistory, LoadHistoryFails, InsertRow,
         InsertRowFails, TouchRow, ModelReplies, ToolsReturn, StreamFails, TitleEnds, Crash, vars
<1>. QED BY <1>1, <1>6, <1>7 DEF StoreTypeOK

LEMMA NextPurgeInv == PurgeInv /\ [Next]_vars => PurgeInv'
<1> SUFFICES ASSUME PurgeInv, [Next]_vars PROVE PurgeInv'
  OBVIOUS
<1>1. TypeOK /\ TypeOK'
  BY NextTypeOK DEF PurgeInv
<1>2. CASE ~(\E d \in Deletes : DeleteStep(d) \/ BackgroundLost(d))
  <2>1. /\ UNCHANGED <<dpc, dsess, ids, horizon, clean>>
        /\ clock <= clock'
        /\ \A s \in Sessions : \A e \in events'[s] :
             e \in events[s] \/ (e.id = clock /\ clock' = clock + 1)
    BY <1>1, <1>2, AgentAddsNewEvents DEF deleteVars
  <2>2. clock \in Nat /\ clock' \in Nat /\ horizon \in [Deletes -> Nat]
        /\ dsess \in [Deletes -> Sessions]
    BY <1>1 DEF TypeOK, StoreTypeOK, HistoryTypeOK, DeleteTypeOK
  <2>3. \A s \in Sessions : \A e \in events[s] : e.id \in Nat
    BY <1>1 DEF TypeOK, StoreTypeOK, Event
  <2>4. \A s \in Sessions : \A e \in events'[s] : e.id < clock'
    BY <2>1, <2>2, <2>3 DEF PurgeInv
  <2>5. \A d \in Deletes : horizon[d] <= clock'
    BY <2>1, <2>2 DEF PurgeInv
  <2>6. ASSUME NEW d \in Deletes, dpc[d] \in {"erase", "done"}, clean[d],
               NEW e \in events'[dsess[d]]
        PROVE  e.id >= horizon[d] \/ e.id \in ids[d]
    BY <2>1, <2>2, <2>6 DEF PurgeInv
  <2>. QED BY <1>1, <2>1, <2>4, <2>5, <2>6 DEF PurgeInv
<1>3. ASSUME NEW d \in Deletes, DeleteStep(d) \/ BackgroundLost(d) PROVE PurgeInv'
  <2>1. /\ UNCHANGED <<clock, dsess>>
        /\ \A c \in Deletes \ {d} : /\ dpc'[c] = dpc[c] /\ ids'[c] = ids[c]
                                   /\ clean'[c] = clean[c] /\ horizon'[c] = horizon[c]
    BY <1>1, <1>3 DEF DeleteStep, DeleteRow, ListPage, ListDone, EraseEvent, EraseDone,
                      BackgroundLost, TypeOK, DeleteTypeOK, HistoryTypeOK, historyVars
  <2>2. \A s \in Sessions : events'[s] \subseteq events[s]
    BY <1>1, <1>3 DEF DeleteStep, DeleteRow, ListPage, ListDone, EraseEvent, EraseDone,
                      BackgroundLost, TypeOK, StoreTypeOK
  <2>3. horizon'[d] \in {clock, horizon[d]}
    BY <1>1, <1>3 DEF DeleteStep, DeleteRow, ListPage, ListDone, EraseEvent, EraseDone,
                      BackgroundLost, TypeOK, HistoryTypeOK, historyVars
  <2>4. clock \in Nat /\ dsess \in [Deletes -> Sessions]
    BY <1>1 DEF TypeOK, StoreTypeOK, DeleteTypeOK
  <2> DEFINE Covered == dpc'[d] \in {"erase", "done"} /\ clean'[d] =>
                          \A e \in events'[dsess[d]] : e.id >= horizon'[d] \/ e.id \in ids'[d]
  <2>5. Covered /\ (dpc'[d] = "done" => ids'[d] = {})
    <3>1. CASE DeleteRow(d)
      BY <1>1, <3>1 DEF DeleteRow, TypeOK, DeleteTypeOK
    <3>2. CASE ListPage(d)
      BY <3>2 DEF ListPage
    <3>3. CASE ListDone(d)
      <4>1. dpc'[d] = "erase" /\ UNCHANGED <<events, ids, horizon, clean>>
        BY <1>1, <3>3 DEF ListDone, TypeOK, DeleteTypeOK, historyVars
      <4>2. \A e \in events[dsess[d]] : e.id >= horizon[d] \/ e.id \in ids[d]
        BY <3>3 DEF ListDone, Unlisted
      <4>. QED BY <4>1, <4>2
    <3>4. CASE EraseEvent(d)
      <4>1. PICK id \in ids[d] :
               /\ ids' = [ids EXCEPT ![d] = @ \ {id}]
               /\ \/ events' = [events EXCEPT ![dsess[d]] = {e \in @ : e.id # id}]
                     /\ UNCHANGED clean
                  \/ clean' = [clean EXCEPT ![d] = FALSE] /\ UNCHANGED events
        BY <3>4 DEF EraseEvent
      <4>2. dpc[d] = "erase" /\ UNCHANGED <<dpc, horizon>> /\ ids'[d] = ids[d] \ {id}
        BY <1>1, <3>4, <4>1 DEF EraseEvent, TypeOK, DeleteTypeOK
      <4>3. clean'[d] => clean[d] /\ events'[dsess[d]] = {e \in events[dsess[d]] : e.id # id}
        BY <1>1, <2>4, <4>1 DEF TypeOK, StoreTypeOK, HistoryTypeOK
      <4>. QED BY <4>2, <4>3 DEF PurgeInv
    <3>5. CASE EraseDone(d)
      <4>1. /\ dpc[d] = "erase" /\ ids[d] = {}
            /\ UNCHANGED <<events, ids, horizon, clean>>
        BY <3>5 DEF EraseDone, historyVars
      <4>. QED BY <4>1 DEF PurgeInv
    <3>6. CASE BackgroundLost(d)
      BY <1>1, <3>6 DEF BackgroundLost, TypeOK, DeleteTypeOK, HistoryTypeOK
    <3>. QED BY <1>3, <3>1, <3>2, <3>3, <3>4, <3>5, <3>6 DEF DeleteStep
  <2>6. \A s \in Sessions : \A e \in events'[s] : e.id < clock'
    BY <2>1, <2>2 DEF PurgeInv
  <2>7. \A c \in Deletes : horizon'[c] <= clock'
    BY <2>1, <2>3, <2>4 DEF PurgeInv
  <2>8. ASSUME NEW c \in Deletes
        PROVE  /\ dpc'[c] \in {"erase", "done"} /\ clean'[c] =>
                    \A e \in events'[dsess'[c]] : e.id >= horizon'[c] \/ e.id \in ids'[c]
               /\ dpc'[c] = "done" => ids'[c] = {}
    <3>1. CASE c = d
      BY <2>1, <2>5, <3>1
    <3>2. CASE c # d
      BY <2>1, <2>2, <2>4, <3>2 DEF PurgeInv
    <3>. QED BY <3>1, <3>2
  <2>. QED BY <1>1, <2>6, <2>7, <2>8 DEF PurgeInv
<1>. QED BY <1>2, <1>3

\* A delete whose background task ran to its end without a failed call leaves no
\* event that was stored when it started, however many requests store meanwhile
\* and in whatever order the pages and the deletions come.
THEOREM CleanDeletesPurge == Spec => []DeletePurges
<1>1. Init => PurgeInv
  BY InitTypeOK DEF Init, PurgeInv
<1>2. PurgeInv => DeletePurges
  BY DEF PurgeInv, DeletePurges
<1>. QED BY <1>1, <1>2, NextPurgeInv, PTL DEF Spec

-----------------------------------------------------------------------------
(* Titles. *)

\* No step replaces a generated title by the text of a message, because the
\* INSERT of a session that has a row only touches it.
THEOREM TitlesAreNotDowngraded == Spec => TitleNotDowngraded
<1>1. ASSUME TypeOK, [Next]_vars, NEW s \in Sessions, row[s] = "generated"
      PROVE  row'[s] # "extracted"
  <2>1. CASE UNCHANGED row
    BY <1>1, <2>1
  <2>2. ASSUME NEW i \in Invocations, InsertRow(i) PROVE row'[s] # "extracted"
    BY <1>1, <2>2 DEF InsertRow, TypeOK, StoreTypeOK
  <2>3. ASSUME NEW i \in Invocations, TitleEnds(i) PROVE row'[s] # "extracted"
    BY <1>1, <2>3 DEF TitleEnds, TypeOK, StoreTypeOK
  <2>4. ASSUME NEW d \in Deletes, DeleteRow(d) PROVE row'[s] # "extracted"
    BY <1>1, <2>4 DEF DeleteRow, TypeOK, StoreTypeOK
  <2>. QED
    BY <1>1, <2>1, <2>2, <2>3, <2>4
       DEF Next, AgentStep, AgentFailure, DeleteStep, Receive, LoadHistory, LoadHistoryFails,
           MessageAdded, InsertRowFails, TouchRow, ModelReplies, ToolsReturn, Finish,
           StreamFails, Crash, ListPage, ListDone, EraseEvent, EraseDone, BackgroundLost, vars
<1>2. TypeOK /\ [Next]_vars =>
        [\A s \in Sessions : row[s] = "generated" => row'[s] # "extracted"]_vars
  BY <1>1
<1>. QED BY <1>2, TypeCorrect, PTL DEF Spec, TitleNotDowngraded
=============================================================================
