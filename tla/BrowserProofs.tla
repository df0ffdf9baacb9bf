---------------------------- MODULE BrowserProofs -----------------------------
(* The sidebar's list of sessions and the pages of the selected project, for  *)
(* any sets of sessions and projects, and the browser that holds them.        *)
EXTENDS Browser, SignInProofs

-----------------------------------------------------------------------------
(* SessionList *)

LEMMA ListTyped == Sidebar!Init => Sidebar!TypeOK
  BY DEF Sidebar!Init, Sidebar!TypeOK, Sidebar!Titles, Sidebar!NoSessions, Sidebar!Sessions

LEMMA ListStaysTyped ==
  ASSUME Sidebar!TypeOK, [Sidebar!Next]_(Sidebar!vars)
  PROVE  Sidebar!TypeOK'
<1> USE DEF Sidebar!TypeOK, Sidebar!Titles, Sidebar!NoSessions
<1>1. New \subseteq Sidebar!Sessions
  BY DEF Sidebar!Sessions
<1>2. CASE UNCHANGED Sidebar!vars
  BY <1>2 DEF Sidebar!vars
<1>3. CASE Sidebar!Focus
  BY <1>3 DEF Sidebar!Focus, Sidebar!Revalidate
<1>4. CASE Sidebar!Fetching
  BY <1>4 DEF Sidebar!Fetching, Sidebar!ServerReads, Sidebar!FetchEnds
<1>5. ASSUME NEW s \in Sidebar!Sessions, Sidebar!Deleting(s)
      PROVE  Sidebar!TypeOK'
  BY <1>5, ZenonT(40) DEF Sidebar!Deleting, Sidebar!ClickDelete, Sidebar!ServerDeletes, Sidebar!DeleteEnds,
              Sidebar!Mutate, Sidebar!Revalidate
<1>6. ASSUME NEW s \in Sidebar!Sessions, Sidebar!RowRenamed(s)
      PROVE  Sidebar!TypeOK'
  BY <1>6 DEF Sidebar!RowRenamed
<1>7. ASSUME NEW s \in New, Sidebar!Chatting(s)
      PROVE  Sidebar!TypeOK'
  BY <1>1, <1>7 DEF Sidebar!Chatting, Sidebar!SessionStart, Sidebar!RowInserted,
                    Sidebar!TitleUpdate, Sidebar!Mutate
<1> QED  BY <1>2, <1>3, <1>4, <1>5, <1>6, <1>7 DEF Sidebar!Next

\* The list, its fetch and the table are well typed (AppShell.tsx).
THEOREM ListTypeCorrect == Sidebar!Spec => []Sidebar!TypeOK
  BY ListTyped, ListStaysTyped, PTL DEF Sidebar!Spec

UnderWay(s) == dpc[s] \in {"sent", "served"}

\* Session s was deleted and has no row.
Deleted(s) == dpc[s] = "done" /\ rows[s] = "none"

\* Until a chat is started, whoever still shows a deleted session will be put
\* right by a fetch that has not been read, or by the one at the end of a deletion.
\* An answer that has been read does not hold it.
SettlesInv ==
  (\A n \in New : chat[n] = "idle") =>
    \A s \in Sidebar!Sessions : Deleted(s) =>
      /\ answer[s] = "none"
      /\ \/ list[s] = "none" \/ fetching \in {"sent", "read"}
         \/ \E q \in Sidebar!Sessions : UnderWay(q)

LEMMA SettlesStep ==
  ASSUME Sidebar!TypeOK, SettlesInv, [Sidebar!Next]_(Sidebar!vars)
  PROVE  SettlesInv'
<1> USE DEF Sidebar!TypeOK, Deleted, UnderWay
<1>1. CASE UNCHANGED Sidebar!vars
  BY <1>1 DEF Sidebar!vars, SettlesInv
<1>2. CASE Sidebar!Focus
  BY <1>2 DEF Sidebar!Focus, Sidebar!Revalidate, Sidebar!NoSessions, SettlesInv
<1>3. CASE Sidebar!ServerReads
  BY <1>3 DEF Sidebar!ServerReads, Sidebar!NoSessions, SettlesInv
<1>4. CASE Sidebar!FetchEnds
  BY <1>4 DEF Sidebar!FetchEnds, Sidebar!NoSessions, SettlesInv
<1>5. ASSUME NEW s \in Sidebar!Sessions, Sidebar!ClickDelete(s)
      PROVE  SettlesInv'
  <2>1. dpc'[s] = "sent" /\ answer' = Sidebar!NoSessions /\ UNCHANGED <<rows, chat>>
    BY <1>5 DEF Sidebar!ClickDelete, Sidebar!Mutate
  <2>2. \A q \in Sidebar!Sessions : dpc'[q] = "done" => dpc[q] = "done"
    BY <1>5 DEF Sidebar!ClickDelete
  <2> QED  BY <2>1, <2>2 DEF SettlesInv, Sidebar!NoSessions
<1>6. ASSUME NEW s \in Sidebar!Sessions, Sidebar!ServerDeletes(s)
      PROVE  SettlesInv'
  <2>1. dpc'[s] = "served" /\ \A q \in Sidebar!Sessions : q # s => rows'[q] = rows[q] /\ dpc'[q] = dpc[q]
    BY <1>6 DEF Sidebar!ServerDeletes
  <2>2. UNCHANGED <<list, fetching, answer, chat>>
    BY <1>6 DEF Sidebar!ServerDeletes
  <2> QED  BY <2>1, <2>2 DEF SettlesInv
<1>7. ASSUME NEW s \in Sidebar!Sessions, Sidebar!DeleteEnds(s)
      PROVE  SettlesInv'
  BY <1>7 DEF Sidebar!DeleteEnds, Sidebar!Revalidate, Sidebar!NoSessions, SettlesInv
<1>8. ASSUME NEW s \in Sidebar!Sessions, Sidebar!RowRenamed(s)
      PROVE  SettlesInv'
  BY <1>8 DEF Sidebar!RowRenamed, SettlesInv
<1>9. ASSUME NEW s \in New, Sidebar!Chatting(s)
      PROVE  SettlesInv'
  BY <1>9 DEF Sidebar!Chatting, Sidebar!SessionStart, Sidebar!RowInserted, Sidebar!TitleUpdate, SettlesInv
<1> QED
  BY <1>1, <1>2, <1>3, <1>4, <1>5, <1>6, <1>7, <1>8, <1>9
     DEF Sidebar!Next, Sidebar!Fetching, Sidebar!Deleting

\* Once no deletion is under way and nothing is being fetched, the list shows no
\* session that was deleted and has no row (AppShell.tsx:40), for any number of
\* sessions, deletions at a time and fetches in between.
THEOREM DeletesSettle == Sidebar!Spec => []SettledDeletesAreGone
<1>1. Sidebar!Init => SettlesInv
  BY DEF Sidebar!Init, SettlesInv, Deleted
<1>2. Sidebar!TypeOK /\ SettlesInv => SettledDeletesAreGone
  BY DEF Sidebar!TypeOK, SettlesInv, SettledDeletesAreGone, Sidebar!SettledDeletesAreGone, Deleted,
         UnderWay
<1> QED  BY <1>1, <1>2, SettlesStep, ListTypeCorrect, PTL DEF Sidebar!Spec

\* While the window keeps the focus and deletions come one at a time, nothing is
\* fetched during a deletion; and a chat that has not begun is in no list.
CalmInv ==
  /\ calm => \A s, q \in Sidebar!Sessions : UnderWay(s) /\ UnderWay(q) => s = q
  /\ calm => \A s \in Sidebar!Sessions : UnderWay(s) => fetching = "none"
  /\ \A s \in New : chat[s] = "idle" =>
       dpc[s] = "idle" /\ rows[s] = "none" /\ list[s] = "none" /\ answer[s] = "none"

LEMMA CalmStep ==
  ASSUME Sidebar!TypeOK, CalmInv, [Sidebar!Next]_(Sidebar!vars)
  PROVE  CalmInv'
<1> USE DEF Sidebar!TypeOK, UnderWay, CalmInv
<1>0. New \subseteq Sidebar!Sessions
  BY DEF Sidebar!Sessions
<1>1. CASE UNCHANGED Sidebar!vars
  BY <1>1 DEF Sidebar!vars
<1>2. CASE Sidebar!Focus
  BY <1>0, <1>2 DEF Sidebar!Focus, Sidebar!Revalidate, Sidebar!NoSessions
<1>3. CASE Sidebar!Fetching
  BY <1>0, <1>3 DEF Sidebar!Fetching, Sidebar!ServerReads, Sidebar!FetchEnds, Sidebar!NoSessions
<1>4. ASSUME NEW s \in Sidebar!Sessions, Sidebar!ClickDelete(s)
      PROVE  CalmInv'
  <2>1. /\ dpc' = [dpc EXCEPT ![s] = "sent"] /\ list' = [list EXCEPT ![s] = "none"]
        /\ fetching' = "none" /\ answer' = Sidebar!NoSessions /\ UNCHANGED <<rows, chat>>
        /\ list[s] # "none"
        /\ calm' => \A q \in Sidebar!Sessions : ~UnderWay(q)
    BY <1>4 DEF Sidebar!ClickDelete, Sidebar!Mutate
  <2>2. \A q \in Sidebar!Sessions : q # s => dpc'[q] = dpc[q] /\ list'[q] = list[q]
    BY <2>1
  <2>3. \A q \in Sidebar!Sessions : answer'[q] = "none"
    BY <2>1 DEF Sidebar!NoSessions
  <2> QED  BY <1>0, <2>1, <2>2, <2>3
<1>7. ASSUME NEW s \in Sidebar!Sessions, Sidebar!ServerDeletes(s)
      PROVE  CalmInv'
  <2>1. /\ dpc[s] = "sent" /\ dpc' = [dpc EXCEPT ![s] = "served"]
        /\ UNCHANGED <<list, fetching, answer, chat, calm>>
        /\ \A q \in Sidebar!Sessions : q # s => rows'[q] = rows[q]
    BY <1>7 DEF Sidebar!ServerDeletes
  <2>2. dpc'[s] = "served" /\ \A q \in Sidebar!Sessions : q # s => dpc'[q] = dpc[q]
    BY <2>1
  <2> QED  BY <1>0, <2>1, <2>2
<1>8. ASSUME NEW s \in Sidebar!Sessions, Sidebar!DeleteEnds(s)
      PROVE  CalmInv'
  <2>1. /\ UnderWay(s) /\ dpc' = [dpc EXCEPT ![s] = "done"] /\ answer' = Sidebar!NoSessions
        /\ UNCHANGED <<rows, list, chat, calm>>
    BY <1>8 DEF Sidebar!DeleteEnds, Sidebar!Revalidate
  <2>2. dpc'[s] = "done" /\ \A q \in Sidebar!Sessions : q # s => dpc'[q] = dpc[q]
    BY <2>1
  <2>3. \A q \in Sidebar!Sessions : answer'[q] = "none"
    BY <2>1 DEF Sidebar!NoSessions
  <2> QED  BY <1>0, <2>1, <2>2, <2>3
<1>5. ASSUME NEW s \in Sidebar!Sessions, Sidebar!RowRenamed(s)
      PROVE  CalmInv'
  BY <1>0, <1>5 DEF Sidebar!RowRenamed
<1>6. ASSUME NEW s \in New, Sidebar!Chatting(s)
      PROVE  CalmInv'
  BY <1>0, <1>6 DEF Sidebar!Chatting, Sidebar!SessionStart, Sidebar!RowInserted, Sidebar!TitleUpdate,
                    Sidebar!Mutate, Sidebar!NoSessions
<1> QED
  BY <1>1, <1>2, <1>3, <1>4, <1>5, <1>6, <1>7, <1>8 DEF Sidebar!Next, Sidebar!Deleting

\* In calm a session that was removed from the list does not come back during its
\* deletion (AppShell.tsx:35), whatever chats and titles do.
THEOREM CalmDeletesHold == Sidebar!Spec => NoResurrectionInCalm
<1>1. Sidebar!Init => CalmInv
  BY SessionsAssumption DEF Sidebar!Init, CalmInv, UnderWay, Sidebar!NoSessions, Sidebar!Sessions
<1>2. ASSUME Sidebar!TypeOK, CalmInv, [Sidebar!Next]_(Sidebar!vars)
      PROVE  [calm => \A s \in Sidebar!Sessions : Sidebar!StaysRemoved(s)]_(Sidebar!vars)
  <2> SUFFICES ASSUME calm, Sidebar!Next, NEW s \in Sidebar!Sessions, UnderWay(s), list[s] = "none"
               PROVE  list'[s] = "none"
    BY <1>2 DEF Sidebar!StaysRemoved, UnderWay
  <2> USE DEF Sidebar!TypeOK, UnderWay
  <2>1. fetching = "none"
    BY <1>2 DEF CalmInv
  <2>2. CASE Sidebar!Focus \/ Sidebar!Fetching
    BY <2>1, <2>2 DEF Sidebar!Focus, Sidebar!Fetching, Sidebar!ServerReads, Sidebar!FetchEnds
  <2>3. ASSUME NEW q \in Sidebar!Sessions, Sidebar!Deleting(q) \/ Sidebar!RowRenamed(q)
        PROVE  list'[s] = "none"
    BY <1>2, <2>3 DEF Sidebar!Deleting, Sidebar!ClickDelete, Sidebar!ServerDeletes, Sidebar!DeleteEnds,
                      Sidebar!RowRenamed, Sidebar!Mutate
  <2>4. ASSUME NEW n \in New, Sidebar!SessionStart(n)
        PROVE  list'[s] = "none"
    <3>1. n # s
      BY <1>2, <2>4 DEF CalmInv, Sidebar!SessionStart
    <3> QED  BY <1>2, <2>4, <3>1 DEF Sidebar!SessionStart, Sidebar!Mutate
  <2>5. ASSUME NEW n \in New, Sidebar!RowInserted(n) \/ Sidebar!TitleUpdate(n)
        PROVE  list'[s] = "none"
    BY <1>2, <2>5 DEF Sidebar!RowInserted, Sidebar!TitleUpdate, Sidebar!Mutate
  <2> QED  BY <2>2, <2>3, <2>4, <2>5 DEF Sidebar!Next, Sidebar!Chatting
<1> QED
  BY <1>1, <1>2, CalmStep, ListTypeCorrect, PTL
     DEF Sidebar!Spec, NoResurrectionInCalm, Sidebar!NoResurrectionInCalm

\* What is left of a deleted chat (its title, fetches) does not bring it back.
THEOREM DeletedChatsStayGone == Sidebar!Spec => DeletedChatStaysGone
<1>1. ASSUME Sidebar!TypeOK, [Sidebar!Next]_(Sidebar!vars)
      PROVE  [\A s \in Sidebar!Sessions : Sidebar!Vanished(s) => Sidebar!Vanished(s)']_(Sidebar!vars)
  <2> SUFFICES ASSUME Sidebar!Next, NEW s \in Sidebar!Sessions, Sidebar!Vanished(s)
               PROVE  Sidebar!Vanished(s)'
    BY <1>1
  <2> USE DEF Sidebar!TypeOK, Sidebar!Vanished, Sidebar!NoSessions
  <2>1. CASE Sidebar!Focus \/ Sidebar!Fetching
    BY <1>1, <2>1 DEF Sidebar!Focus, Sidebar!Fetching, Sidebar!ServerReads, Sidebar!FetchEnds,
                      Sidebar!Revalidate
  <2>2. ASSUME NEW q \in Sidebar!Sessions, Sidebar!Deleting(q)
        PROVE  Sidebar!Vanished(s)'
    BY <1>1, <2>2 DEF Sidebar!Deleting, Sidebar!ClickDelete, Sidebar!ServerDeletes,
                      Sidebar!DeleteEnds, Sidebar!Mutate, Sidebar!Revalidate
  <2>3. ASSUME NEW q \in Sidebar!Sessions, Sidebar!RowRenamed(q)
        PROVE  Sidebar!Vanished(s)'
    BY <1>1, <2>3 DEF Sidebar!RowRenamed
  <2>4. ASSUME NEW n \in New, Sidebar!Chatting(n)
        PROVE  Sidebar!Vanished(s)'
    <3>1. n \in Sidebar!Sessions /\ (s = n => chat[n] \in {"stored", "titled"})
      BY DEF Sidebar!Sessions
    <3> QED  BY <1>1, <2>4, <3>1 DEF Sidebar!Chatting, Sidebar!SessionStart, Sidebar!RowInserted,
                                     Sidebar!TitleUpdate, Sidebar!Mutate
  <2> QED  BY <2>1, <2>2, <2>3, <2>4 DEF Sidebar!Next
<1> QED
  BY <1>1, ListTypeCorrect, PTL
     DEF Sidebar!Spec, DeletedChatStaysGone, Sidebar!DeletedChatStaysGone

-----------------------------------------------------------------------------
(* Workspace *)

QueryType == [state : {"none", "running", "succeeded", "failed"},
              project : Projects \cup {Selection!None}, polls : Nat]

QueriesTyped == query \in QueryType /\ result \in QueryType

LEMMA PagesTyped == Selection!Init => Selection!TypeOK /\ QueriesTyped
<1> SUFFICES ASSUME Selection!Init PROVE Selection!TypeOK /\ QueriesTyped
  OBVIOUS
<1>1. QueriesTyped
  BY DEF Selection!Init, Selection!NoQuery, QueriesTyped, QueryType
<1>2. storage \in [ready : BOOLEAN, config : BOOLEAN, error : Projects \cup {Selection!None}]
  BY DEF Selection!Init, Selection!Fresh
<1> QED  BY <1>1, <1>2 DEF Selection!Init, Selection!TypeOK

\* The types through the parts that several actions share.
LEMMA PrefetchTyped ==
  ASSUME Selection!TypeOK, NEW p \in Projects \cup {Selection!None},
         NEW before \in [ready : BOOLEAN, config : BOOLEAN, error : Projects \cup {Selection!None}],
         NEW asked \in SUBSET [project : Projects, open : BOOLEAN],
         Selection!Prefetch(p, before, asked)
  PROVE  /\ storage' \in [ready : BOOLEAN, config : BOOLEAN, error : Projects \cup {Selection!None}]
         /\ fetches' \subseteq [project : Projects, open : BOOLEAN]
<1>1. CASE p = Selection!None
  BY <1>1 DEF Selection!Prefetch
<1>2. CASE p # Selection!None /\ cache[p] # Selection!None
  <2>1. /\ storage' = [ready |-> TRUE, config |-> TRUE, error |-> Selection!None]
        /\ fetches' = asked
    BY <1>2, Zenon DEF Selection!Prefetch
  <2> QED  BY <2>1
<1>3. CASE p # Selection!None /\ cache[p] = Selection!None
  <2>1. /\ storage' = [before EXCEPT !.ready = FALSE, !.error = Selection!None]
        /\ fetches' = asked \cup {[project |-> p, open |-> TRUE]}
    BY <1>3, Zenon DEF Selection!Prefetch
  <2> DEFINE mid == [before EXCEPT !.ready = FALSE]
  <2>2. mid \in [ready : BOOLEAN, config : BOOLEAN, error : Projects \cup {Selection!None}]
    OBVIOUS
  <2>3. storage' = [mid EXCEPT !.error = Selection!None]
    BY <2>1
  <2> HIDE DEF mid
  <2>4. storage' \in [ready : BOOLEAN, config : BOOLEAN, error : Projects \cup {Selection!None}]
    BY <2>2, <2>3
  <2>5. fetches' \subseteq [project : Projects, open : BOOLEAN]
    <3>1. [project |-> p, open |-> TRUE] \in [project : Projects, open : BOOLEAN]
      BY <1>3
    <3> QED  BY <2>1, <3>1
  <2> QED  BY <2>4, <2>5
<1> QED  BY <1>1, <1>2, <1>3

LEMMA BecomesTyped ==
  ASSUME Selection!TypeOK, QueriesTyped, NEW p \in Projects \cup {Selection!None}, Selection!Becomes(p)
  PROVE  /\ selected' \in Projects \cup {Selection!None}
         /\ storage' \in [ready : BOOLEAN, config : BOOLEAN, error : Projects \cup {Selection!None}]
         /\ fetches' \subseteq [project : Projects, open : BOOLEAN]
         /\ using' \in Projects \cup {Selection!None}
         /\ settled' \in BOOLEAN /\ moved' \in BOOLEAN
         /\ UNCHANGED <<page, cache, query, result>>
<1> USE DEF Selection!TypeOK
<1>1. /\ selected' \in Projects \cup {Selection!None} /\ using' \in Projects \cup {Selection!None}
      /\ settled' \in BOOLEAN /\ moved' \in BOOLEAN /\ UNCHANGED <<page, cache, query, result>>
  BY DEF Selection!Becomes
<1>2. CASE page = "storage" /\ p # selected
  BY <1>1, <1>2, PrefetchTyped DEF Selection!Becomes
<1>3. CASE ~(page = "storage" /\ p # selected)
  BY <1>1, <1>3 DEF Selection!Becomes
<1> QED  BY <1>2, <1>3

LEMMA PagesStayTyped ==
  ASSUME Selection!TypeOK, QueriesTyped, [Selection!Next]_(Selection!wsVars)
  PROVE  Selection!TypeOK' /\ QueriesTyped'
<1> USE DEF Selection!TypeOK, QueriesTyped
<1>1. CASE UNCHANGED Selection!wsVars
  BY <1>1 DEF Selection!wsVars
<1>2. CASE Selection!FetchReturns
  <2>1. PICK f \in fetches :
          /\ fetches' \in {fetches, fetches \ {f}}
          /\ \/ /\ cache' = Selection!Put(f.project)
                /\ storage' = IF f.open THEN [storage EXCEPT !.ready = TRUE, !.config = TRUE] ELSE storage
             \/ /\ storage' = IF f.open THEN [storage EXCEPT !.error = f.project] ELSE storage
                /\ UNCHANGED cache
          /\ UNCHANGED <<stored, hydrated, selected, listed, answered, page, using, query, result,
                         settled, moved>>
    BY <1>2 DEF Selection!FetchReturns
  <2>2. f.project \in Projects /\ fetches' \subseteq fetches
    BY <2>1
  <2>3. cache' \in [Projects -> Projects \cup {Selection!None}]
    BY <2>1, <2>2 DEF Selection!Put
  <2>4. storage' \in [ready : BOOLEAN, config : BOOLEAN, error : Projects \cup {Selection!None}]
    BY <2>1, <2>2
  <2> QED  BY <2>1, <2>2, <2>3, <2>4
<1>3. CASE Selection!Expires
  BY <1>3 DEF Selection!Expires
<1>4. CASE Selection!ProviderAsks
  BY <1>4 DEF Selection!ProviderAsks, Selection!Displayed, Selection!Put, Selection!Cached
<1>5. CASE Selection!Rehydrate
  <2>1. Selection!Reset(stored, listed, answered) \in Projects \cup {Selection!None}
    BY DEF Selection!Reset
  <2> QED  BY <1>5, <2>1, BecomesTyped DEF Selection!Rehydrate
<1>6. CASE Selection!ProjectsReturn
  <2>1. Selection!Reset(selected, listed', TRUE) \in Projects \cup {Selection!None}
    BY DEF Selection!Reset
  <2> QED  BY <1>6, <2>1, BecomesTyped DEF Selection!ProjectsReturn
<1>7. ASSUME NEW p \in Projects, Selection!Choose(p)
      PROVE  Selection!TypeOK' /\ QueriesTyped'
  BY <1>7, BecomesTyped DEF Selection!Choose
<1>8. CASE Selection!Open
  <2> DEFINE closed == {[f EXCEPT !.open = FALSE] : f \in fetches}
  <2>1. PICK next \in {"chat", "storage", "query", "audit"} :
          /\ page' = next
          /\ Selection!Prefetch(IF next = "storage" THEN selected ELSE Selection!None,
                                Selection!Fresh, closed)
    BY <1>8 DEF Selection!Open
  <2>2. closed \in SUBSET [project : Projects, open : BOOLEAN]
    BY ZenonT(40)
  <2>3. Selection!Fresh \in [ready : BOOLEAN, config : BOOLEAN, error : Projects \cup {Selection!None}]
    BY DEF Selection!Fresh
  <2>4. /\ storage' \in [ready : BOOLEAN, config : BOOLEAN, error : Projects \cup {Selection!None}]
        /\ fetches' \subseteq [project : Projects, open : BOOLEAN]
    <3> HIDE DEF closed
    <3> QED  BY <2>1, <2>2, <2>3, PrefetchTyped
  <2> QED  BY <1>8, <2>1, <2>4 DEF Selection!Open, Selection!Queries, QueryType, Selection!NoQuery
<1>9. CASE Selection!SubmitQuery \/ Selection!SubmitAudit
  <2>1. PICK project \in Projects \cup {Selection!None} : Selection!Submit(project)
    BY <1>9 DEF Selection!SubmitQuery, Selection!SubmitAudit
  <2>2. query' \in QueryType /\ result' \in QueryType /\ moved' = FALSE
    BY <2>1, PollsAssumption DEF Selection!Submit, QueryType, Selection!NoQuery
  <2> QED  BY <2>1, <2>2 DEF Selection!Submit, Selection!QueryOnly
<1>10. CASE Selection!QueryEnds \/ Selection!Poll \/ Selection!ShowRows \/ Selection!ShowError
  BY <1>10 DEF Selection!QueryEnds, Selection!Poll, Selection!ShowRows, Selection!ShowError,
               Selection!Same, Selection!QueryOnly, QueryType, Selection!NoQuery
<1> QED
  BY <1>1, <1>2, <1>3, <1>4, <1>5, <1>6, <1>7, <1>8, <1>9, <1>10 DEF Selection!Next

\* The selection, the pages, their requests and the cache are well typed.
THEOREM PagesTypeCorrect == Selection!Spec => [](Selection!TypeOK /\ QueriesTyped)
  BY PagesTyped, PagesStayTyped, PTL DEF Selection!Spec

\* What keeps the pages with the selected project.  An entry of the cache holds
\* its project's credentials; a request counts for a page only while that is the
\* storage page; until another project is selected with such a request under
\* way, they are all for the selected one.
SelectionInv ==
  /\ Selection!SelectionIsListed
  /\ \A p \in Projects : cache[p] \in {Selection!None, p}
  /\ using \in {Selection!None, selected}

RequestsInv ==
  /\ \A f \in fetches : f.open => page = "storage" /\ (settled => f.project = selected)
  /\ settled /\ page = "storage" /\ selected # Selection!None =>
       storage.error \in {Selection!None, selected}

Asked(q) == q # Selection!NoQuery => (page = "query" /\ ~moved => q.project = selected)

RowsInv ==
  /\ Asked(query) /\ Asked(result)
  /\ result # Selection!NoQuery => result.state = "succeeded"

LEMMA SelectionStep ==
  ASSUME Selection!TypeOK, SelectionInv, [Selection!Next]_(Selection!wsVars)
  PROVE  SelectionInv'
<1> USE DEF Selection!TypeOK, SelectionInv, Selection!SelectionIsListed
<1>1. CASE UNCHANGED Selection!wsVars
  BY <1>1 DEF Selection!wsVars
<1>2. CASE Selection!FetchReturns
  <2>1. PICK f \in fetches : cache' \in {cache, Selection!Put(f.project)}
    BY <1>2 DEF Selection!FetchReturns
  <2>2. \A p \in Projects : cache'[p] \in {Selection!None, p}
    BY <2>1 DEF Selection!Put
  <2>3. UNCHANGED <<selected, listed, answered, using>>
    BY <1>2 DEF Selection!FetchReturns
  <2> QED  BY <2>2, <2>3
<1>3. CASE Selection!Expires
  BY <1>3 DEF Selection!Expires
<1>4. CASE Selection!ProviderAsks
  <2>1. selected \in Projects /\ UNCHANGED <<selected, listed, answered>>
    BY <1>4 DEF Selection!ProviderAsks, Selection!Displayed
  <2>2. \/ Selection!Cached # Selection!None /\ using' = Selection!Cached /\ UNCHANGED cache
        \/ cache' = Selection!Put(selected) /\ using' = selected
    BY <1>4 DEF Selection!ProviderAsks
  <2> QED  BY <2>1, <2>2 DEF Selection!Put, Selection!Cached
<1>5. CASE Selection!Rehydrate
  BY <1>5 DEF Selection!Rehydrate, Selection!Becomes, Selection!Reset
<1>6. CASE Selection!ProjectsReturn
  BY <1>6 DEF Selection!ProjectsReturn, Selection!Becomes, Selection!Reset
<1>7. ASSUME NEW p \in Projects, Selection!Choose(p)
      PROVE  SelectionInv'
  BY <1>7 DEF Selection!Choose, Selection!Becomes
<1>8. CASE Selection!Open
  BY <1>8 DEF Selection!Open
<1>9. CASE Selection!SubmitQuery \/ Selection!SubmitAudit
  BY <1>9 DEF Selection!SubmitQuery, Selection!SubmitAudit, Selection!Submit, Selection!QueryOnly
<1>10. CASE Selection!QueryEnds \/ Selection!Poll \/ Selection!ShowRows \/ Selection!ShowError
  BY <1>10 DEF Selection!QueryEnds, Selection!Poll, Selection!ShowRows, Selection!ShowError,
               Selection!Same, Selection!QueryOnly
<1> QED
  BY <1>1, <1>2, <1>3, <1>4, <1>5, <1>6, <1>7, <1>8, <1>9, <1>10 DEF Selection!Next

\* Whatever selects a project keeps the requests and the rows with it.
LEMMA BecomesKeeps ==
  ASSUME Selection!TypeOK, RequestsInv, RowsInv, NEW p \in Projects \cup {Selection!None},
         Selection!Becomes(p)
  PROVE  RequestsInv' /\ RowsInv'
<1> USE DEF Selection!TypeOK
<1>1. /\ selected' = p /\ UNCHANGED <<page, query, result>>
      /\ settled' = (settled /\ (p = selected \/ ~\E f \in fetches : f.open))
      /\ moved' = (moved \/ p # selected)
  BY DEF Selection!Becomes
<1>2. RowsInv'
  BY <1>1 DEF RowsInv, Asked
<1>3. CASE ~(page = "storage" /\ p # selected)
  <2>1. UNCHANGED <<storage, fetches>>
    BY <1>3 DEF Selection!Becomes
  <2> QED  BY <1>1, <1>2, <1>3, <2>1 DEF RequestsInv
<1>4. CASE page = "storage" /\ p # selected
  <2>1. Selection!Prefetch(p, storage, fetches)
    BY <1>4 DEF Selection!Becomes
  <2>2. CASE p = Selection!None
    <3>1. UNCHANGED <<storage, fetches>>
      BY <2>1, <2>2, Zenon DEF Selection!Prefetch
    <3> QED  BY <1>1, <1>2, <1>4, <2>2, <3>1 DEF RequestsInv
  <2>3. CASE p # Selection!None /\ cache[p] # Selection!None
    <3>1. storage' = [ready |-> TRUE, config |-> TRUE, error |-> Selection!None] /\ fetches' = fetches
      BY <2>1, <2>3, Zenon DEF Selection!Prefetch
    <3>2. storage'.error = Selection!None
      BY <3>1
    <3> QED  BY <1>1, <1>2, <1>4, <3>1, <3>2 DEF RequestsInv
  <2>4. CASE p # Selection!None /\ cache[p] = Selection!None
    <3>1. /\ storage' = [storage EXCEPT !.ready = FALSE, !.error = Selection!None]
          /\ fetches' = fetches \cup {[project |-> p, open |-> TRUE]}
      BY <2>1, <2>4, Zenon DEF Selection!Prefetch
    <3>2. storage'.error = Selection!None
      BY <3>1
    <3>3. \A f \in fetches' : f \in fetches \/ f.project = p
      BY <3>1
    <3>4. settled' => settled /\ \A f \in fetches : ~f.open
      BY <1>1, <1>4
    <3> QED  BY <1>1, <1>2, <1>4, <3>2, <3>3, <3>4 DEF RequestsInv
  <2> QED  BY <2>2, <2>3, <2>4
<1> QED  BY <1>3, <1>4

LEMMA PagesStep ==
  ASSUME Selection!TypeOK, QueriesTyped, RequestsInv, RowsInv,
         [Selection!Next]_(Selection!wsVars)
  PROVE  RequestsInv' /\ RowsInv'
<1> USE DEF Selection!TypeOK
<1>1. CASE UNCHANGED Selection!wsVars
  BY <1>1 DEF Selection!wsVars, RequestsInv, RowsInv, Asked
<1>2. CASE Selection!FetchReturns
  <2>1. PICK f \in fetches :
          /\ fetches' \in {fetches, fetches \ {f}}
          /\ \/ storage' = IF f.open THEN [storage EXCEPT !.ready = TRUE, !.config = TRUE] ELSE storage
             \/ storage' = IF f.open THEN [storage EXCEPT !.error = f.project] ELSE storage
    BY <1>2 DEF Selection!FetchReturns
  <2>2. storage'.error = storage.error \/ (f.open /\ storage'.error = f.project)
    BY <2>1
  <2>3. UNCHANGED <<selected, page, query, result, settled, moved>>
    BY <1>2 DEF Selection!FetchReturns
  <2>4. RequestsInv'
    BY <2>1, <2>2, <2>3 DEF RequestsInv
  <2> QED  BY <2>3, <2>4 DEF RowsInv, Asked
<1>3. CASE Selection!Expires \/ Selection!ProviderAsks
  BY <1>3 DEF Selection!Expires, Selection!ProviderAsks, RequestsInv, RowsInv, Asked
<1>4. CASE Selection!Rehydrate
  <2>1. Selection!Reset(stored, listed, answered) \in Projects \cup {Selection!None}
    BY DEF Selection!Reset
  <2> QED  BY <1>4, <2>1, BecomesKeeps DEF Selection!Rehydrate
<1>5. CASE Selection!ProjectsReturn
  <2>1. Selection!Reset(selected, listed', TRUE) \in Projects \cup {Selection!None}
    BY DEF Selection!Reset
  <2> QED  BY <1>5, <2>1, BecomesKeeps DEF Selection!ProjectsReturn
<1>6. ASSUME NEW p \in Projects, Selection!Choose(p)
      PROVE  RequestsInv' /\ RowsInv'
  BY <1>6, BecomesKeeps DEF Selection!Choose
<1>7. CASE Selection!Open
  <2> DEFINE closed == {[f EXCEPT !.open = FALSE] : f \in fetches}
  <2>1. PICK next \in {"chat", "storage", "query", "audit"} :
          /\ page' = next
          /\ Selection!Prefetch(IF next = "storage" THEN selected ELSE Selection!None,
                                Selection!Fresh, closed)
    BY <1>7 DEF Selection!Open
  <2>2. \A f \in closed : ~f.open
    OBVIOUS
  <2>3. query' = Selection!NoQuery /\ result' = Selection!NoQuery /\ UNCHANGED selected
    BY <1>7 DEF Selection!Open
  <2> HIDE DEF closed
  <2>4. CASE next = "storage" /\ selected # Selection!None /\ cache[selected] = Selection!None
    <3>1. /\ storage' = [Selection!Fresh EXCEPT !.ready = FALSE, !.error = Selection!None]
          /\ fetches' = closed \cup {[project |-> selected, open |-> TRUE]}
      BY <2>1, <2>4, Zenon DEF Selection!Prefetch
    <3>2. storage'.error = Selection!None
      BY <3>1 DEF Selection!Fresh
    <3> QED  BY <2>1, <2>2, <2>3, <2>4, <3>1, <3>2 DEF RequestsInv, RowsInv, Asked
  <2>5. CASE ~(next = "storage" /\ selected # Selection!None /\ cache[selected] = Selection!None)
    <3>1. /\ storage' \in {Selection!Fresh, [ready |-> TRUE, config |-> TRUE, error |-> Selection!None]}
          /\ fetches' = closed
      BY <2>1, <2>5, Zenon DEF Selection!Prefetch
    <3>2. storage'.error = Selection!None
      BY <3>1 DEF Selection!Fresh
    <3> QED  BY <2>1, <2>2, <2>3, <3>1, <3>2 DEF RequestsInv, RowsInv, Asked
  <2> QED  BY <2>4, <2>5
<1>8. CASE Selection!SubmitQuery \/ Selection!SubmitAudit
  <2>1. PICK project :
          /\ page = "query" => project = selected
          /\ query' = [state |-> "running", project |-> project, polls |-> MaxPolls]
          /\ result' = Selection!NoQuery
          /\ UNCHANGED <<selected, page, storage, fetches, settled>>
    BY <1>8 DEF Selection!SubmitQuery, Selection!SubmitAudit, Selection!Submit, Selection!QueryOnly
  <2>2. query'.project = project
    BY <2>1
  <2> QED  BY <2>1, <2>2 DEF RequestsInv, RowsInv, Asked
<1>9. CASE Selection!QueryEnds \/ Selection!Poll
  <2>1. /\ query # Selection!NoQuery /\ query'.project = query.project
        /\ UNCHANGED <<result, selected, page, storage, fetches, settled, moved>>
    BY <1>9 DEF Selection!QueryEnds, Selection!Poll, Selection!Same, Selection!QueryOnly,
                Selection!NoQuery, QueriesTyped, QueryType
  <2> QED  BY <2>1 DEF RequestsInv, RowsInv, Asked
<1>10. CASE Selection!ShowRows \/ Selection!ShowError
  <2>1. /\ result' = result \/ (query.state = "succeeded" /\ result' = query)
        /\ query' = Selection!NoQuery
        /\ UNCHANGED <<selected, page, storage, fetches, settled, moved>>
    BY <1>10 DEF Selection!ShowRows, Selection!ShowError, Selection!Same, Selection!QueryOnly
  <2> QED  BY <2>1 DEF RequestsInv, RowsInv, Asked
<1> QED
  BY <1>1, <1>2, <1>3, <1>4, <1>5, <1>6, <1>7, <1>8, <1>9, <1>10 DEF Selection!Next

\* However projects are switched, lists change and answers arrive late, what a
\* page shows is of the selected project, and that one is listed.
THEOREM PagesShowTheirProject == Selection!Spec => []PageIsOfProject
<1>1. Selection!Init => SelectionInv /\ RequestsInv /\ RowsInv
  BY DEF Selection!Init, SelectionInv, RequestsInv, RowsInv, Asked, Selection!SelectionIsListed
<1>2. SelectionInv /\ RequestsInv /\ RowsInv => PageIsOfProject
  BY DEF SelectionInv, RequestsInv, RowsInv, Asked, PageIsOfProject, Selection!PageIsOfProject,
         Selection!StorageIsOfProject, Selection!RowsAreOfProject
<1> QED
  BY <1>1, <1>2, SelectionStep, PagesStep, PagesTypeCorrect, PTL DEF Selection!Spec

-----------------------------------------------------------------------------
(* The parts of one browser *)

\* The browser behaves in each part as the part's own specification says, so
\* what is proved of a part holds of the browser.
THEOREM PartsOfTheBrowser == BrowserSpec => Spec /\ Sidebar!Spec /\ Selection!Spec
<1>1. PartInit => Init /\ Sidebar!Init /\ Selection!Init
  BY DEF PartInit
<1>2. ASSUME [PartNext]_<<part, signVars, listVars, wsVars>>
      PROVE  [Next]_signVars /\ [Sidebar!Next]_(Sidebar!vars) /\ [Selection!Next]_(Selection!wsVars)
  <2>1. UNCHANGED listVars => UNCHANGED Sidebar!vars
    BY DEF listVars, Sidebar!vars
  <2>2. UNCHANGED wsVars => UNCHANGED Selection!wsVars
    BY DEF wsVars, Selection!wsVars
  <2> QED  BY <1>2, <2>1, <2>2 DEF PartNext
<1> QED  BY <1>1, <1>2, PTL DEF BrowserSpec, Spec, Sidebar!Spec, Selection!Spec

\* The state of the whole browser is well typed.
THEOREM BrowserTypeCorrect == BrowserSpec => []BrowserTypeOK
  BY PartsOfTheBrowser, SignInTypeCorrect, ListTypeCorrect, PagesTypeCorrect, PTL DEF BrowserTypeOK
=============================================================================
