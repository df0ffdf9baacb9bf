------------------------------- MODULE Workspace -------------------------------
(***************************************************************************)
(* One tab of the web application around the selected project: the store   *)
(* that persists the selection, AppShell that resets one that is not       *)
(* listed, and the storage, query and audit pages, which go on with the    *)
(* answers to what they asked for when another project was selected.       *)
(***************************************************************************)
EXTENDS Naturals

CONSTANTS
  Projects,
  MaxPolls   \* polls of a query: 60 of Athena, 55 of CloudTrail Lake

VARIABLES
  stored,    \* localStorage: the persisted projectId
  hydrated,  \* the store has read it
  selected,  \* projectId
  listed,    \* the answer of /api/projects, {} if it was an error
  answered,  \* there is one
  page,      \* the page that is open
  storage,   \* its state if it is the storage page: ready, config, credError
  fetches,   \* requests to /api/s3-credentials: project, and whether its page is open
  cache,     \* credentialsCache: whose credentials each entry holds
  using,     \* whose credentials the displayed browser has got
  query,     \* the query that the open page awaits
  result,    \* the query whose rows the page shows
  calm,      \* history: no other project was selected while the page awaited credentials
  moved      \* history: another project was selected since the query was submitted

wsVars == <<stored, hydrated, selected, listed, answered, page, storage, fetches, cache,
            using, query, result, calm, moved>>

None == "none"
Fresh == [ready |-> FALSE, config |-> FALSE, error |-> None]
NoQuery == [state |-> "none", project |-> None, polls |-> 0]
Queries == {"query", "audit"}

Init ==
  /\ stored \in Projects \cup {None} /\ hydrated = FALSE /\ selected = None
  /\ listed = {} /\ answered = FALSE
  /\ page = "chat" /\ storage = Fresh /\ fetches = {}
  /\ cache = [p \in Projects |-> None] /\ using = None
  /\ query = NoQuery /\ result = NoQuery /\ calm = TRUE /\ moved = FALSE

-----------------------------------------------------------------------------
(* StorageBrowserInterface *)

\* The credentials that the route returns for a project, put into the cache.
Put(p) == [cache EXCEPT ![p] = p]

\* The effect for a project: with cached credentials it is ready before anything
\* else happens, else it asks the route.
Prefetch(p, before, asked) ==
  IF p = None THEN storage' = before /\ fetches' = asked
  ELSE IF cache[p] # None
  THEN storage' = [ready |-> TRUE, config |-> TRUE, error |-> None] /\ fetches' = asked
  ELSE /\ storage' = [before EXCEPT !.ready = FALSE, !.error = None]
       /\ fetches' = asked \cup {[project |-> p, open |-> TRUE]}

\* The answer, or one of several for this project, arrives: it counts for the
\* page although another project may be selected by now.
FetchReturns ==
  \E f \in fetches :
    /\ fetches' \in {fetches, fetches \ {f}}
    /\ \/ cache' = Put(f.project)
          /\ storage' = IF f.open THEN [storage EXCEPT !.ready = TRUE, !.config = TRUE] ELSE storage
       \/ /\ storage' = IF f.open THEN [storage EXCEPT !.error = f.project] ELSE storage
          /\ UNCHANGED cache
    /\ UNCHANGED <<stored, hydrated, selected, listed, answered, page, using, query, result, calm,
                   moved>>

\* Five minutes before the credentials expire the entry does not count any more.
Expires ==
  /\ \E p \in Projects : cache[p] # None /\ cache' = [cache EXCEPT ![p] = None]
  /\ UNCHANGED <<stored, hydrated, selected, listed, answered, page, storage, fetches, using,
                 query, result, calm, moved>>

Displayed ==
  page = "storage" /\ selected # None /\ storage.error = None /\ storage.ready /\ storage.config

\* Mutant: the provider takes the first credentials there are.
AnyCached == IF \E p \in Projects : cache[p] # None
             THEN CHOOSE p \in Projects : cache[p] # None ELSE None

\* The entry that credentialsProvider looks at.
Cached == cache[selected]

\* credentialsProvider of the browser, from the cache or after a request.
ProviderAsks ==
  /\ Displayed
  /\ \/ Cached # None /\ using' = Cached /\ UNCHANGED cache
     \/ Cached = None /\ cache' = Put(selected) /\ using' = selected
  /\ UNCHANGED <<stored, hydrated, selected, listed, answered, page, storage, fetches, query,
                 result, calm, moved>>

-----------------------------------------------------------------------------
(* The store and AppShell *)

\* setProjectId and what depends on it.
Becomes(p) ==
  /\ selected' = p
  /\ IF page = "storage" /\ p # selected THEN Prefetch(p, storage, fetches)
     ELSE UNCHANGED <<storage, fetches>>
  /\ using' = IF p # selected THEN None ELSE using
  /\ calm' = (calm /\ (p = selected \/ ~\E f \in fetches : f.open))
  /\ moved' = (moved \/ p # selected)
  /\ UNCHANGED <<page, cache, query, result>>

\* Mutant: only an empty list resets the selection.
ResetIfEmpty(p, list, known) == IF known /\ list = {} THEN None ELSE p

\* AppShell's effect: a selection that is not listed is reset.
Reset(p, list, known) == IF known /\ p \notin list THEN None ELSE p

\* A reset is persisted, too.
Rehydrate ==
  /\ ~hydrated /\ hydrated' = TRUE
  /\ Becomes(Reset(stored, listed, answered))
  /\ stored' = Reset(stored, listed, answered)
  /\ UNCHANGED <<listed, answered>>

\* /api/projects answers, at first or after a focus; the fetcher makes [] of an error.
ProjectsReturn ==
  /\ answered' = TRUE /\ listed' \in SUBSET Projects
  /\ Becomes(Reset(selected, listed', TRUE))
  /\ stored' = IF selected # None /\ selected \notin listed' THEN None ELSE stored
  /\ UNCHANGED hydrated

\* ProjectSelector
Choose(p) ==
  /\ answered /\ p \in listed
  /\ Becomes(p) /\ stored' = p
  /\ UNCHANGED <<hydrated, listed, answered>>

\* Another page is mounted, the answers to the one before are dropped.
Open ==
  /\ \E next \in {"chat", "storage", "query", "audit"} :
       /\ page' = next /\ next # page
       /\ LET closed == {[f EXCEPT !.open = FALSE] : f \in fetches}
          IN  Prefetch(IF next = "storage" THEN selected ELSE None, Fresh, closed)
  /\ using' = None /\ query' = NoQuery /\ result' = NoQuery /\ calm' = TRUE
  /\ moved' = FALSE
  /\ UNCHANGED <<stored, hydrated, selected, listed, answered, cache>>

-----------------------------------------------------------------------------
(* QueryInterface with /api/query, CloudTrailQueryInterface with              *)
(* /api/cloudtrail-query                                                      *)

QueryOnly ==
  UNCHANGED <<stored, hydrated, selected, listed, answered, page, storage, fetches, cache, using, calm>>
Same == UNCHANGED moved /\ QueryOnly

\* handleSubmit, while none is awaited.
Submit(project) ==
  /\ query = NoQuery
  /\ query' = [state |-> "running", project |-> project, polls |-> MaxPolls]
  /\ result' = NoQuery /\ moved' = FALSE
  /\ QueryOnly

\* /api/query has the credentials of the project and starts its query.
SubmitQuery == page = "query" /\ selected # None /\ Submit(selected)

\* /api/cloudtrail-query has found the user in the auditors' group.
SubmitAudit == page = "audit" /\ Submit(None)

QueryEnds ==
  /\ query.state = "running"
  /\ \E s \in {"succeeded", "failed"} : query' = [query EXCEPT !.state = s]
  /\ UNCHANGED result /\ Same

\* waitForCompletion: a look at the query and a second of sleep.
Poll ==
  /\ query.state = "running" /\ query.polls > 0
  /\ query' = [query EXCEPT !.polls = @ - 1]
  /\ UNCHANGED result /\ Same

\* getResults, and the answer of the route.
ShowRows ==
  /\ query.state = "succeeded" /\ query.polls > 0
  /\ result' = query /\ query' = NoQuery
  /\ Same

\* The query failed, the last poll is over, or any call was rejected.
ShowError ==
  /\ query # NoQuery
  /\ query' = NoQuery
  /\ UNCHANGED result /\ Same

Next ==
  \/ FetchReturns \/ Expires \/ ProviderAsks
  \/ Rehydrate \/ ProjectsReturn \/ (\E p \in Projects : Choose(p)) \/ Open
  \/ SubmitQuery \/ SubmitAudit \/ QueryEnds \/ Poll \/ ShowRows \/ ShowError

Spec == Init /\ [][Next]_wsVars

-----------------------------------------------------------------------------
TypeOK ==
  /\ stored \in Projects \cup {None} /\ selected \in Projects \cup {None}
  /\ listed \subseteq Projects /\ {hydrated, answered, calm, moved} \subseteq BOOLEAN
  /\ page \in {"chat", "storage"} \cup Queries
  /\ storage \in [ready : BOOLEAN, config : BOOLEAN, error : Projects \cup {None}]
  /\ fetches \subseteq [project : Projects, open : BOOLEAN]
  /\ cache \in [Projects -> Projects \cup {None}] /\ using \in Projects \cup {None}

\* The selection is one of the listed projects as soon as these are known, in
\* whatever order the persisted one and the list arrive and change.
SelectionIsListed == answered => selected \in listed \cup {None}

\* However projects are switched while credentials are asked for: the storage
\* browser works with those of the selected project; and unless one was
\* switched while the page awaited an answer, an error that it shows is of that
\* project (else the late error of another one hides the browser of this one).
StorageIsOfProject ==
  /\ Displayed => using \in {None, selected}
  /\ calm /\ page = "storage" /\ selected # None => storage.error \in {None, selected}

\* The rows that the query page shows are those of a query that succeeded, for
\* the selected project if none was selected since it was submitted.
RowsAreOfProject ==
  result # NoQuery =>
    /\ result.state = "succeeded"
    /\ page = "query" /\ ~moved => result.project = selected

\* What a page shows belongs to the selected project, and that is a listed one.
PageIsOfProject == SelectionIsListed /\ StorageIsOfProject /\ RowsAreOfProject
=============================================================================
