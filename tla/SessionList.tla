---------------------------- MODULE SessionList -----------------------------
(***************************************************************************)
(* The sidebar's list of sessions.  AppShell.tsx keeps it in SWR's cache    *)
(* of GET /api/sessions and changes the cache itself when the user sends   *)
(* the first message of a chat, deletes a session, or receives a title;    *)
(* meanwhile the chat agent and DELETE /api/sessions change the table.     *)
(***************************************************************************)
CONSTANTS
  Old,    \* sessions that exist when the page opens
  New     \* sessions that are started in this page

Sessions == Old \cup New

VARIABLES
  rows,     \* table sessions: "none", or the title of the row
  list,     \* the cache: "none", or the title of the item
  fetching, \* the one GET whose answer SWR would still take: "none", "sent", "read"
  answer,   \* what that GET has read
  dpc,      \* handleDeleteSession of each session
  chat,     \* the chat of each new session
  calm      \* history variable: no focus, no two deletions at a time so far

vars == <<rows, list, fetching, answer, dpc, chat, calm>>

Titles == {"none", "draft", "generated"}
NoSessions == [s \in Sessions |-> "none"]

Init ==
  /\ rows \in {r \in [Sessions -> Titles] : \A s \in Sessions : r[s] # "none" <=> s \in Old}
  /\ list = NoSessions
  /\ fetching = "sent"
  /\ answer = NoSessions
  /\ dpc = [s \in Sessions |-> "idle"]
  /\ chat = [s \in New |-> "idle"]
  /\ calm = TRUE

-----------------------------------------------------------------------------
(* SWR.  An answer is taken only if no later fetch was started and the cache   *)
(* was not mutated since its request, so one fetch at most matters.            *)

\* mutate(): a new fetch, whose answer supersedes every other one.
Revalidate == fetching' = "sent" /\ answer' = NoSessions

\* mutate(data, { revalidate: false }): what is being fetched is out of date.
Mutate(data) == list' = data /\ fetching' = "none" /\ answer' = NoSessions

\* The window gets the focus or the network is back; a running fetch may be
\* shared instead.
Focus ==
  /\ Revalidate
  /\ calm' = FALSE
  /\ UNCHANGED <<rows, list, dpc, chat>>

\* GET /api/sessions reads the table; when that fails, the fetcher returns [].
ServerReads ==
  /\ fetching = "sent"
  /\ fetching' = "read"
  /\ answer' \in {rows, NoSessions}
  /\ UNCHANGED <<rows, list, dpc, chat, calm>>

\* Mutant: the answer is kept after it was taken.
FetchEndsKeeping ==
  /\ fetching = "read"
  /\ list' = answer /\ fetching' = "none"
  /\ UNCHANGED <<rows, answer, dpc, chat, calm>>

\* The answer reaches the cache.  A request that is rejected is sent again.
FetchEnds ==
  /\ fetching = "read"
  /\ \/ list' = answer /\ fetching' = "none"
     \/ fetching' = "sent" /\ UNCHANGED list
  /\ answer' = NoSessions
  /\ UNCHANGED <<rows, dpc, chat, calm>>

-----------------------------------------------------------------------------
(* handleDeleteSession *)

\* Mutant: the default option, so that mutate fetches at once.
ClickDeleteRevalidating(s) ==
  /\ list[s] # "none" /\ dpc[s] = "idle"
  /\ dpc' = [dpc EXCEPT ![s] = "sent"]
  /\ list' = [list EXCEPT ![s] = "none"]
  /\ Revalidate
  /\ calm' = (calm /\ \A q \in Sessions : dpc[q] \in {"idle", "done"})
  /\ UNCHANGED <<rows, chat>>

\* The item is removed from the cache and DELETE is sent.
ClickDelete(s) ==
  /\ list[s] # "none" /\ dpc[s] = "idle"
  /\ dpc' = [dpc EXCEPT ![s] = "sent"]
  /\ Mutate([list EXCEPT ![s] = "none"])
  /\ calm' = (calm /\ \A q \in Sessions : dpc[q] \in {"idle", "done"})
  /\ UNCHANGED <<rows, chat>>

\* DELETE /api/sessions removes the row, or that fails and is only logged.
ServerDeletes(s) ==
  /\ dpc[s] = "sent"
  /\ dpc' = [dpc EXCEPT ![s] = "served"]
  /\ rows' \in {rows, [rows EXCEPT ![s] = "none"]}
  /\ UNCHANGED <<list, fetching, answer, chat, calm>>

\* Mutant: the list is not fetched again after the deletion.
DeleteEndsSilently(s) ==
  /\ dpc[s] \in {"sent", "served"}
  /\ dpc' = [dpc EXCEPT ![s] = "done"]
  /\ UNCHANGED <<rows, list, fetching, answer, chat, calm>>

\* The answer arrives or the request is rejected (then DELETE may not have been
\* served): either way the list is fetched again.
DeleteEnds(s) ==
  /\ dpc[s] \in {"sent", "served"}
  /\ dpc' = [dpc EXCEPT ![s] = "done"]
  /\ Revalidate
  /\ UNCHANGED <<rows, list, chat, calm>>

-----------------------------------------------------------------------------
(* A new chat: the page, the agent's row, and the title pushed at the end. *)

\* handleSessionStart: the item is put in front of the list.
SessionStart(s) ==
  /\ chat[s] = "idle"
  /\ chat' = [chat EXCEPT ![s] = "sent"]
  /\ Mutate([list EXCEPT ![s] = "draft"])
  /\ UNCHANGED <<rows, dpc, calm>>

\* The agent's hook inserts the row, or that fails.
RowInserted(s) ==
  /\ chat[s] = "sent"
  /\ chat' = [chat EXCEPT ![s] = "stored"]
  /\ rows' \in {rows, [rows EXCEPT ![s] = "draft"]}
  /\ UNCHANGED <<list, fetching, answer, dpc, calm>>

\* generateTitleAsync renames the row, if there is one.
RowRenamed(s) ==
  /\ rows[s] = "draft"
  /\ rows' = [rows EXCEPT ![s] = "generated"]
  /\ UNCHANGED <<list, fetching, answer, dpc, chat, calm>>

\* Mutant: the item is put into the list when it is missing.
TitleUpdateAdding(s) ==
  /\ chat[s] = "stored"
  /\ chat' = [chat EXCEPT ![s] = "titled"]
  /\ Mutate([list EXCEPT ![s] = "generated"])
  /\ UNCHANGED <<rows, dpc, calm>>

\* handleTitleUpdate, on the title_update event of the stream.
TitleUpdate(s) ==
  /\ chat[s] = "stored"
  /\ chat' = [chat EXCEPT ![s] = "titled"]
  /\ Mutate([list EXCEPT ![s] = IF @ = "none" THEN @ ELSE "generated"])
  /\ UNCHANGED <<rows, dpc, calm>>

-----------------------------------------------------------------------------
Fetching == ServerReads \/ FetchEnds
Deleting(s) == ClickDelete(s) \/ ServerDeletes(s) \/ DeleteEnds(s)
Chatting(s) == SessionStart(s) \/ RowInserted(s) \/ TitleUpdate(s)

Next ==
  \/ Focus \/ Fetching
  \/ \E s \in Sessions : Deleting(s) \/ RowRenamed(s)
  \/ \E s \in New : Chatting(s)

Spec == Init /\ [][Next]_vars

-----------------------------------------------------------------------------
TypeOK ==
  /\ rows \in [Sessions -> Titles]
  /\ list \in [Sessions -> Titles]
  /\ fetching \in {"none", "sent", "read"}
  /\ answer \in [Sessions -> Titles]
  /\ fetching # "read" => answer = NoSessions
  /\ dpc \in [Sessions -> {"idle", "sent", "served", "done"}]
  /\ chat \in [New -> {"idle", "sent", "stored", "titled"}]
  /\ calm \in BOOLEAN

\* "revalidate: false keeps polling from reviving it" (AppShell.tsx:35): once
\* removed from the list, a session does not come back while its DELETE is
\* under way.
StaysRemoved(s) ==
  dpc[s] \in {"sent", "served"} /\ list[s] = "none" => list'[s] = "none"
NoResurrection == [][\A s \in Sessions : StaysRemoved(s)]_vars

\* It holds while the window keeps the focus and deletions come one at a time,
\* whatever the first fetch, a new chat and its title do meanwhile.
NoResurrectionInCalm == [][calm => \A s \in Sessions : StaysRemoved(s)]_vars

\* "After the deletion, synchronise with the server" (AppShell.tsx:40): when no
\* deletion is under way and nothing is being fetched, the list does not show a
\* session that was deleted and has no row, although it may have come back
\* meanwhile.  (As long as no chat was started: a title that arrives in time
\* drops the fetch that removes a revived session.)
SettledDeletesAreGone ==
  /\ \A s \in New : chat[s] = "idle"
  /\ fetching = "none" /\ \A s \in Sessions : dpc[s] \in {"idle", "done"}
  => \A s \in Sessions : dpc[s] = "done" /\ rows[s] = "none" => list[s] = "none"

\* A session that has no row, that neither the list nor an answer on its way
\* holds, and whose agent is past the INSERT stays so: what is left of its
\* stream (the title) and of other fetches does not bring it back.
Vanished(s) ==
  /\ rows[s] = "none" /\ list[s] = "none" /\ answer[s] = "none"
  /\ s \in New => chat[s] \in {"stored", "titled"}
DeletedChatStaysGone == [][\A s \in Sessions : Vanished(s) => Vanished(s)']_vars
=============================================================================
