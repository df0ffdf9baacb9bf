------------------------------- MODULE Browser -------------------------------
(***************************************************************************)
(* What else one browser holds: the cookies of its tabs (SignIn), the list *)
(* of sessions (SessionList) and the selected project (Workspace).  A      *)
(* behaviour is one of `part`; these share no state, as far as they are    *)
(* modelled.                                                               *)
(***************************************************************************)
EXTENDS SignIn

CONSTANTS Old, New, Projects, MaxPolls

ASSUME SessionsAssumption == Old \cap New = {}
ASSUME PollsAssumption == MaxPolls \in Nat

VARIABLES
  part,
  rows, list, fetching, answer, dpc, chat, calm,
  stored, hydrated, selected, listed, answered, page, storage, fetches, cache, using, query,
  result, settled, moved

listVars == <<rows, list, fetching, answer, dpc, chat, calm>>
wsVars == <<stored, hydrated, selected, listed, answered, page, storage, fetches, cache, using,
            query, result, settled, moved>>

Sidebar == INSTANCE SessionList
Selection == INSTANCE Workspace WITH calm <- settled

\* A part that is not the one of the behaviour begins with one fixed input.
Begins(name, elsewhere) == part = name \/ elsewhere

PartInit ==
  /\ part \in {"list", "tokens", "pages"}
  /\ Init /\ Begins("tokens", member)
  /\ Sidebar!Init
  /\ Begins("list", rows = [s \in Old \cup New |-> IF s \in Old THEN "draft" ELSE "none"])
  /\ Selection!Init /\ Begins("pages", stored = Selection!None)

PartNext ==
  \/ part = "tokens" /\ Next /\ UNCHANGED <<part, listVars, wsVars>>
  \/ part = "list" /\ Sidebar!Next /\ UNCHANGED <<part, signVars, wsVars>>
  \/ part = "pages" /\ Selection!Next /\ UNCHANGED <<part, signVars, listVars>>

BrowserSpec == PartInit /\ [][PartNext]_<<part, signVars, listVars, wsVars>>

-----------------------------------------------------------------------------
\* The states of all parts have their types (see the modules).
BrowserTypeOK == TypeOK /\ Sidebar!TypeOK /\ Selection!TypeOK

\* A deleted session is gone once everything has settled (see SessionList).
SettledDeletesAreGone == Sidebar!SettledDeletesAreGone

\* No deleted session comes back while the window keeps the focus and deletions
\* come one at a time (see SessionList).
NoResurrectionInCalm == Sidebar!NoResurrectionInCalm

\* What is left of a deleted chat does not bring it back (see SessionList).
DeletedChatStaysGone == Sidebar!DeletedChatStaysGone

\* What the pages show belongs to the selected project (see Workspace).
PageIsOfProject == Selection!PageIsOfProject
=============================================================================
