------------------------------- MODULE Catalog --------------------------------
(***************************************************************************)
(* The data-catalog tool: catalog_search and catalog_list_subscriptions    *)
(* join two answers of DataZone that are asked for at the same time and    *)
(* taken at different moments, while the subscription tools of other calls *)
(* change the subscriptions of the project.  Each of these sends one       *)
(* request that changes something, so it is one step here.                 *)
(***************************************************************************)
EXTENDS Naturals, Sequences, FiniteSets

CONSTANTS
  Project,    \* x-sagemaker-project-id of the caller
  Listings,   \* the listings in the order of SearchListings: [type, owner, uri]
  Types,      \* inputs: entityType, "" if not given
  PageSize    \* maxResults, 50

VARIABLES
  subs,    \* DataZone: the project's subscription to each listing
  read,    \* the search or list being served, or the last one
  stage,   \* "idle", "waiting" or "done"
  items,   \* the answer of SearchListings: positions, or None
  granted, \* the answer of ListSubscriptions: positions, or None
  answer,  \* the entries that were answered
  ever,    \* history: subscriptions approved at some moment of the call
  always   \* history: subscriptions approved at every moment of the call

reading == <<read, stage, items, granted, answer>>
catVars == <<subs, reading, ever, always>>

\* A listing is known by its position; its subscription is named likewise.
Positions == DOMAIN Listings
Nothing == 0
None == {Nothing}
NoRead == [tool |-> "none", type |-> "", subscribedOnly |-> FALSE]
Reads == [tool : {"search", "list"}, type : Types, subscribedOnly : BOOLEAN]

Approved == {i \in Positions : subs[i] = "approved"}
Owned(i) == Listings[i].owner = Project
Place(i) == IF Listings[i].type = "s3" THEN Listings[i].uri ELSE ""

\* One listing, or two of one S3 location.
Same(i, j) == i = j \/ (Place(i) # "" /\ Place(i) = Place(j))

-----------------------------------------------------------------------------
Init ==
  /\ subs = [i \in Positions |-> "none"]
  /\ read = NoRead /\ stage = "idle" /\ items = None /\ granted = None /\ answer = {}
  /\ ever = {} /\ always = {}

\* The tools that change a subscription; history counts while a call waits.
Change(i, from, to) ==
  /\ subs[i] = from /\ subs' = [subs EXCEPT ![i] = to]
  /\ ever' = IF to = "approved" /\ stage = "waiting" THEN ever \cup {i} ELSE ever
  /\ always' = IF stage = "waiting" THEN always \ {i} ELSE always
  /\ UNCHANGED reading

Request(i) == Change(i, "none", "pending")
Approve(i) == Change(i, "pending", "approved")
Reject(i) == Change(i, "pending", "none")
Cancel(i) == Change(i, "approved", "none")
Revoke(i) == Change(i, "approved", "none")

-----------------------------------------------------------------------------
Ask ==
  /\ stage # "waiting"
  /\ read' \in Reads /\ stage' = "waiting"
  /\ items' = None /\ granted' = None /\ answer' = {}
  /\ ever' = Approved /\ always' = Approved
  /\ UNCHANGED subs

\* One page of the listings that match the text, of all of them for a list.
SearchReturns ==
  /\ stage = "waiting" /\ items = None
  /\ \E found \in SUBSET Positions :
       /\ Cardinality(found) <= PageSize
       /\ read.tool = "list" /\ Len(Listings) <= PageSize => found = Positions
       /\ items' = found
  /\ UNCHANGED <<subs, read, stage, granted, answer, ever, always>>

\* One page of the approved subscriptions of the project.
SubscriptionsReturn ==
  /\ stage = "waiting" /\ granted = None
  /\ \E page \in SUBSET Approved :
       /\ Cardinality(page) = IF Cardinality(Approved) <= PageSize THEN Cardinality(Approved) ELSE PageSize
       /\ granted' = page
  /\ UNCHANGED <<subs, read, stage, items, answer, ever, always>>

\* One of the two is rejected.
Fails ==
  /\ stage = "waiting"
  /\ stage' = "idle" /\ read' = NoRead /\ items' = None /\ granted' = None
  /\ UNCHANGED <<subs, answer, ever, always>>

\* The requested type, or any but the excluded ones.
TypeFits(i) ==
  IF read.type # "" THEN Listings[i].type = read.type ELSE Listings[i].type # "model"

\* subscribedListingMap, or else subscribedS3UriMap.
SubscriptionTo(i) ==
  LET placed == {j \in granted : Same(i, j)}
  IN  IF i \in granted THEN i ELSE IF placed # {} THEN CHOOSE j \in placed : TRUE ELSE Nothing

Entry(i, subscribed, id, uri) == [at |-> i, subscribed |-> subscribed, id |-> id, uri |-> uri]

SearchEntries ==
  {Entry(i, Owned(i) \/ SubscriptionTo(i) # Nothing, SubscriptionTo(i), Place(i)) :
     i \in {j \in items : TypeFits(j)}}

\* The subscriptions, without their locations, and owned listings not among them.
ListEntries ==
  {Entry(i, TRUE, i, "") : i \in {j \in granted : TypeFits(j)}}
  \cup {Entry(i, TRUE, Nothing, Place(i)) : i \in {j \in items \ granted : Owned(j) /\ TypeFits(j)}}

First(entries) == CHOOSE e \in entries : \A f \in entries : e.at <= f.at

\* Mutant: the first entry of a location stays, subscribed or not.
DedupeFirst(entries) ==
  {e \in entries : e.uri = "" \/ e = First({f \in entries : f.uri = e.uri})}

\* dedupeS3Assets: of the entries of a location the first subscribed one stays, or
\* the first; entries whose location is not known stay.
Dedupe(entries) ==
  LET kept(group) ==
        IF \E e \in group : e.subscribed THEN First({e \in group : e.subscribed}) ELSE First(group)
  IN  {e \in entries : e.uri = "" \/ e = kept({f \in entries : f.uri = e.uri})}

Respond ==
  /\ stage = "waiting" /\ items # None /\ granted # None
  /\ LET all == Dedupe(IF read.tool = "search" THEN SearchEntries ELSE ListEntries)
     IN  answer' = IF read.tool = "search" /\ read.subscribedOnly
                   THEN {e \in all : e.subscribed} ELSE all
  /\ stage' = "done"
  /\ UNCHANGED <<subs, read, items, granted, ever, always>>

Next ==
  \/ \E i \in Positions : Request(i) \/ Approve(i) \/ Reject(i) \/ Cancel(i) \/ Revoke(i)
  \/ Ask \/ SearchReturns \/ SubscriptionsReturn \/ Fails \/ Respond

Spec == Init /\ [][Next]_catVars

-----------------------------------------------------------------------------
\* Whatever is approved, cancelled or revoked meanwhile: an entry that is called
\* subscribed was owned, or subscribed at some moment of the call by the id that
\* it gives; one that is not called so was not subscribed all the time, unless
\* the project has more subscriptions than a page.
FlagsAreTrue ==
  stage = "done" =>
    \A e \in answer :
      /\ e.subscribed => Owned(e.at) \/ (e.id \in ever /\ Same(e.id, e.at))
      /\ ~e.subscribed /\ Cardinality(ever) <= PageSize =>
           ~Owned(e.at) /\ \A i \in always : ~Same(i, e.at)

\* A search shows each S3 location once, and by a subscribed entry if it found one
\* in the location.  (A list does not know the locations of its subscriptions, so
\* it shows one twice that the project owns and has subscribed to.)
LocationsOnce ==
  stage = "done" /\ read.tool = "search" =>
    \A e \in answer : Place(e.at) # "" =>
      /\ \A f \in answer : Place(f.at) = Place(e.at) => f = e
      /\ ~e.subscribed => ~\E i \in items : Place(i) = Place(e.at) /\ TypeFits(i) /\ Owned(i)
=============================================================================
