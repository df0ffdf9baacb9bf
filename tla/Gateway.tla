------------------------------- MODULE Gateway -------------------------------
(***************************************************************************)
(* What is behind the gateway: the custom resource of the policy engine    *)
(* (PolicyEngine) and the Lambdas of the tools.  They share no state, so a *)
(* behaviour is one of `part`, and the other parts stay where they are.    *)
(***************************************************************************)
EXTENDS PolicyEngine, Integers, Sequences

CONSTANTS
  Projects, Environments, Sees, ConnectionLists, Grants, Calls, QueryMinutes,   \* DataAccess
  Margin, Timeout, Fallback, Life, TTL,
  Project, AssetListings, Types, PageSize,                                      \* Catalog
  MaxColumns, ChunkSize, MaxConcurrent,                                         \* CatalogDetail
  MonthDays, RowSets, Freqs, Horizons, FillPolicies,                            \* Forecast
  MaxSeries, PageRows, MinObservations, MaxContext, MaxHorizon

\* S3 URIs are taken apart into a bucket and a path.
Connections == [bucket : STRING, prefix : Seq(STRING), role : BOOLEAN, account : STRING]
CallTypes ==
  [tool : {"athena_query", "cloudtrail_query", "s3_read", "s3_list"}, project : Projects,
   token : STRING, uri : BOOLEAN, bucket : STRING, path : Seq(STRING)]

ASSUME ConnectionsAssumption ==
  ConnectionLists \subseteq Seq(Connections) /\ Sees \in [Projects -> Seq(Projects)]
ASSUME GrantsAssumption ==
  Grants \in [Projects -> SUBSET [bucket : STRING, prefix : Seq(STRING), account : STRING]]
ASSUME CallsAssumption == Calls \subseteq CallTypes /\ QueryMinutes \in Nat

\* Credentials are issued for more than the minute that is kept as a margin, and for
\* no less than the code takes for granted when it is not told.
ASSUME TimesAssumption ==
  /\ Margin \in Nat /\ Timeout \in Nat /\ Fallback \in Nat /\ Life \in Nat /\ TTL \in Nat \ {0}
  /\ Margin < Life /\ Fallback <= Life

ASSUME ListingsAssumption ==
  AssetListings \in Seq([type : STRING, owner : STRING, uri : STRING]) /\ PageSize \in Nat
ASSUME ChunksAssumption ==
  MaxColumns \in Nat /\ ChunkSize \in Nat \ {0} /\ MaxConcurrent \in Nat \ {0}

VARIABLES
  part,
  conns, quiet, credsCache, projectCache, domainCache, call, toolPc, age, since, creds, found,
  target, query, answer,
  subs, read, stage, items, granted, entries, ever, always,
  subject, step, fetched, shown, unavailable,
  event, response

toolVars == <<conns, quiet, credsCache, projectCache, domainCache, call, toolPc, age, since, creds,
              found, target, query, answer>>
catalogVars == <<subs, read, stage, items, granted, entries, ever, always>>
columnVars == <<subject, step, fetched, shown, unavailable>>
seriesVars == <<event, response>>

Data == INSTANCE DataAccess WITH
  pc <- toolPc, Listings <- ConnectionLists, MaxPolls <- QueryMinutes
Assets == INSTANCE Catalog WITH Listings <- AssetListings, answer <- entries
Columns == INSTANCE CatalogDetail
Series == INSTANCE Forecast WITH Policies <- FillPolicies

\* The calendar goes on for a step, and a month, after the last row: the code's has no end.
ASSUME CalendarAssumption ==
  /\ MonthDays \in Seq(28 .. 31)
  /\ Freqs \subseteq [unit : {"D", "M", "Q"}, n : Nat]
  /\ RowSets \subseteq Seq([ts : Nat \cup {Series!Unreadable}, y : Int, item : STRING])
  /\ \A freq \in Freqs : freq.unit # "D" =>
       /\ Series!Months(freq) < Len(MonthDays)
       /\ \A rows \in RowSets : \A i \in DOMAIN rows :
            rows[i].ts < Series!FirstDay[Len(MonthDays) - Series!Months(freq)]

\* Two observations are no series: MIN_OBSERVATIONS is 5.
ASSUME LimitsAssumption ==
  /\ MinObservations \in Nat /\ MinObservations > 2
  /\ PageRows \in Nat /\ MaxContext \in Nat

-----------------------------------------------------------------------------
\* A part that is not the one of the behaviour begins with one fixed input.
Begins(name, elsewhere) == part = name \/ elsewhere
Some(S) == CHOOSE x \in S : TRUE
SomeEvent == Some(Series!Events)

PartInit ==
  /\ part \in {"policy", "data", "catalog", "columns", "series"}
  /\ Init
  /\ Begins("data", call = Some(Calls) /\ conns = [p \in Projects |-> Some(ConnectionLists)])
  /\ Data!Init
  /\ Assets!Init
  /\ Begins("columns", subject = Some(Columns!Subjects)) /\ Columns!Init
  /\ Begins("series", event = SomeEvent) /\ Series!Init

OnlyPolicy == part = "policy" /\ UNCHANGED <<part, toolVars, catalogVars, columnVars, seriesVars>>

PartNext ==
  \/ OnlyPolicy /\ Next
  \/ part = "data" /\ Data!Next /\ UNCHANGED <<part, vars, catalogVars, columnVars, seriesVars>>
  \/ part = "catalog" /\ Assets!Next /\ UNCHANGED <<part, vars, toolVars, columnVars, seriesVars>>
  \/ part = "columns" /\ Columns!Next /\ UNCHANGED <<part, vars, toolVars, catalogVars, seriesVars>>
  \/ part = "series" /\ Series!Next /\ UNCHANGED <<part, vars, toolVars, catalogVars, columnVars>>

partVars == <<part, vars, toolVars, catalogVars, columnVars, seriesVars>>

GatewaySpec == PartInit /\ [][PartNext]_partVars /\ WF_partVars(OnlyPolicy /\ Handler)

-----------------------------------------------------------------------------
\* A call of a data tool uses credentials of its own project and token that are
\* valid (data-access/index.ts; see DataAccess).
UsesOwnCredentials == Data!UsesOwnCredentials

\* A relative path comes to the object that today's connections name (see DataAccess).
ResolvesAsListed == Data!ResolvesAsListed

\* Access is refused only where nothing is granted (see DataAccess).
GrantedIsReadable == Data!GrantedIsReadable

\* An answer of catalog_search or catalog_list_subscriptions tells the truth about
\* what is subscribed, and a search shows each location once (see Catalog).
AnswerIsTrue == Assets!FlagsAreTrue /\ Assets!LocationsOnce

\* A detail has or reports everything (see CatalogDetail).
DetailAccountsForAll == Columns!DetailAccountsForAll

\* Series and predictions lie on the calendar (see Forecast).
SeriesFollowsCalendar == Series!SeriesFollowsCalendar
=============================================================================
