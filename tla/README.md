# Formal models of the SageMaker agentic analyst sample

TLA+ specifications of the run-time logic of this repository, the TLC runs that
check them on small instances, and TLAPS proofs that hold for every instance.
Paths below are relative to the repository root.

## 1. The system

The program is a chat over the data of a SageMaker Unified Studio project.

| Component | Code | State it keeps | Operations |
|---|---|---|---|
| Chat agent | `apps/chat-agent/src/index.ts` | none between requests; one hook, one agent and one image buffer per request | `POST /invocations`: load history, exchange the id token, stream the model's answer, store images, push a title |
| Session persistence | `apps/chat-agent/src/session/*` | AgentCore Memory (events), DSQL table `sessions` (one row per session), in the hook `isFirstUserMessage` and `userMessageCount` | store each message as it is added, insert or touch the row, start a title task |
| Sessions API | `apps/webapp/src/app/api/sessions/**` | the same two stores | list rows, delete a row and (in the background) the events, read events |
| Session list | `apps/webapp/src/app/(app)/AppShell.tsx`, `Sidebar.tsx` | SWR's cache of the rows | optimistic add, rename and delete, revalidation |
| Chat page | `apps/webapp/src/app/(root)/components/ChatInterface.tsx` | messages, fading texts, flags for loading and streaming | load history, send, consume the SSE stream |
| Project selection | `stores/project-store.ts`, `api/projects`, `AppShell.tsx`, `StorageBrowserInterface.tsx`, `QueryInterface.tsx`, `CloudTrailQueryInterface.tsx` | selected project (in local storage too), credentials per project, the awaited query | select, restore, reset; browse, query and audit as the selected project |
| Code interpreter tool | `apps/chat-agent/src/code-interpreter-tool.ts` | map from conversation to interpreter session, TTL timers | get or create, execute, stop |
| Gateway tools | `apps/gateway-tools/**`, `packages/datazone-auth` | per Lambda container: credentials of the last environment and token, S3 connections of projects and of the domain | run Athena and CloudTrail queries, read S3, forecast, search the catalog and change subscriptions |
| Web application API | `api/query`, `api/cloudtrail-query`, `api/s3-credentials`, `api/cognito-token` | none | start and poll queries, hand out credentials, renew the ID token |
| Authentication | `api/auth/**`, `api/sign-out-cleanup`, `proxy.ts`, `cdk/lib/constructs/auth` | cookies (state and PKCE verifier, tokens), shared by the tabs of a browser | sign in, call back, sign out, refresh; groups become a claim of each token |
| Database migration | `packages/db/src/migrate.ts`, `dsql-compat.ts` | DSQL schema, table `_migrations` | apply the files of `migrations/`, transform and validate SQL |
| Policy engine resource | `apps/cdk/lib/constructs/agentcore-policy/*` | AgentCore policy engine and its policies | create, update, delete with waiting |
| Infrastructure, UI components, prompt, sample data | `apps/cdk/**`, `components/ui/**`, ... | - | - |

How they interact.  The browser calls the agent directly (SSE) and the web
application's API (fetch); both write the two session stores, without a
transaction that spans them and without any lock.  The agent calls the gateway
tools through MCP with an access token it obtains once per request.  The
migration runs from a CDK trigger at every deployment and from a CLI.

What is hard:

- *Interleaving.*  Two requests of one session (a retry, two tabs) each decide
  from their own snapshot of the history; a delete and a title task that nothing
  waits for run beside them; two migration runs may overlap.
- *Partial failure.*  Nearly every call of the persistence code is "best effort":
  a failed CreateEvent, INSERT or UPDATE is logged and the request goes on.
- *Crashes.*  The agent's container, the web application's Lambda (which is frozen
  after the answer) and the migration's Lambda may stop between any two calls.
- *Tokens that count once.*  The identity center accepts an ID token once, every route
  may renew the tokens, and all of them put theirs back into the same cookies.
- *Stale answers.*  Caches of credentials and connections, answers of two calls joined
  after they were taken at different moments, answers for a project that is no longer
  selected, listings of a service that lag behind its state.
- *Waits that give up.*  Queries and policies are polled a counted number of times inside
  Lambdas with a limit of their own.
- *Windows and counters.*  The history is cut to the last 40 messages and the
  title counter is recomputed from it.

## 2. Modules

| Module | Models | Kind |
|---|---|---|
| `SessionPersistence` | chat agent's handler and hook, title task, `DELETE /api/sessions` | component |
| `SessionPersistenceProofs` | theorems about it | proofs |
| `MCSession`, `MCTitle` | instances for TLC | model checking |
| `MigrationLog` | what applying migrations promises | abstract specification |
| `Migrate` | `migrate()` on Aurora DSQL | component |
| `MigrateProofs` | theorems about it, refinement included | proofs |
| `MCMigrate` | instances for TLC | model checking |
| `ChatStream` | the chat page and the event stream of the agent | component |
| `ChatStreamProofs` | theorems about it | proofs |
| `MCChat` | instances for TLC | model checking |
| `SessionList` | the sidebar's list of sessions | component |
| `CodeInterpreter` | the code interpreter tool of one conversation | component |
| `CodeInterpreterProofs` | theorems about it | proofs |
| `SignIn` | cookies and tokens of a browser's tabs, the routes that renew and exchange them, the pre-token trigger | component |
| `SignInProofs` | theorems about it | proofs |
| `Workspace` | the selected project and the storage, query and audit pages | component |
| `Browser` | `SessionList`, `SignIn` and `Workspace` in one browser | composition |
| `BrowserProofs` | theorems about them | proofs |
| `MCBrowser` | an instance for TLC | model checking |
| `PolicyEngine` | the custom resource of the policy engine | component |
| `PolicyEngineProofs` | theorems about it | proofs |
| `DataAccess` | the tools that query and read data, with their caches | component |
| `Catalog` | search, list and the subscription tools of data-catalog | component |
| `CatalogDetail` | detail and definition of data-catalog | component |
| `Forecast` | time-series-forecast between its query and its answer | component, pure algorithms |
| `Gateway` | the last five components behind the gateway | composition |
| `GatewayProofs` | theorems about the tools | proofs |
| `MCGateway` | an instance for TLC | model checking |

The modules meet at their borders: `SessionPersistence` is one request up to the
storage, `ChatStream` the same request up to the screen, `SessionList` sees of both
only the row, the deletion and the title.  What one of them abstracts is an action
with a free outcome in the other (`RowInserted` succeeds or not; `WriteTail` sends a
title or not).  `SignIn` hands the chat agent its ID token and ends with the exchange;
`DataAccess` begins with the access token that came of one (`call.token`).

`Browser` and `Gateway` each put several components that share no state into one
specification: the variable `part` says which of them a behaviour is about, and the others
stay in one initial state.  `SignIn` and `PolicyEngine` are extended, the others instantiated by
name (`Sidebar`, `Selection`, `Data`, `Assets`, `Columns`, `Series`), so the properties of a run are short
definitions that name those of the component.  Both declare what their parts assume of the
constants; `MCBrowser` and `MCGateway` only give the constants their values.
`PartsOfTheBrowser` and `PartsOfTheGateway` prove that nothing is lost by this: each part
behaves as its own specification says.

### SessionPersistence

State and code:

| Variable | Code |
|---|---|
| `row` | the row of table `sessions` (`schema.ts`): absent, titled from the message text, or titled by the model |
| `events`, `clock` | the events of AgentCore Memory, ordered by `eventTimestamp` |
| `titles` | requests whose `generateTitleAsync` is running |
| `pc`, `sess`, `first`, `count`, `msg`, `rounds` | one `POST /invocations`: where its handler waits, its session, the hook's `isFirstUserMessage` and `userMessageCount`, the message being added, the rounds of tool use so far |
| `dpc`, `dsess`, `ids` | one `DELETE /api/sessions`: where it is, its session, the event ids it collected |
| `excuse`, `gone`, `horizon`, `clean` | history variables read by properties only |

There is one action for each awaited call, so requests interleave exactly where
the code awaits.  `MessageAdded` covers `onMessageAdded` up to its first query: the
counter is incremented and the flag cleared *before* the INSERT is sent, which is
what makes a failed INSERT permanent.  `InsertRow`, `InsertRowFails` and `TouchRow`
are the two queries, and each ends with `StartTitle`, the last lines of the
callback.  A call that fails although it had its effect looks to the rest of the
system like a success whose error is logged, so it needs no action of its own.
`Finish` is the tail of the handler with the images, `StreamFails` and
`LoadHistoryFails` are its catch block.  `Crash` stops a container with all
requests and title tasks of its session (AgentCore runs one container per session).
`DeleteRow` is the synchronous part of DELETE, `ListPage`, `ListDone`, `EraseEvent`
and `EraseDone` its background task, and `BackgroundLost` the end of a task whose
process is reclaimed or whose listing throws.

A message is abstracted to its role and to whether `payloadToMessage` restores it
from Memory ("text") or drops it ("other": only tool use, tool results, images or
blanks).  Tool results are messages of role user, as in the Strands SDK.

### Migrate and MigrationLog

A statement is abstracted to what executing it a second time does: `create` fails
with "already exists", `once` fails otherwise (DROP, RENAME), `repeat` succeeds
again, `bad` is refused by `validateStatement`.  Each run of `migrate()` has a
program counter, a file and a position.  Execution, recording and the crash are
separate actions because each is a transaction of its own.  TypeScript migrations
(`ts`) have neither the validation nor the "already exists" rule.
`MigrationLog` is the promise: statements take effect in order, a file is logged
only when all of it has taken effect.  `Migrate` implements it under
`applied <- Applied`, `logged <- recorded`.

### ChatStream

One send is one call of `sendMessage` and one `POST /invocations`.

| Variable | Code |
|---|---|
| `apc`, `sent`, `rounds` | the agent's handler: what it writes next, how many deltas and tool rounds so far |
| `wire`, `cut`, `lines` | lines on their way, whether the beginning of the first is in `buffer`, lines of the current `read()` |
| `pc` | where `sendMessage` waits |
| `bubble` | the assistant message: `content`, `fadingTexts`, `steps`, the number of images |
| `shown`, `restored` | what `messages` holds |
| `loading`, `streaming` | `isLoadingHistory`, `isStreaming` |
| `stamp`, `timers` | the last `Date.now()` used as an id, the pending timeouts |
| `got` | history variable: deltas processed |
| `dropped` | history variable: the history's answer has replaced a running request's messages |

A delta is its number in the stream, so a bubble holds sets of numbers and losing or
repeating text is visible without strings.  The page is one thread: while lines of a
read are left (`Busy`) no timer, click or answer runs.  `Read` takes any number of
lines, the last one perhaps in half, which is every way in which the network can cut
the stream.  `ToolUseLine` takes the next millisecond or stays in the current one,
the latter only while the timer of the earlier stop is pending.  `fadingTexts` is a set:
that `find` takes the first of two entries with one id is `First`, since later entries
hold later deltas.  `Send` has the guards
of the keyboard and of the suggestions, which are weaker than the button's.
A `POST` whose answer is not an event stream does not occur with the page's `Accept`
header and is left out.

### SessionList

`rows` is the table, `list` SWR's cache, `fetching` and `answer` the one `GET` whose
answer SWR would still take, `dpc` each `handleDeleteSession`, `chat` each new chat.
SWR is external and modelled by its documented contract: an answer is dropped when a
later fetch was started or the cache was mutated since the request, so one fetch at
most matters; `mutate(data, { revalidate: false })` therefore discards what is being
fetched, and `mutate()` starts again.  The fetcher turns an error of the server into an
empty list (`AppShell.tsx:11`), which `ServerReads` does too.  Each session is sent to
once; later messages change the row's time only.

### CodeInterpreter

`mapped` is the conversation's entry of `sessionMap`, `timer` the timeouts, `pc`,
`sessionId` and `image` each call of the callback, `service` and `file` the interpreter
sessions and the chart in their working directory.  A session is named by the call
that starts it.  Creating a session is two actions, as the service's timeout runs
from the start and the timer from the answer.  `ExecuteFails` leaves the entry, as the
code does, so a session that ended early is met again until its timer fires.
Conversations share nothing but the process; `Crash` ends it.

### SignIn

`cookie` stands for the two cookies of an attempt and holds the tab that set them,
`token` for the token cookies, `at` for where each tab is, `req` for the requests under
way.  A token is its number and whether it claims the group.  `SignIn`, `Callback`
(with Amplify's handler, which is external), `AuthCallback`, `SignOut` and `Cleanup`
are the routes and pages of these names; `FromPortal` and `CookieExpires` are the two
reasons for the retry of `sign-in-callback`.  A request is `Send`, `GetSession`
(`fetchAuthSession`, forced for the kinds in `Forced`), `ExchangeForQuery` or
`ExchangeForChat` (`CreateTokenWithIAM`) and `Respond`, whose answer sets the cookies.
The claim of a new token is that of the trigger: the group if the user is a member
and was found, none otherwise.

### Workspace

One tab.  `stored`, `hydrated`, `selected` are the store, `listed` and `answered` SWR's
answer of `/api/projects`.  Each change of the selection (`Becomes`) runs the effects
that depend on it at once: the page's prefetch of credentials, and the reset by
`AppShell`.  `storage` is the state of `StorageBrowserInterface`, `fetches` its requests
to `/api/s3-credentials`, `cache` its `credentialsCache`.  A query is submitted for the
project of that moment, polled a counted number of times and shown or reported; the
two routes differ in whose query it is (`SubmitQuery`, `SubmitAudit`).

### PolicyEngine

The handler is a program counter over its awaited calls: `CreateEngine`,
`WaitEngineActive`, `Associate` (onCreate); `ListAll`, `DeletePolicy`, `AllSent`,
`WaitDeleted`, `AllDeleted`, `Skip`, `UpdatePolicy`, `CreatePolicy`, `Adopt`,
`WaitActive` (syncPolicies and getOrCreatePolicy); `Disassociate` and `DropEngine`
(onDelete).  The service has statuses that change by themselves (`EngineSettles`,
`PolicySettles`) and a listing that may miss the names in `lag` until `CatchesUp`.
`Fails` ends a request at any call: rejected, or the Lambda at its five minutes.
CloudFormation sends the next request only afterwards (`Submit...`); `GatewayAlone` is
an update of the gateway whose rollback does not reach this resource.  Names and
statements of policies are values.

### DataAccess

One container: `credsCache`, `projectCache` and `domainCache` are the caches of
`index.ts` and `s3-connection-resolver.ts`, the rest is the call being served.  Time is
counted in minutes; an entry holds the minutes it has left.  Credentials hold two such
numbers: how long they are valid (`left`) and how long the code believes so
(`trusted`), as the answer of the service may leave out the expiry.  `Resolved` is
`resolveProjectEnvironments` with its early exit, `Unique`, `Matching` and `Resolution`
the connection resolver, `Folder` the prefix for which access is asked.  A call of
`cloudtrail_query` goes through `Start`, `Poll` and `Results` with the Lambda's role.

### Catalog and CatalogDetail

A search or a list takes two answers, `items` and `granted`, at different moments
(`SearchReturns`, `SubscriptionsReturn`) while `Request`, `Approve`, `Reject`, `Cancel`
and `Revoke` (the subscription tools of other calls, and owners) change `subs`.
`Respond` joins and deduplicates.  `ever` and `always` are history: subscriptions
approved at some, or at every, moment of the call.  `CatalogDetail` is the fetch of
column metadata in chunks, several at a time, each of which may be rejected or answer
for some of its columns, and the glossary of a term.

### Forecast

Operators named as the functions of `parse.ts` and `fill.ts` (`Observations`,
`ByTime`, `Step`, `FillSeries`, `Truncate`) and one action, the handler, with its
checks in their order.  A time is a day of a calendar; `Step` keeps JavaScript's rule
that a day the month has not runs over into the next.  The reference definition
(`NextPeriod`, `Periods`) knows nothing of the loop.  `Picked` stands for the loops that
drop rows and group them: `SelectSeq`, which says the same, has no definition that the
prover can expand.  Hours and minutes, whose steps
have a fixed length, are the unit "D".

## 3. Runs

| Run | Properties | What it shows |
|---|---|---|
| `session_concurrent` | `TypeOK`, `StoredSessionIsListed`, `DeletedStaysDeleted`, `DeletePurges`, `TitleNotDowngraded` | two requests, a delete and title tasks of one session, all failures and crashes |
| `session_tools` | `EventuallySettled` | a request with a round of tool use and images races a delete; with fair requests, a stored session gets its row or a known reason for having none |
| `title_schedule` | `TitleOnSchedule` (violated) | the title counter saturates with the history window |
| `migrate` | `TypeOK`, `InOrder`, `RecordedIsApplied`, `CompletedIsApplied`, `ImplementsLog` | three overlapping, crashing runs on five files; one that reports completion leaves nothing to do |
| `migrate_retry` | `RejectedBlocks`, `RetryCompletes` | after at most two interrupted runs the third has completed every file before the first incompatible statement, and none passes it |
| `chat` | `TypeOK`, `NothingLost`, `FinishedIsComplete`, `OneRequestAtATime`, `FadingEnds` | two sends, one of them with an answer of two tool rounds in every cut, with timers, failures and a late history; two stops never share a millisecond |
| `chat_resumed` | `SentIsShown` (violated) | a message sent while the history is loading |
| `list` (`MCBrowser`) | `BrowserTypeOK`, `SettledDeletesAreGone`, `NoResurrectionInCalm`, `DeletedChatStaysGone`; `TokenIsFresh`, `SignInFailsByCrossing`, `SignedOutStays`; `PageIsOfProject` | deletions, a chat, its title, fetches and focus in every order; or two tabs that sign in and out while two requests renew and exchange tokens; or pages of two projects between which the selection moves |
| `list_focus` | `NoResurrection` (violated) | a focus change during a deletion |
| `gateway` (`MCGateway`) | `SyncedOnSuccess`, `DeletedOnSuccess`, `RequestsEnd`; `UsesOwnCredentials`, `ResolvesAsListed`, `GrantedIsReadable`; `AnswerIsTrue`; `DetailAccountsForAll`; `SeriesFollowsCalendar` | three requests to the policy engine, each of whose calls may fail; or calls of the data tools of two projects while caches age and connections change; or answers of the catalog joined while subscriptions change; or columns in chunks; or forecasts of every result of up to four of eleven rows |
| `interpreter` | `TypeOK`, `EntryIsTimed`, `SessionIsReusedInTurn`, `ChartsAreFresh`, `EntryGoes` | three tool calls, overlapping or not, with timeouts, failures and crashes |
| `interpreter_race` | `SessionIsReused` (violated) | two overlapping calls create a session each |

Bounds.  `session_concurrent` has one session because sessions share no state; two
requests give every pairwise race of snapshots, and with `Window = 2` the history
is cut already by the messages of the first one, so that a request may load a
window without user messages.  `TitlePeriod = 2` lets a request start a title and
another not.  `PageSize = 1` makes the listing of a delete span several pages while
events are still being stored.  `MaxRounds` bounds tool use: 0 in the run with two
requests, 1 in `session_tools`.  The migration needs two runs for every overlap and
one more that starts after both.  `chat` has three deltas and two tool rounds,
so that an intermediate text is followed by a second one before the first is absorbed
and by a final answer; `MaxWire = 2` lets one read hold a text and the stop after it,
and two reads bring two stops before the timer of the first.  Of its two sends `Answered`
names the one whose request gets an answer; the other fails before that, at any point
before, during or after the first, so that requests can follow and cross each other
without the product of two streams.  In `list` two old sessions give overlapping deletions
and one new session the chat.  Three interpreter calls give two that race and one that
comes after.

In `MCBrowser` two tabs cross each other's sign-in in every way, and `MaxTokens = 3`
gives two requests that renew the same session one token each and a sign-in before
them.  Two projects are enough for an answer that belongs to the other one, and
`MaxPolls = 2` for a query that ends before, at and after the last look.
In `MCGateway` the third request to the policy engine finds what a failed second one
left of a first; two policies give one that is desired and one that is not, two
statements an update.  Two polls and two listings reach both "again" and "no more".
The data tools use small numbers in the order of the real ones
(`Margin` < `Timeout` < `Fallback` < `Life`, and `TTL` shorter than two calls): each
cache is met fresh, about to expire and expired.  The connections include one prefix
inside another, with and without the final "/"; the calls include one at the root of a
bucket, listed folders and a full URI.  `PageSize = 2` is one less than the listings, and
`ChunkSize = 2`, `MaxConcurrent = 2` with five columns give two rounds and a chunk that
is not full.  The rows of `Forecast` have the 1st, 15th and 31st of a month, two rows
of one time, gaps and one that is no observation; each limit of the handler (series,
page, observations, context, horizon) lies inside what the rows reach.  Two of the steps
have no length ("0D" and "0M" are accepted), and the calendar has a quarter and more after
the last row, which the code's never ends (`CalendarAssumption`).

`CHECK_DEADLOCK FALSE` everywhere, because
requests, deletes, migrations, sends and tool calls are finite and the system then stops.

Conditions.  `chat` runs under `DistinctSpec`, in which two stops of a page never fall
into the same millisecond (`OneStopPerMillisecond`): the entries of `fadingTexts` are named by `Date.now()`
(`ChatInterface.tsx:387`), the timer of the first of two entries with one name takes the
first text and filters both out, and `NothingLost` does not hold under `Spec`.
`OneRequestAtATime` holds until the history's answer replaces the messages of a running
request (`dropped`): with no messages the page offers its suggestions again, which do not
look at `isStreaming` (`ChatInterface.tsx:499`), and a second request may start.
`NoResurrectionInCalm` and `SettledDeletesAreGone` of `SessionList`, and
`SessionIsReusedInTurn` and `ChartsAreFresh` of `CodeInterpreter`, state their condition
themselves.  Without the condition `SettledDeletesAreGone` fails too: a `title_update`
during the synchronisation after a deletion discards its answer
(`AppShell.tsx:65`), and an item that had come back stays.

The properties of the newer modules that are not unconditional, and what happens
otherwise:

- `SyncedOnSuccess` and `DeletedOnSuccess` except the policies in `leftover`: a
  desired policy that an earlier request left with its statement and not ACTIVE is
  skipped or adopted as it is (`handler.ts:225`, `:278`), an undesired one that the
  listing does not show yet is not deleted, and a policy that is already being deleted
  may vanish before its own DeletePolicy, which `onDelete` takes for "already deleted".
- `UsesOwnCredentials` for one minute after the cache was looked at, its margin; a call
  may last two.
- `ResolvesAsListed` once the connections have not changed for as long as the caches and
  the calls last, and with the domain's connections as *some* project sees them: all
  projects share one entry (`s3-connection-resolver.ts:127`).
- `GrantedIsReadable` except for an object at the root of a bucket, for which the folder
  "/" is asked (`data-access/index.ts:198`).
- `AnswerIsTrue` in the direction "not subscribed" for projects with at most a page of
  subscriptions; locations are shown once by a search, not by a list.
- `SeriesFollowsCalendar` for results of one page, series that are not truncated and
  that begin before the 29th, and times that are period starts.
- `PageIsOfProject`: rows and errors that were asked for before the selection moved may
  be shown after it (`moved`, `calm`); the storage browser's data may not.
- `SignedOutStays` after a sign-out with no request under way.

Fairness.  `FairSpec` assumes only that a request that has been received goes on:
every call it awaits settles by an answer or by the SDK's timeout, in either case
an action of that request.  Receiving is not fair (users), and neither are title
tasks and background deletions, which nothing waits for and a frozen process may
never run.  `ChatStream!FairSpec` assumes the page's thread: a line that was read is
processed and a timer that is due runs; the network, the agent and the user owe
nothing.  `CodeInterpreter!FairSpec` assumes that the service ends a session at its
timeout and that the event loop runs the timers.  `PolicyEngine` assumes that the
Lambda goes on or is stopped (`WF_vars(Handler)`): each call is answered, rejected or
cut off, and the service owes nothing, so `RequestsEnd` rests on the counted waits.
`Workspace`, `SignIn`, `DataAccess`, `Catalog`, `CatalogDetail` and `Forecast` assume no
fairness and have safety properties only.  `RetrySpec` assumes that an
operator retries and that not all retries are interrupted.

## 4. Findings

- `title_schedule`: the comment at `session-persistence-hook.ts:138` promises a
  title for user messages 5n+1.  The counter is recomputed from a window of 40
  messages, so from the 21st user message on it is 20 at the start of every
  request, and every message starts a title task.
- `chat_resumed`: the button waits for the history (`ChatInterface.tsx:533`), the
  keyboard and the suggestions do not; `setMessages(loaded)` then removes the message
  and its answer.
- `list_focus`: `AppShell.tsx:35` says that `revalidate: false` keeps a deleted item
  from coming back; a revalidation by focus, or by the end of another deletion, still
  brings it back while its DELETE is under way.
- `interpreter_race`: `code-interpreter-tool.ts:51` promises one session for a
  conversation; two overlapping calls start two.

## 5. Proofs

`SessionPersistenceProofs`, for every set of sessions, requests and deletes and every
`Window`, `TitlePeriod`, `PageSize` and `MaxRounds`; the only assumption is
`ConstantsAssumption`.

- `TypeCorrect`: `TypeOK` is inductive; it includes that each session has finitely
  many events, without which the cardinalities of the history mean nothing.
- `StoredSessionsAreListed`: the property is not inductive, since a request that
  believes it is not the first one never inserts a row.  The invariant adds that
  such a belief is justified: a request past `LoadHistory` with `first = FALSE` has
  either seen a stored user message, hence a session that is accounted for, or
  cleared the flag itself.
- `DeletedSessionsStayDeleted`: adds that a session in `gone` has no request in
  flight; title tasks only update rows.
- `CleanDeletesPurge`: adds that event ids are below the clock and that, while a
  clean delete runs, every event older than its listing is still unlisted or on
  its list.
- `TitlesAreNotDowngraded`: an action property, from `TypeOK`.

`MigrateProofs`, for every number of runs and every sequence of files
(`FilesAssumption`):

- `MigrateTypeCorrect`, `StatementsApplyInOrder`, `RecordedFilesAreApplied` come
  from one invariant: a run in progress leaves nothing before its position undone
  (`Progress`).  A run learns of its predecessors' work through `_migrations` only,
  so `RecordedIsApplied` is part of the induction.
- `RejectedStatementsBlock` adds that files are recorded in order (`LogInv`), which
  the other invariants do not imply for a file without statements.
- `MigrateImplementsLog`: every step of `migrate()` is a step of `MigrationLog` or
  changes neither `Applied` nor `recorded`.
- `CompletedRunsAreApplied`: a run that reports completion leaves nothing to do,
  whatever others do at the same time.

`CodeInterpreterProofs`, for every number of calls (`NoneAssumption`):

- `InterpreterTypeCorrect` and `EntriesAreTimed`: `EntryIsTimed` is inductive together
  with what a timer says of its session (`TimersFollowSessions`).
- `SessionsAreReusedInTurn`: as long as calls come one after the other, a timer that is
  set is that of the entry, and a call that found no entry is alone (`InTurn`).  The
  condition cannot be dropped (`interpreter_race`).
- `ChartsStayFresh`: adds that the file a call is about to read is the one it saved.

`SignInProofs`, for every number of tabs, requests and tokens:

- `SignInTypeCorrect`, `SignOutIsFinal`.
- `SignInFailsOnlyByCrossing`: a tab at the identity provider that no one has crossed
  owns the attempt's cookies, or there are none and the attempt is begun again.
  Assumes that "unset" is no tab.
- `ExchangedTokensAreFresh`: a token on its way to the exchange is newer than what its
  request was sent with, is in no other request, and reaches the cookies only when no
  forced renewal can hand it to an exchange again.  Numbers of tokens are unbounded.

`PolicyEngineProofs`, for all policies, statements, bounds of the waits and numbers of
requests (`BoundsAssumption`, `StatementsAssumption`):

- `PolicyEngineTypeCorrect`: `TypeOK` with `Stages`, which request can be at which call.
- `DeletionIsComplete`: `DeletedOnSuccess` needs that until its own DeletePolicy no
  policy on the list is absent or being deleted (`DeleteInv`); then the only
  ResourceNotFoundException left is that of the engine, which has no policies then.
- `SyncIsComplete`: two invariants.  `EngineInv`: the engine is active from the first
  wait on, as it is created while there is no physical id.  `SyncInv` follows the
  request: before the listing nothing but `leftover` falls short (`FreshInv`), after it
  what was listed with its statement is in force and what is undesired is on the list
  (`DeletingInv`), then nothing undesired is there and all that the loop has passed is in
  force (`SyncingInv`).  The service alone breaks none of them (`ServiceSyncInv`), since
  it changes only policies that are pending or being deleted.

`ChatStreamProofs`, for every number of sends, deltas and tool rounds:

- `OneRequest`: `OneRequestAtATime` is inductive together with `RunningIsShown`: the
  messages of a running request keep the suggestions away, as long as nothing but the
  history removes messages.
- `AnswersAreComplete`: `FinishedIsComplete` for any cut of the stream.  The invariant:
  along the lines of the read and those on the wire the deltas are numbered, from the
  one after the last that was processed to the last that was written (`Numbered`; the
  count along the lines is a function that is said to exist, not computed).
- `ChatTypeCorrect`: adds nothing to `TypeOK`.  Two stops share a millisecond only while
  a timer of the first is pending, so an id is never 0.
- `NothingIsLost`: `NothingLost` of every behaviour that also satisfies
  `[][OneStopPerMillisecond]_vars`.  It needs the numbering above (a line that is taken
  is the next delta), that fading texts of a bubble have different ids, so that a
  timeout takes one text and filters that one, and that a request that was not sent has
  no bubble (`PlacedInv`).  There is a lemma for each thing a line makes of a bubble.

`BrowserProofs`, for all sets of sessions and projects and every bound of polls
(`SessionsAssumption`, `PollsAssumption`), `PagesTypeCorrect` and `ListTypeCorrect` first:

- `DeletesSettle`: a list that still shows a deleted session has its correction on the
  way, a fetch that has not been read or a deletion that will start one (`SettlesInv`).
- `CalmDeletesHold`, `DeletedChatsStayGone`: action properties; the first needs that in
  the calm nothing is fetched during a deletion (`CalmInv`).
- `PagesShowTheirProject`: what is stored, shown and awaited is of the project that a
  request was sent for (`SelectionInv`, `RequestsInv`, `RowsInv`).
- `PartsOfTheBrowser`, and with it `BrowserTypeCorrect` of the whole.

`GatewayProofs`, for all connections, grants, calls, listings, column counts and sizes of
pages and chunks (`ConnectionsAssumption`, `GrantsAssumption`, `CallsAssumption`,
`TimesAssumption`, `ListingsAssumption`, `ChunksAssumption`: types, that credentials
live longer than the margin and no less than what is assumed of them, and that chunks
are not empty), and for all calendars of months of 28 to 31 days, results and steps
(`CalendarAssumption`, `LimitsAssumption`: types, that the calendar goes on for a step and
a month after the last row, and that `MinObservations`, 5 in the code, exceeds 2):

- `CredentialsAreOwn`: the cache never trusts credentials longer than they are valid, and
  what is left of those in use, with the time since the cache was looked at, exceeds the
  margin (`CredentialsInv`).
- `RefusalsAreRight`: a folder that begins the key of an object begins its `Folder`
  (`FolderIsCovered`), but for the root.
- `ResolutionsAreOfToday`: an entry younger than the last change is up to date, that of
  the domain may have been begun as long before as a call lasts (`EntriesInv`); a call
  that lists the domain has found what its first k projects have (`ListingInv`).  That
  adding list after list is adding their concatenation is `AddedInTurn`.
- `AnswersAreTrue`: what was read is bounded by the subscriptions that were approved at
  some and at every moment of the call (`CatalogInv`).
- `DetailsAccountForAll`: the columns of the chunks that were asked for, and no others, are
  shown or reported (`ColumnsInv`); that every column is in a chunk is arithmetic of
  rounding up (`ColumnIsInAChunk`).
- `PredictionsFollowCalendar`: what is answered is `Handle(event)` (`ResponseOfEvent`), so
  the work is about the operators.  A day is in one month (`MonthOfDay`, `MonthIsUnique`);
  a step of months goes on, and before the 29th it comes to the first of the month that
  is meant (`MonthStep`).  The equation of the loop of `fillSeries` has a solution, with
  steps of any length and of none (`VisitsExist`, `VisitsOfNoLength`), and so `Grid`
  satisfies it (`GridVisits`).  Where each step comes to the next period (`DayPeriods`,
  `MonthPeriods`), what it visits enumerates the set of periods (`VisitsEnumerate`), the
  i-th of an enumeration is the one that has i members up to it (`EnumerationCounts`), and
  the grid is `Periods` (`GridIsPeriods`).  The steps of the endpoint are those of the grid
  and one more (`PredictionFollows`).  A step of no length visits at most two times
  (`GridOfNoLength`), too few observations, which is what `MinObservations > 2` is for.
- `PartsOfTheGateway`, and with it `GatewayToolsAreCorrect` of the whole.  (Of the policy
  engine it yields the steps, not the fairness: `PolicyEngineProofs` needs none.)

Recursive functions (`Added`, `FirstDay`, `Grid`, `PredictionStart`, `Picked`) are reasoned
about by induction all the same: the set of numbers for which a statement holds is passed to
`SetInduction` as a set, not as an operator, and a solution of the function's equation is
exhibited (`HistoryOfSteps`, `VisitsExist`) before the equation is used.

Only model-checked: the liveness properties (`EventuallySettled`, `RetryCompletes`,
`FadingEnds`, `EntryGoes`, `RequestsEnd`), which need fairness and ENABLED.

## 6. Not modelled, and why

- Infrastructure (CDK), user interface components, prompt, scripts and sample data:
  declarations, rendering and wording without run-time state of their own.
- `summarize.ts`: statistics of a series for the answer's text, without effect on it.
- `list_requests`, `list_filters` and the domain-credential cache of `data-catalog`: they
  read only, and the cache has the key and the margin that `DataAccess` models.
- The MCP client of the agent: what a tool answers reaches the stream as text.
- `stores` other than the project store and `ProjectSelector`'s rendering.
- `transformSql` of `dsql-compat.ts`: a rewriting of SQL text at build time.
- `onAfterInvocation`, `storage.deleteSession` and `stopSession`: no caller.
- Of messages, titles and texts only what the properties tell apart (see each module).

## 7. Plan

Done: every component of section 1 that has run-time logic has its module, three of the
larger ones an abstract specification or a proved invariant of what a success means, and
every safety property of a passing run is proved.
What is left, in this order:

1. Compositions: `ChatStream` with `SessionList` (title and first send);
   `SessionPersistence` as an implementation of an abstract store of sessions.
2. `list_requests` and `list_filters` of `data-catalog`.
