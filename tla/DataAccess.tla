------------------------------ MODULE DataAccess ------------------------------
(***************************************************************************)
(* One Lambda container of the data-access tool (athena_query, s3_read,    *)
(* s3_list), which serves one call at a time and keeps its caches between  *)
(* calls: the credentials of the last project and token, and the S3        *)
(* connections of the projects and of the domain.  cloudtrail_query, whose *)
(* Lambda keeps nothing, goes through the same steps from `start` on.      *)
(* Time is counted in minutes; a container is stopped when a call reaches  *)
(* the limit of its Lambda.  Paths are sequences of names and "/".         *)
(***************************************************************************)
EXTENDS Naturals, SequencesExt

CONSTANTS
  Projects,
  Environments,  \* project -> the sequence of its environments
  Sees,          \* project -> the sequence of projects ListProjects gives its role
  Listings,      \* lists of S3 connections a project can have
  Grants,        \* project -> the access grants of its role
  Calls,         \* inputs: [tool, project, token, uri, path]
  MaxPolls,      \* minutes of polls, 1 in the code (120 polls, 0.5 s apart)
  Margin,        \* 1
  Timeout,       \* 2
  Fallback,      \* 14
  Life,          \* minutes that issued credentials are valid
  TTL            \* 10

VARIABLES
  conns,         \* DataZone: the S3 connections of each project
  quiet,         \* history: minutes since they last changed, up to Settled
  credsCache,    \* credentials and the minutes the cache still trusts them
  projectCache,  \* project -> connections
  domainCache,   \* connections
  call,          \* the call being served, or the last one
  pc,            \* its next step
  age,           \* minutes since it began
  since,         \* minutes since it looked at the cache of credentials
  creds,         \* its credentials
  found,         \* connections of the project, connections of the domain so far,
                 \* and projects still to list
  target,        \* the object: [bucket, key, account, grants]
  query,         \* the query it started and the polls that are left
  answer         \* "none", "rows", "object", "denied", "error" or "killed"

caches == <<credsCache, projectCache, domainCache>>
locals == <<creds, found, target, query>>
daVars == <<conns, quiet, caches, call, pc, age, since, locals, answer>>

\* A change has reached every call: the domain's list is begun by a call before it
\* is kept for TTL, and is used by a call that goes on.
Settled == TTL + 2 * Timeout

None == [left |-> 0]
NoList == [left |-> 0, list |-> << >>]
NoTarget == [bucket |-> "", key |-> << >>, account |-> "", grants |-> FALSE]
NothingFound == [own |-> << >>, domain |-> << >>, todo |-> << >>]
NoQuery == [state |-> "none", polls |-> 0]

-----------------------------------------------------------------------------
(* environment-resolver.ts *)

\* The loop stops at the first environment where both are known.
Stop(envs) ==
  LET both == {i \in DOMAIN envs : /\ \E j \in 1 .. i : envs[j].tooling
                                   /\ \E j \in 1 .. i : envs[j].db # ""}
  IN  IF both = {} THEN Len(envs) ELSE CHOOSE i \in both : \A j \in both : i <= j

LastOf(envs, kind) ==
  LET at == {i \in 1 .. Stop(envs) : envs[i] \in kind}
  IN  IF at = {} THEN [id |-> "", tooling |-> FALSE, workgroup |-> "", db |-> ""]
      ELSE envs[CHOOSE i \in at : \A j \in at : i >= j]

\* resolveProjectEnvironments; an empty field stands for undefined.
Resolved(project) ==
  LET envs == Environments[project]
      tooling == LastOf(envs, {e \in Range(envs) : e.tooling})
      database == LastOf(envs, {e \in Range(envs) : e.db # ""})
  IN  [tooling |-> tooling.id, workgroup |-> tooling.workgroup, db |-> database.db]

-----------------------------------------------------------------------------
(* s3-connection-resolver.ts.  A connection: [bucket, prefix, role, account]. *)

SameUri(c, d) == c.bucket = d.bucket /\ c.prefix = d.prefix

\* What a list adds to those that are known: of connections with one URI the
\* first counts.
Added(known, list) ==
  LET after[n \in 0 .. Len(list)] ==
        IF n = 0 THEN known
        ELSE LET before == after[n - 1]
             IN  IF \E i \in DOMAIN before : SameUri(before[i], list[n]) THEN before
                 ELSE Append(before, list[n])
  IN  after[Len(list)]

Unique(list) == Added(<< >>, list)

Base(prefix) == IF prefix # << >> /\ Last(prefix) = "/" THEN Front(prefix) ELSE prefix
Relative(path) == IF path # << >> /\ Head(path) = "/" THEN Tail(path) ELSE path

Candidates(list, path) ==
  {i \in DOMAIN list : Base(list[i].prefix) # << >> /\ IsPrefix(Base(list[i].prefix), Relative(path))}

In(c, path, grants) ==
  [bucket |-> c.bucket, key |-> Relative(path), account |-> c.account, grants |-> grants]

\* matchConnection: the first connection of the list whose prefix fits.
Matching(list, path) ==
  LET at == Candidates(list, path) IN list[CHOOSE i \in at : \A j \in at : i <= j]

\* resolveS3Connection, once the connections are known.
Resolution(own, domain, path) ==
  IF Candidates(own, path) # {}
  THEN LET c == Matching(own, path) IN In(c, path, c.role)
  ELSE IF Candidates(domain, path) # {}
  THEN In(Matching(domain, path), path, TRUE)
  ELSE LET c == (own \o domain)[1] IN In(c, path, c.role)

\* Mutant: of "d/" the parent is asked for.
ParentOf(key) ==
  IF "/" \notin Range(Front(key)) THEN <<"/">>
  ELSE SubSeq(key, 1, CHOOSE i \in 1 .. Len(key) - 1 :
                        key[i] = "/" /\ \A j \in i + 1 .. Len(key) - 1 : key[j] # "/")

\* The prefix for which access is asked: the key if it is a folder, else its parent.
Folder(key) ==
  IF Last(key) = "/" THEN key
  ELSE IF "/" \notin Range(key) THEN <<"/">>
  ELSE SubSeq(key, 1, CHOOSE i \in DOMAIN key :
                        key[i] = "/" /\ \A j \in i + 1 .. Len(key) : key[j] # "/")

Covers(g, bucket, account, prefix) ==
  g.bucket = bucket /\ g.account = account /\ IsPrefix(g.prefix, prefix)

-----------------------------------------------------------------------------
Init ==
  /\ conns \in [Projects -> Listings] /\ quiet = Settled
  /\ credsCache = None /\ projectCache = [p \in Projects |-> NoList] /\ domainCache = NoList
  /\ call \in Calls /\ pc = "idle" /\ age = 0 /\ since = 0
  /\ creds = None /\ found = NothingFound /\ target = NoTarget /\ query = NoQuery
  /\ answer = "none"

\* cloudtrail_query asks with the role of its Lambda.
OwnRole == call.tool = "cloudtrail_query"

\* One step of the call.
Goto(next) ==
  /\ pc' = next
  /\ UNCHANGED <<conns, quiet, call, age, answer>>

\* The call ends; what is local to it is gone.
Answer(kind) ==
  /\ pc' = "idle" /\ answer' = kind
  /\ creds' = None /\ found' = NothingFound /\ query' = NoQuery /\ age' = 0 /\ since' = 0
  /\ UNCHANGED <<conns, quiet, call>>

Receive ==
  /\ pc = "idle"
  /\ call' \in Calls /\ answer' = "none" /\ target' = NoTarget
  /\ pc' = IF OwnRole' THEN "start" ELSE "environments"
  /\ UNCHANGED <<conns, quiet, caches, age, since, creds, found, query>>

\* Any awaited call may be rejected; so is what is asked with expired credentials.
Fails ==
  /\ pc # "idle"
  /\ Answer("error") /\ UNCHANGED <<caches, target>>

ResolveEnvironments ==
  LET envs == Resolved(call.project)
  IN  /\ pc = "environments"
      /\ envs.tooling # "" /\ envs.workgroup # ""
      /\ call.tool = "athena_query" => envs.db # ""
      /\ Goto("credentials") /\ UNCHANGED <<caches, since, locals>>

Key == <<Resolved(call.project).tooling, call.token>>

\* Mutant: the margin is forgotten.
CachedUntilExpiry == credsCache # None /\ credsCache.key = Key /\ credsCache.trusted > 0

\* The cached credentials are of the same environment and token, and fresh enough.
Cached == credsCache # None /\ credsCache.key = Key /\ credsCache.trusted > Margin

AfterCredentials ==
  IF call.tool = "athena_query" THEN "start" ELSE IF call.uri THEN "account" ELSE "connections"

GetCached ==
  /\ pc = "credentials" /\ since' = 0
  /\ \/ Cached /\ creds' = credsCache /\ Goto(AfterCredentials)
     \/ ~Cached /\ Goto("redeem") /\ UNCHANGED creds
  /\ UNCHANGED <<caches, found, target, query>>

\* RedeemAccessToken and GetEnvironmentCredentials; the answer may leave out when
\* the credentials expire.
Redeem ==
  /\ pc = "redeem"
  /\ \E trusted \in {Life, Fallback - since} :
       credsCache' = [key |-> Key, left |-> Life, trusted |-> trusted]
  /\ creds' = credsCache'
  /\ Goto(AfterCredentials)
  /\ UNCHANGED <<projectCache, domainCache, since, found, target, query>>

Usable == creds.left > 0

-----------------------------------------------------------------------------
(* athena_query and cloudtrail_query *)

Start ==
  /\ pc = "start" /\ (OwnRole \/ Usable)
  /\ query' = [state |-> "running", polls |-> MaxPolls]
  /\ Goto("poll") /\ UNCHANGED <<caches, since, creds, found, target>>

\* The service: the query ends by itself.
QueryEnds ==
  /\ query.state = "running"
  /\ \E s \in {"succeeded", "failed"} : query' = [query EXCEPT !.state = s]
  /\ UNCHANGED <<conns, quiet, caches, call, pc, age, since, creds, found, target, answer>>

\* The polls of a minute; those that find the query running change nothing, and
\* after the last one there is no look at it.
Poll ==
  /\ pc = "poll" /\ (OwnRole \/ Usable)
  /\ \/ /\ query.polls > 0 /\ query.state = "succeeded"
        /\ Goto("results") /\ UNCHANGED <<since, locals, caches>>
     \/ /\ query.polls = 0 \/ query.state = "failed"
        /\ Answer("error") /\ UNCHANGED <<caches, target>>

Results ==
  /\ pc = "results" /\ (OwnRole \/ Usable)
  /\ Answer("rows") /\ UNCHANGED <<caches, target>>

-----------------------------------------------------------------------------
(* s3_read and s3_list *)

\* A full URI: the account is that of the project's environment.
OwnAccount ==
  /\ pc = "account"
  /\ target' = [bucket |-> call.bucket, key |-> call.path, account |-> "own", grants |-> TRUE]
  /\ Goto("grants") /\ UNCHANGED <<caches, since, creds, found, query>>

\* There is a connection, and the path names something in its bucket.
Resolves(own, domain) ==
  own \o domain # << >> /\ Resolution(own, domain, call.path).key # << >>

Settle(own, domain) ==
  \/ /\ Resolves(own, domain)
     /\ target' = Resolution(own, domain, call.path)
     /\ Goto(IF target'.grants THEN "grants" ELSE "object")
     /\ UNCHANGED <<since, creds, found, query>>
  \/ ~Resolves(own, domain) /\ Answer("error") /\ UNCHANGED target

\* With the project's connections: settled, or the domain's are needed.
WithOwn(own) ==
  \/ Candidates(own, call.path) # {} /\ Settle(own, << >>) /\ UNCHANGED domainCache
  \/ /\ Candidates(own, call.path) = {} /\ domainCache.left > 0
     /\ Settle(own, domainCache.list) /\ UNCHANGED domainCache
  \/ /\ Candidates(own, call.path) = {} /\ domainCache.left = 0
     /\ found' = [own |-> own, domain |-> << >>, todo |-> Sees[call.project]]
     /\ Goto("domain") /\ UNCHANGED <<since, creds, target, query, domainCache>>

\* fetchProjectConnections from the cache, or listed with the project's credentials.
ProjectConnections ==
  /\ pc = "connections"
  /\ \/ /\ projectCache[call.project].left > 0
        /\ WithOwn(projectCache[call.project].list) /\ UNCHANGED projectCache
     \/ /\ projectCache[call.project].left = 0 /\ Usable
        /\ LET own == Unique(conns[call.project])
           IN  /\ projectCache' = [projectCache EXCEPT ![call.project] = [left |-> TTL, list |-> own]]
               /\ WithOwn(own)
  /\ UNCHANGED credsCache

\* fetchDomainConnections lists one project after the other.
ListOne ==
  /\ pc = "domain" /\ found.todo # << >> /\ Usable
  /\ found' = [found EXCEPT !.domain = Added(@, conns[Head(found.todo)]), !.todo = Tail(@)]
  /\ Goto("domain") /\ UNCHANGED <<caches, since, creds, target, query>>

DomainConnections ==
  /\ pc = "domain" /\ found.todo = << >>
  /\ domainCache' = [left |-> TTL, list |-> found.domain]
  /\ Settle(found.own, found.domain)
  /\ UNCHANGED <<credsCache, projectCache>>

Granted == {g \in Grants[call.project] : Covers(g, target.bucket, target.account, Folder(target.key))}

GetDataAccess ==
  /\ pc = "grants" /\ Usable
  /\ \/ Granted # {} /\ Goto("object") /\ UNCHANGED <<since, locals>>
     \/ Granted = {} /\ Answer("denied") /\ UNCHANGED target
  /\ UNCHANGED caches

\* GetObject or ListObjectsV2, with the granted credentials or the project's.
Access ==
  /\ pc = "object" /\ (target.grants \/ Usable)
  /\ Answer("object") /\ UNCHANGED <<caches, target>>

-----------------------------------------------------------------------------
(* Time, the container and DataZone. *)

Less(n) == IF n = 0 THEN 0 ELSE n - 1
Older(c) == IF c = None THEN None ELSE [c EXCEPT !.left = Less(@), !.trusted = Less(@)]

\* Mutant: the age of an entry is not looked at.
NeverOlder(l) == l

\* An entry counts while it has time left.
OlderList(l) == IF l.left <= 1 THEN NoList ELSE [l EXCEPT !.left = @ - 1]

Tick ==
  /\ age < Timeout
  /\ quiet' = IF quiet = Settled THEN quiet ELSE quiet + 1
  /\ credsCache' = Older(credsCache) /\ creds' = Older(creds)
  /\ projectCache' = [p \in Projects |-> OlderList(projectCache[p])]
  /\ domainCache' = OlderList(domainCache)
  /\ age' = IF pc = "idle" THEN 0 ELSE age + 1
  /\ since' = IF creds # None \/ pc = "redeem" THEN since + 1 ELSE since
  /\ query' = IF pc = "poll" THEN [query EXCEPT !.polls = Less(@)] ELSE query
  /\ UNCHANGED <<conns, call, pc, found, target, answer>>

\* The Lambda reaches its limit, or an idle container is discarded.
Discard ==
  /\ age = Timeout \/ pc = "idle"
  /\ credsCache' = None /\ projectCache' = [p \in Projects |-> NoList] /\ domainCache' = NoList
  /\ Answer(IF pc = "idle" THEN answer ELSE "killed") /\ UNCHANGED target

ConnectionsChange ==
  /\ quiet = Settled
  /\ \E p \in Projects : \E list \in Listings \ {conns[p]} : conns' = [conns EXCEPT ![p] = list]
  /\ quiet' = 0
  /\ UNCHANGED <<caches, call, pc, age, since, locals, answer>>

Next ==
  \/ Receive \/ ResolveEnvironments \/ GetCached \/ Redeem \/ Fails
  \/ Start \/ QueryEnds \/ Poll \/ Results
  \/ OwnAccount \/ ProjectConnections \/ ListOne \/ DomainConnections \/ GetDataAccess \/ Access
  \/ Tick \/ Discard \/ ConnectionsChange

Spec == Init /\ [][Next]_daVars

-----------------------------------------------------------------------------
\* A call works with credentials that were issued for the environment of its
\* project and for its token, and for a minute after it has looked at the cache
\* they have not expired, even if the service did not say when they expire.  (A
\* call of two minutes may outlive them: the rest of its requests is refused.)
UsesOwnCredentials ==
  creds # None =>
    /\ creds.key = <<Resolved(call.project).tooling, call.token>>
    /\ since <= Margin => creds.left > 0

Listed(p) == Unique(conns[p])
SeenFrom(p) == Unique(FlattenSeq([i \in DOMAIN Sees[p] |-> conns[Sees[p][i]]]))

\* The object that a relative path comes to, and how it is accessed, are those of
\* the connections of today once these are older than the caches and the call;
\* the domain's may be the ones that another project sees, since all projects
\* share one entry.
ResolvesAsListed ==
  pc \in {"grants", "object"} /\ ~call.uri /\ quiet = Settled =>
    \E p \in Projects :
      /\ Listed(call.project) \o SeenFrom(p) # << >>
      /\ target = Resolution(Listed(call.project), SeenFrom(p), call.path)

\* Access is refused only where no folder is granted whose name begins that of what
\* is asked for.  Only an object at the root of a bucket is refused although one is:
\* the folder "/" is asked for it.  (For a folder that is listed by its name without
\* the "/" its parent is asked; the name of the folder itself does not begin its.)
GrantedIsReadable ==
  answer = "denied" /\ "/" \in Range(target.key) =>
    \A g \in Grants[call.project] :
      g.prefix = << >> \/ Last(g.prefix) = "/" =>
        ~Covers(g, target.bucket, target.account, target.key)
=============================================================================
