---------------------------- MODULE PolicyEngine ----------------------------
(***************************************************************************)
(* The custom resource that keeps the policy engine of the gateway:        *)
(* agentcore-policy/handler.ts serves the Create, Update and Delete        *)
(* requests of CloudFormation, one at a time, against a service whose      *)
(* engine and policies change their status by themselves and whose         *)
(* listing lags.  Every awaited call is a step, and every step may be the  *)
(* last one: a call is rejected, or the Lambda reaches its five minutes.   *)
(***************************************************************************)
EXTENDS Naturals, FiniteSets

CONSTANTS
  Names,        \* names of policies, prefixed
  Statements,   \* Cedar statements
  MaxPolls,     \* polls of a wait (30 in the code)
  MaxTries,     \* listings after a conflict (5 in the code)
  MaxRequests   \* bound: requests of CloudFormation

ASSUME BoundsAssumption ==
  MaxPolls \in Nat \ {0} /\ MaxTries \in Nat \ {0} /\ MaxRequests \in Nat

VARIABLES
  engine,    \* the service: status of the policy engine
  policies,  \* the service: the policies of the engine
  lag,       \* the service: names whose last creation or deletion is not visible yet
  gateway,   \* the gateway refers to the engine
  stack,     \* CloudFormation has a physical id of the resource
  request,   \* the request being served, or the last one
  desired,   \* its ResourceProperties.policies
  pc,        \* the next call of the handler
  seen,      \* existingByName: the statements that were listed
  todo,      \* names the current loop has still to handle
  polls,     \* attempts that the current wait or retry has left
  outcome,   \* how the last request ended
  leftover,  \* history: what earlier requests left for it to miss
  requests   \* history: number of requests so far

service == <<engine, policies, lag>>
cloudFormation == <<stack, request, desired, leftover, requests>>
vars == <<service, gateway, cloudFormation, pc, seen, todo, polls, outcome>>

None == "none"

ASSUME StatementsAssumption == None \notin Statements

Absent == [status |-> "absent", statement |-> None]
Policy(status, statement) == [status |-> status, statement |-> statement]
Settled == {"active", "failed"}
Statuses == {"pending", "deleting"} \cup Settled

\* What addPolicy and addCedarPolicy accept: at least one policy, no name twice.
Desired == {d \in [Names -> Statements \cup {None}] : \E n \in Names : d[n] # None}
Wanted == {n \in Names : desired[n] # None}
Present == {n \in Names : policies[n] # Absent}
NothingSeen == [n \in Names |-> None]

TypeOK ==
  /\ engine \in {"absent", "pending", "active", "failed"}
  /\ policies \in [Names -> [status : Statuses, statement : Statements] \cup {Absent}]
  /\ engine = "absent" => Present = {}
  /\ lag \subseteq Names /\ leftover \subseteq Names /\ todo \subseteq Names
  /\ gateway \in BOOLEAN /\ stack \in BOOLEAN
  /\ request \in {"none", "create", "update", "delete"}
  /\ desired \in [Names -> Statements \cup {None}]
  /\ pc \in {"idle", "engine", "waitEngine", "gateway", "disassociate", "list", "delete",
             "waitDeleted", "sync", "waitActive", "adopt", "dropEngine"}
  /\ seen \in [Names -> Statements \cup {None}]
  /\ polls \in 0 .. MaxPolls + MaxTries
  /\ outcome \in {"none", "success", "failure"}
  /\ requests \in 0 .. MaxRequests

Init ==
  /\ engine = "absent" /\ policies = [n \in Names |-> Absent] /\ lag = {}
  /\ gateway = FALSE /\ stack = FALSE
  /\ request = "none" /\ desired = NothingSeen /\ pc = "idle"
  /\ seen = NothingSeen /\ todo = {} /\ polls = 0
  /\ outcome = "none" /\ leftover = {} /\ requests = 0

-----------------------------------------------------------------------------
(* The service. *)

EngineSettles ==
  /\ engine = "pending"
  /\ engine' \in Settled
  /\ UNCHANGED <<policies, lag, gateway, cloudFormation, pc, seen, todo, polls, outcome>>

\* A creation or an update succeeds or fails, a deletion removes or fails.
PolicySettles(n) ==
  /\ \/ /\ policies[n].status = "pending"
        /\ \E s \in Settled : policies' = [policies EXCEPT ![n].status = s]
        /\ UNCHANGED lag
     \/ /\ policies[n].status = "deleting"
        /\ \/ policies' = [policies EXCEPT ![n].status = "failed"] /\ UNCHANGED lag
           \/ policies' = [policies EXCEPT ![n] = Absent] /\ lag' = lag \cup {n}
  /\ UNCHANGED <<engine, gateway, cloudFormation, pc, seen, todo, polls, outcome>>

CatchesUp(n) ==
  /\ n \in lag
  /\ lag' = lag \ {n}
  /\ UNCHANGED <<engine, policies, gateway, cloudFormation, pc, seen, todo, polls, outcome>>

\* An answer of ListPolicies: what was created lately may be missing.
Listings ==
  {[n \in Names |-> IF n \in hidden THEN None ELSE policies[n].statement] :
     hidden \in SUBSET lag}

-----------------------------------------------------------------------------
(* CloudFormation.  A creation that fails leaves no physical id: the provider  *)
(* framework does not pass the deletion that follows to the handler.  An       *)
(* update that fails is followed by an update to the properties before it, or  *)
(* to any others.                                                              *)

Idle == pc = "idle" /\ requests < MaxRequests

\* For the history: policies already being deleted when a deletion comes; for the
\* other requests undesired ones not yet listed, and desired ones that have their
\* statement and are not active.
Leftover(type, d) ==
  {n \in Present :
     IF type = "delete" THEN policies[n].status = "deleting"
     ELSE IF d[n] = None THEN n \in lag
     ELSE policies[n].status # "active" /\ policies[n].statement = d[n]}

Submit(type, d, first) ==
  /\ Idle
  /\ request' = type /\ desired' = d /\ pc' = first
  /\ polls' = MaxPolls /\ outcome' = "none" /\ requests' = requests + 1
  /\ leftover' = Leftover(type, d)
  /\ UNCHANGED <<service, stack, seen, todo>>

SubmitCreate ==
  /\ ~stack
  /\ \E d \in Desired : Submit("create", d, "engine")
  /\ UNCHANGED gateway

\* _gatewayTrigger: an update of the gateway itself loses the reference and is
\* followed by an update of this resource.
SubmitUpdate ==
  /\ stack
  /\ \E d \in Desired : Submit("update", d, "list")
  /\ gateway' \in {gateway, FALSE}

SubmitDelete ==
  /\ stack
  /\ Submit("delete", desired, "disassociate")
  /\ UNCHANGED gateway

\* CloudFormation updates the gateway and another resource fails before this one
\* is updated: rolling back updates the gateway only.
GatewayAlone ==
  /\ Idle /\ stack
  /\ gateway' = FALSE /\ outcome' = "none"
  /\ UNCHANGED <<service, cloudFormation, pc, seen, todo, polls>>

-----------------------------------------------------------------------------
(* The handler. *)

\* The request ends.
End(result) ==
  /\ pc' = "idle" /\ outcome' = result
  /\ seen' = NothingSeen /\ todo' = {} /\ polls' = 0
  /\ stack' = IF result # "success" THEN stack ELSE request # "delete"
  /\ UNCHANGED <<request, desired, leftover, requests>>

Throw == End("failure") /\ UNCHANGED <<service, gateway>>

\* Mutant: every error of a deletion counts as "already deleted".
ThrowOrIgnore ==
  /\ pc # "idle"
  /\ End(IF request = "delete" THEN "success" ELSE "failure")
  /\ UNCHANGED <<service, gateway>>

\* A call is rejected, the Lambda times out, or the engine is not found.
Fails == pc # "idle" /\ Throw

\* ResourceNotFoundException: onDelete takes it for "already deleted".
NotFound ==
  /\ End(IF request = "delete" THEN "success" ELSE "failure")
  /\ UNCHANGED <<service, gateway>>

Goto(next) ==
  /\ pc' = next
  /\ UNCHANGED <<cloudFormation, outcome>>

\* One more poll of a wait, after the pause between two of them.
PollAgain ==
  \/ polls > 1 /\ polls' = polls - 1 /\ Goto(pc) /\ UNCHANGED <<service, gateway, seen, todo>>
  \/ polls <= 1 /\ Throw

\* getOrCreatePolicyEngine: on a conflict the engine of that name is adopted.
CreateEngine ==
  /\ pc = "engine"
  /\ engine' = IF engine = "absent" THEN "pending" ELSE engine
  /\ polls' = MaxPolls /\ Goto("waitEngine")
  /\ UNCHANGED <<policies, lag, gateway, seen, todo>>

\* Mutant: the polls for the engine are not counted.
WaitEngineForever ==
  /\ pc = "waitEngine"
  /\ engine = "pending"
  /\ Goto("waitEngine") /\ UNCHANGED <<service, gateway, seen, todo, polls>>

WaitEngineActive ==
  /\ pc = "waitEngine"
  /\ \/ engine = "active" /\ Goto("gateway") /\ UNCHANGED <<service, gateway, seen, todo, polls>>
     \/ engine = "failed" /\ Throw
     \/ engine = "pending" /\ PollAgain

\* updateGatewayWithRetainedConfig: the last call of an update, an early one of a
\* creation.
Associate ==
  /\ pc = "gateway"
  /\ gateway' = TRUE
  /\ \/ request = "create" /\ Goto("list") /\ UNCHANGED <<seen, todo, polls>>
     \/ request = "update" /\ \E result \in {"success", "failure"} : End(result)
  /\ UNCHANGED service

\* onDelete goes on when the gateway cannot be updated.
Disassociate ==
  /\ pc = "disassociate"
  /\ gateway' \in {FALSE, gateway}
  /\ Goto("list")
  /\ UNCHANGED <<service, seen, todo, polls>>

ToDelete(listed) == {n \in Names : listed[n] # None /\ (request = "delete" \/ n \notin Wanted)}

ListAll ==
  /\ pc = "list"
  /\ \/ engine = "absent" /\ NotFound
     \/ /\ engine # "absent"
        /\ seen' \in Listings /\ todo' = ToDelete(seen')
        /\ Goto("delete") /\ UNCHANGED <<service, gateway, polls>>

\* The loops go through the names in the order of their list.
Current == CHOOSE n \in todo : TRUE

\* One iteration ends.
Handled(next) ==
  /\ todo' = todo \ {Current} /\ polls' = MaxPolls
  /\ Goto(next) /\ UNCHANGED <<service, gateway, seen>>

DeletePolicy ==
  /\ pc = "delete" /\ todo # {}
  /\ \/ policies[Current] = Absent /\ NotFound
     \/ /\ policies[Current] # Absent
        /\ policies' = [policies EXCEPT ![Current].status = "deleting"]
        /\ todo' = todo \ {Current} /\ Goto("delete")
        /\ UNCHANGED <<engine, lag, gateway, seen, polls>>

\* Then each deletion is awaited.
AllSent ==
  /\ pc = "delete" /\ todo = {}
  /\ todo' = ToDelete(seen) /\ polls' = MaxPolls
  /\ Goto("waitDeleted") /\ UNCHANGED <<service, gateway, seen>>

WaitDeleted ==
  /\ pc = "waitDeleted" /\ todo # {}
  /\ \/ policies[Current] = Absent /\ Handled("waitDeleted")
     \/ policies[Current].status = "failed" /\ Throw
     \/ policies[Current].status \in {"pending", "active", "deleting"} /\ PollAgain

AllDeleted ==
  /\ pc = "waitDeleted" /\ todo = {}
  /\ \/ request = "delete" /\ Goto("dropEngine") /\ UNCHANGED todo
     \/ request # "delete" /\ Goto("sync") /\ todo' = Wanted
  /\ UNCHANGED <<service, gateway, seen, polls>>

\* The service refuses to delete an engine that has policies.  The Lambda may be
\* stopped before it can say that the engine is gone.
DropEngine ==
  /\ pc = "dropEngine"
  /\ \/ Present # {} /\ Throw
     \/ /\ Present = {}
        /\ engine' = "absent" /\ lag' = {}
        /\ \E result \in {"success", "failure"} : End(result)
        /\ UNCHANGED <<policies, gateway>>

\* The statement is sent for the current policy and the wait for it begins.
Write ==
  /\ policies' = [policies EXCEPT ![Current] = Policy("pending", desired[Current])]
  /\ polls' = MaxPolls /\ Goto("waitActive")
  /\ UNCHANGED <<engine, gateway, seen, todo>>

\* UpdatePolicy of a policy that is being deleted is rejected.
Rewrite ==
  \/ policies[Current].status = "absent" /\ NotFound
  \/ policies[Current].status = "deleting" /\ Throw
  \/ policies[Current].status \notin {"absent", "deleting"} /\ Write /\ UNCHANGED lag

\* One desired policy of syncPolicies: unchanged, updated or created.
Skip ==
  /\ pc = "sync" /\ todo # {} /\ seen[Current] = desired[Current]
  /\ Handled("sync")

UpdatePolicy ==
  /\ pc = "sync" /\ todo # {} /\ seen[Current] \notin {None, desired[Current]}
  /\ Rewrite

\* Mutant: a policy just created is taken for active.
CreatePolicyAtOnce ==
  /\ pc = "sync" /\ todo # {} /\ seen[Current] = None
  /\ policies[Current] = Absent
  /\ policies' = [policies EXCEPT ![Current] = Policy("pending", desired[Current])]
  /\ todo' = todo \ {Current} /\ Goto("sync")
  /\ UNCHANGED <<engine, lag, gateway, seen, polls>>

\* A name that exists, or was deleted a moment ago, is a conflict.
CreatePolicy ==
  /\ pc = "sync" /\ todo # {} /\ seen[Current] = None
  /\ \/ /\ policies[Current] = Absent /\ Current \notin lag
        /\ Write /\ lag' = lag \cup {Current}
     \/ /\ policies[Current] # Absent \/ Current \in lag
        /\ polls' = MaxTries /\ Goto("adopt")
        /\ UNCHANGED <<service, gateway, seen, todo>>

WaitActive ==
  /\ pc = "waitActive"
  /\ \/ policies[Current].status = "active" /\ Handled("sync")
     \/ policies[Current].status = "failed" /\ Throw
     \/ policies[Current].status \in {"pending", "deleting"} /\ PollAgain

\* getOrCreatePolicy after a conflict: up to MaxTries listings; a policy that has
\* the statement is taken as it is; one that does not appear is not created again.
Adopt ==
  /\ pc = "adopt"
  /\ \E listed \in Listings :
       \/ listed[Current] = None /\ PollAgain
       \/ listed[Current] = desired[Current] /\ Handled("sync")
       \/ listed[Current] \notin {None, desired[Current]} /\ Rewrite

AllSynced ==
  /\ pc = "sync" /\ todo = {}
  /\ \/ request = "create" /\ End("success")
     \/ request = "update" /\ Goto("gateway") /\ UNCHANGED <<seen, todo, polls>>
  /\ UNCHANGED <<service, gateway>>

-----------------------------------------------------------------------------
Handler ==
  \/ CreateEngine \/ WaitEngineActive \/ Associate \/ Disassociate \/ ListAll
  \/ DeletePolicy \/ AllSent \/ WaitDeleted \/ AllDeleted \/ DropEngine
  \/ Skip \/ UpdatePolicy \/ CreatePolicy \/ WaitActive \/ Adopt \/ AllSynced

Next ==
  \/ SubmitCreate \/ SubmitUpdate \/ SubmitDelete \/ GatewayAlone
  \/ Handler \/ Fails
  \/ EngineSettles \/ \E n \in Names : PolicySettles(n) \/ CatchesUp(n)

\* The Lambda goes on or is stopped.  Nothing is asked of the service.
Spec == Init /\ [][Next]_vars /\ WF_vars(Handler)

-----------------------------------------------------------------------------
\* A creation or an update that succeeds leaves the gateway with an active engine
\* that has the desired statements and no policy it knew of besides; each is in
\* force unless an earlier request had left it, with that very statement, short
\* of ACTIVE: "unchanged, skipping" (line 225) and the adoption after a conflict
\* (line 278) look at the statement only.
SyncedOnSuccess ==
  outcome = "success" /\ request # "delete" =>
    /\ gateway /\ engine = "active"
    /\ \A n \in Wanted :
         /\ policies[n].statement = desired[n] \/ n \in leftover
         /\ policies[n].status = "active" \/ n \in leftover
    /\ \A n \in Names \ Wanted : policies[n] = Absent \/ n \in leftover

\* A deletion that succeeds removes the engine with all its policies, unless one
\* of them was on its way out already: ResourceNotFoundException of any call
\* counts as "already deleted" (line 119).
DeletedOnSuccess ==
  outcome = "success" /\ request = "delete" /\ leftover = {} =>
    engine = "absent" /\ Present = {}

\* Every request ends, whatever the service does: waits and retries are counted.
RequestsEnd == (pc # "idle") ~> (pc = "idle")
=============================================================================
