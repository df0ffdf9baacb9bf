-------------------------- MODULE PolicyEngineProofs --------------------------
(***************************************************************************)
(* Theorems about PolicyEngine, for any policies, bounds of its waits and  *)
(* number of requests.                                                     *)
(***************************************************************************)
EXTENDS PolicyEngine, TLAPS

-----------------------------------------------------------------------------
(* Types *)

\* Which request can be at which call, and what the calls of a loop rely on.
Stages ==
  /\ pc \in {"engine", "waitEngine"} => request = "create"
  /\ pc \in {"disassociate", "dropEngine"} => request = "delete"
  /\ pc \in {"sync", "waitActive", "adopt", "gateway"} => request \in {"create", "update"}
  /\ pc \in {"list", "delete", "waitDeleted"} => request # "none"
  /\ pc \notin {"idle", "engine", "disassociate", "list"} => engine # "absent"
  /\ pc \in {"sync", "waitActive", "adopt"} => todo \subseteq Wanted
  /\ pc \in {"waitActive", "adopt"} => todo # {}
  /\ pc # "idle" => outcome = "none"

TypeInv == TypeOK /\ Stages

\* The loops take a name they have still to handle.
LEMMA CurrentIsTodo == todo # {} => Current \in todo
  BY DEF Current

\* What is not there has no statement.
LEMMA AbsentOrNot ==
  ASSUME TypeOK, NEW n \in Names
  PROVE  /\ policies[n] = Absent <=> policies[n].status = "absent"
         /\ policies[n] # Absent => policies[n] \in [status : Statuses, statement : Statements]
  BY DEF TypeOK, Absent, Statuses, Settled

LEMMA EndTypeInv ==
  ASSUME TypeInv, NEW result \in {"success", "failure"}, End(result), engine' = engine \/ engine' = "absent",
         policies' = policies, engine' = "absent" => Present = {}, lag' \in SUBSET Names,
         gateway' \in BOOLEAN
  PROVE  TypeInv'
<1>1. Present' = Present
  BY DEF Present
<1>2. NothingSeen \in [Names -> Statements \cup {None}] /\ 0 \in 0 .. MaxPolls + MaxTries
  BY BoundsAssumption DEF NothingSeen
<1>3. engine' \in {"absent", "pending", "active", "failed"} /\ (engine' = "absent" => Present' = {})
  BY <1>1 DEF TypeInv, TypeOK
<1>4. TypeOK'
  BY <1>2, <1>3 DEF TypeInv, TypeOK, End
<1>5. Stages'
  BY DEF Stages, End
<1>. QED BY <1>4, <1>5 DEF TypeInv

LEMMA SubmitTypeInv ==
  ASSUME TypeInv, NEW type, NEW d \in [Names -> Statements \cup {None}], NEW first, Submit(type, d, first),
         gateway' \in BOOLEAN,
         \/ type = "create" /\ first = "engine"
         \/ type = "update" /\ first = "list"
         \/ type = "delete" /\ first = "disassociate"
  PROVE  TypeInv'
<1>1. requests' \in 0 .. MaxRequests /\ polls' \in 0 .. MaxPolls + MaxTries
  BY BoundsAssumption DEF Submit, Idle, TypeInv, TypeOK
<1>2. leftover' \subseteq Names
  BY DEF Submit, Leftover, Present
<1>3. TypeOK'
  BY <1>1, <1>2 DEF Submit, service, TypeInv, TypeOK, Present
<1>4. Stages'
  BY DEF Submit, Stages
<1>. QED BY <1>3, <1>4 DEF TypeInv

LEMMA NextTypeInv == TypeInv /\ [Next]_vars => TypeInv'
<1> SUFFICES ASSUME TypeInv, [Next]_vars PROVE TypeInv'
  OBVIOUS
<1> USE BoundsAssumption DEF service, cloudFormation
<1>1. CASE EngineSettles
  BY <1>1 DEF EngineSettles, TypeInv, TypeOK, Stages, Settled, Wanted, Present
<1>2. ASSUME NEW n \in Names, PolicySettles(n) PROVE TypeInv'
  <2>1. policies[n] # Absent /\ policies[n] \in [status : Statuses, statement : Statements]
    BY <1>2, AbsentOrNot DEF PolicySettles, TypeInv, Absent
  <2>2. policies' \in [Names -> [status : Statuses, statement : Statements] \cup {Absent}]
    <3>1. CASE \E s \in Settled : policies' = [policies EXCEPT ![n].status = s]
      BY <3>1, <2>1 DEF TypeInv, TypeOK, Statuses, Settled
    <3>2. CASE policies' = [policies EXCEPT ![n] = Absent]
      BY <3>2 DEF TypeInv, TypeOK
    <3>. QED BY <1>2, <3>1, <3>2 DEF PolicySettles, Settled
  <2>3. engine # "absent"
    BY <2>1 DEF TypeInv, TypeOK, Present
  <2>4. lag' \subseteq Names /\ UNCHANGED <<engine, gateway, cloudFormation, pc, seen, todo, polls, outcome>>
    BY <1>2 DEF PolicySettles, TypeInv, TypeOK
  <2>. QED BY <2>2, <2>3, <2>4 DEF TypeInv, TypeOK, Stages, Wanted
<1>3. ASSUME NEW n \in Names, CatchesUp(n) PROVE TypeInv'
  BY <1>3 DEF CatchesUp, TypeInv, TypeOK, Stages, Wanted, Present
<1>4. CASE SubmitCreate \/ SubmitUpdate \/ SubmitDelete
  BY <1>4, SubmitTypeInv DEF SubmitCreate, SubmitUpdate, SubmitDelete, Desired, TypeInv, TypeOK
<1>5. CASE GatewayAlone
  BY <1>5 DEF GatewayAlone, Idle, TypeInv, TypeOK, Stages, Present
<1>6. CASE Fails
  BY <1>6, EndTypeInv DEF Fails, Throw, TypeInv, TypeOK
<1>7. Throw => TypeInv'
  BY EndTypeInv DEF Throw, TypeInv, TypeOK
<1>8. NotFound => TypeInv'
  BY EndTypeInv DEF NotFound, TypeInv, TypeOK
<1>9. pc # "idle" /\ PollAgain => TypeInv'
  BY <1>7 DEF PollAgain, Goto, TypeInv, TypeOK, Stages, Wanted, Present
<1>10. CASE CreateEngine \/ WaitEngineActive
  BY <1>7, <1>9, <1>10 DEF CreateEngine, WaitEngineActive, Goto, TypeInv, TypeOK, Stages, Wanted, Present
<1>11. CASE Associate
  <2>1. ASSUME NEW result \in {"success", "failure"}, End(result) PROVE TypeInv'
    BY <1>11, <2>1, EndTypeInv DEF Associate, TypeInv, TypeOK
  <2>2. CASE request = "create" /\ Goto("list") /\ UNCHANGED <<seen, todo, polls>>
    BY <1>11, <2>2 DEF Associate, Goto, TypeInv, TypeOK, Stages, Wanted, Present
  <2>. QED BY <1>11, <2>1, <2>2 DEF Associate
<1>12. CASE Disassociate
  BY <1>12 DEF Disassociate, Goto, TypeInv, TypeOK, Stages, Present
<1>13. CASE ListAll
  <2>1. CASE engine # "absent"
    <3>1. \A listed \in Listings : listed \in [Names -> Statements \cup {None}]
      BY AbsentOrNot DEF Listings, TypeInv, Absent
    <3>2. seen' \in [Names -> Statements \cup {None}] /\ todo' \subseteq Names
      BY <1>13, <2>1, <3>1 DEF ListAll, ToDelete
    <3>. QED BY <1>13, <2>1, <3>2 DEF ListAll, Goto, TypeInv, TypeOK, Stages, Present
  <2>. QED BY <1>8, <1>13, <2>1 DEF ListAll
<1>14. CASE DeletePolicy
  <2>1. CASE policies[Current] # Absent
    <3>1. Current \in Names
      BY <1>14, CurrentIsTodo DEF DeletePolicy, TypeInv, TypeOK
    <3>2. policies[Current] \in [status : Statuses, statement : Statements]
      BY <2>1, <3>1, AbsentOrNot DEF TypeInv
    <3>3. policies' \in [Names -> [status : Statuses, statement : Statements] \cup {Absent}]
      BY <1>14, <2>1, <3>1, <3>2 DEF DeletePolicy, TypeInv, TypeOK, Statuses
    <3>. QED
      BY <1>14, <2>1, <3>3 DEF DeletePolicy, Goto, TypeInv, TypeOK, Stages
  <2>. QED BY <1>8, <1>14, <2>1 DEF DeletePolicy
<1>15. CASE AllSent
  BY <1>15 DEF AllSent, ToDelete, Goto, TypeInv, TypeOK, Stages, Present
<1>16. CASE WaitDeleted
  BY <1>7, <1>9, <1>16 DEF WaitDeleted, Handled, Goto, TypeInv, TypeOK, Stages, Present
<1>17. CASE AllDeleted
  BY <1>17 DEF AllDeleted, Goto, TypeInv, TypeOK, Stages, Wanted, Present
<1>18. CASE DropEngine
  <2>1. CASE Throw
    BY <1>7, <2>1
  <2>2. CASE ~Throw
    <3>1. PICK result \in {"success", "failure"} : End(result)
      BY <1>18, <2>2 DEF DropEngine
    <3>. QED BY <1>18, <2>2, <3>1, EndTypeInv DEF DropEngine, TypeInv, TypeOK
  <2>. QED BY <2>1, <2>2
<1>19. ASSUME Write, Current \in todo, todo \subseteq Wanted, engine # "absent", pc \in {"sync", "adopt"},
              lag' \in SUBSET Names
       PROVE  TypeInv'
  <2>1. Current \in Names /\ desired[Current] \in Statements
    BY <1>19 DEF Wanted, TypeInv, TypeOK
  <2>2. Policy("pending", desired[Current]) \in [status : Statuses, statement : Statements]
    BY <2>1 DEF Policy, Statuses
  <2>3. policies' \in [Names -> [status : Statuses, statement : Statements] \cup {Absent}]
    BY <1>19, <2>1, <2>2 DEF Write, TypeInv, TypeOK
  <2>. QED BY <1>19, <2>3 DEF Write, Goto, TypeInv, TypeOK, Stages, Wanted
<1>20. Rewrite /\ Current \in todo /\ todo \subseteq Wanted /\ engine # "absent" /\ pc \in {"sync", "adopt"}
         => TypeInv'
  BY <1>7, <1>8, <1>19 DEF Rewrite, TypeInv, TypeOK
<1>21. CASE Skip \/ WaitActive
  BY <1>7, <1>9, <1>21 DEF Skip, WaitActive, Handled, Goto, TypeInv, TypeOK, Stages, Wanted, Present
<1>22. CASE UpdatePolicy
  BY <1>20, <1>22, CurrentIsTodo DEF UpdatePolicy, TypeInv, Stages
<1>23. CASE CreatePolicy
  <2>1. Current \in todo /\ Current \in Names
    BY <1>23, CurrentIsTodo DEF CreatePolicy, TypeInv, TypeOK
  <2>2. CASE Write /\ lag' = lag \cup {Current}
    BY <1>19, <1>23, <2>1, <2>2 DEF CreatePolicy, TypeInv, TypeOK, Stages
  <2>3. CASE polls' = MaxTries /\ Goto("adopt") /\ UNCHANGED <<service, gateway, seen, todo>>
    BY <1>23, <2>3 DEF CreatePolicy, Goto, TypeInv, TypeOK, Stages, Wanted, Present
  <2>. QED BY <1>23, <2>2, <2>3 DEF CreatePolicy
<1>24. CASE Adopt
  <2>1. Current \in todo
    BY <1>24, CurrentIsTodo DEF Adopt, TypeInv, Stages
  <2>2. Handled("sync") => TypeInv'
    BY <1>24 DEF Adopt, Handled, Goto, TypeInv, TypeOK, Stages, Wanted, Present
  <2>. QED BY <1>9, <1>20, <1>24, <2>1, <2>2 DEF Adopt, TypeInv, Stages
<1>25. CASE AllSynced
  <2>1. CASE End("success")
    BY <1>25, <2>1, EndTypeInv DEF AllSynced, TypeInv, TypeOK
  <2>2. CASE Goto("gateway") /\ UNCHANGED <<seen, todo, polls>>
    BY <1>25, <2>2 DEF AllSynced, Goto, TypeInv, TypeOK, Stages, Present
  <2>. QED BY <1>25, <2>1, <2>2 DEF AllSynced
<1>26. CASE UNCHANGED vars
  BY <1>26 DEF vars, TypeInv, TypeOK, Stages, Wanted, Present
<1>. QED
  BY <1>1, <1>2, <1>3, <1>4, <1>5, <1>6, <1>10, <1>11, <1>12, <1>13, <1>14, <1>15, <1>16, <1>17,
     <1>18, <1>21, <1>22, <1>23, <1>24, <1>25, <1>26
  DEF Next, Handler

LEMMA TypesHold == Spec => []TypeInv
<1>1. ASSUME Init PROVE TypeInv
  <2>1. Present = {} /\ policies \in [Names -> [status : Statuses, statement : Statements] \cup {Absent}]
    BY <1>1 DEF Init, Present
  <2>2. NothingSeen \in [Names -> Statements \cup {None}]
    BY DEF NothingSeen
  <2>3. 0 \in 0 .. MaxPolls + MaxTries /\ 0 \in 0 .. MaxRequests
    BY BoundsAssumption
  <2>4. TypeOK
    BY <1>1, <2>1, <2>2, <2>3 DEF Init, TypeOK
  <2>. QED BY <1>1, <2>4 DEF Init, TypeInv, Stages
<1>. QED BY <1>1, NextTypeInv, PTL DEF Spec

\* Every reachable state is well typed; above all, an engine that is not there
\* has no policies, whichever calls failed before.
THEOREM PolicyEngineTypeCorrect == Spec => []TypeOK
  BY TypesHold, PTL DEF TypeInv

-----------------------------------------------------------------------------
(* A deletion *)

\* When no policy was on its way out when a deletion came, none is until the
\* handler deletes it, and none of those it has still to delete can vanish: the
\* only ResourceNotFoundException left is that of an engine that is gone.
DeleteInv ==
  request = "delete" /\ leftover = {} =>
    /\ pc \in {"disassociate", "list"} => \A n \in Names : policies[n].status # "deleting"
    /\ pc = "delete" => \A n \in todo : policies[n].status \notin {"absent", "deleting"}
    /\ outcome = "success" => engine = "absent" /\ Present = {}

LEMMA NextDeleteInv == TypeInv /\ DeleteInv /\ [Next]_vars => DeleteInv'
<1> SUFFICES ASSUME TypeInv, DeleteInv, [Next]_vars PROVE DeleteInv'
  OBVIOUS
<1> USE DEF service, cloudFormation
<1>1. CASE UNCHANGED vars
  BY <1>1 DEF vars, DeleteInv, Present
<1>2. CASE EngineSettles
  BY <1>2 DEF EngineSettles, DeleteInv, Present
<1>3. ASSUME NEW n \in Names, PolicySettles(n) PROVE DeleteInv'
  <2>1. /\ policies[n].status \in {"pending", "deleting"} /\ policies[n] # Absent
        /\ policies \in [Names -> [status : Statuses, statement : Statements] \cup {Absent}]
    BY <1>3 DEF PolicySettles, TypeInv, TypeOK, Absent
  <2>2. outcome = "success" => ~(request = "delete" /\ leftover = {})
    BY <2>1 DEF DeleteInv, Present
  <2>3. \A m \in Names : m # n => policies'[m] = policies[m]
    BY <1>3, <2>1 DEF PolicySettles, TypeInv, TypeOK
  <2>4. policies[n].status = "pending" => policies'[n].status \in Settled
    BY <1>3, <2>1, AbsentOrNot DEF PolicySettles, TypeInv
  <2>5. todo \subseteq Names
    BY DEF TypeInv, TypeOK
  <2>. QED BY <1>3, <2>1, <2>2, <2>3, <2>4, <2>5 DEF PolicySettles, DeleteInv, Settled
<1>4. ASSUME NEW n \in Names, CatchesUp(n) PROVE DeleteInv'
  BY <1>4 DEF CatchesUp, DeleteInv, Present
<1>5. CASE SubmitCreate \/ SubmitUpdate
  BY <1>5 DEF SubmitCreate, SubmitUpdate, Submit, DeleteInv
<1>6. CASE SubmitDelete
  <2>1. leftover' = {} => \A n \in Names : policies[n].status # "deleting"
    BY <1>6 DEF SubmitDelete, Submit, Leftover, Present, Absent
  <2>. QED BY <1>6, <2>1 DEF SubmitDelete, Submit, DeleteInv
<1>7. CASE GatewayAlone
  BY <1>7 DEF GatewayAlone, Idle, DeleteInv
<1>8. ASSUME End("failure"), UNCHANGED policies PROVE DeleteInv'
  BY <1>8 DEF End, DeleteInv
<1>9. Throw => DeleteInv'
  BY <1>8 DEF Throw
<1>10. CASE Fails
  BY <1>9, <1>10 DEF Fails
<1>11. PollAgain /\ pc # "delete" => DeleteInv'
  BY <1>9 DEF PollAgain, Goto, DeleteInv, Present
<1>12. CASE CreateEngine \/ WaitEngineActive \/ Associate \/ AllSynced \/ Skip \/ UpdatePolicy
            \/ CreatePolicy \/ WaitActive \/ Adopt
  <2>1. request \in {"create", "update"}
    BY <1>12 DEF CreateEngine, WaitEngineActive, Associate, AllSynced, Skip, UpdatePolicy, CreatePolicy,
       WaitActive, Adopt, TypeInv, Stages
  <2>2. request' = request
    BY <1>12 DEF CreateEngine, WaitEngineActive, Associate, AllSynced, Skip, UpdatePolicy, CreatePolicy,
       WaitActive, Adopt, Handled, Rewrite, Write, NotFound, PollAgain, Throw, End, Goto
  <2>. QED BY <2>1, <2>2 DEF DeleteInv
<1>13. CASE Disassociate
  BY <1>13 DEF Disassociate, Goto, DeleteInv, TypeInv, Stages
<1>14. CASE ListAll
  <2>1. CASE engine = "absent" /\ NotFound
    BY <2>1 DEF NotFound, End, DeleteInv, TypeInv, TypeOK, Present
  <2>2. CASE /\ engine # "absent" /\ seen' \in Listings /\ todo' = ToDelete(seen')
             /\ Goto("delete") /\ UNCHANGED <<service, gateway, polls>>
    <3>1. \A n \in todo' : n \in Names /\ policies[n].statement # None
      BY <2>2 DEF Listings, ToDelete
    <3>2. \A n \in todo' : n \in Names /\ policies[n].status # "absent"
      BY <3>1, AbsentOrNot DEF TypeInv, Absent
    <3>. QED BY <1>14, <2>2, <3>2 DEF ListAll, Goto, DeleteInv, TypeInv, Stages
  <2>. QED BY <1>14, <2>1, <2>2 DEF ListAll
<1>15. CASE DeletePolicy
  <2>1. Current \in todo /\ todo \subseteq Names
    BY <1>15, CurrentIsTodo DEF DeletePolicy, TypeInv, TypeOK
  <2>2. CASE policies[Current] = Absent /\ NotFound
    <3>1. ~(request = "delete" /\ leftover = {})
      BY <1>15, <2>1, <2>2 DEF DeletePolicy, DeleteInv, Absent
    <3>. QED BY <2>2, <3>1 DEF NotFound, End, DeleteInv
  <2>3. CASE /\ policies' = [policies EXCEPT ![Current].status = "deleting"]
             /\ todo' = todo \ {Current} /\ Goto("delete")
    BY <1>15, <2>1, <2>3 DEF DeletePolicy, Goto, DeleteInv, TypeInv, TypeOK, Stages
  <2>. QED BY <1>15, <2>2, <2>3 DEF DeletePolicy
<1>16. CASE AllSent \/ AllDeleted
  BY <1>16 DEF AllSent, AllDeleted, Goto, DeleteInv, TypeInv, Stages
<1>17. CASE WaitDeleted
  BY <1>9, <1>11, <1>17 DEF WaitDeleted, Handled, Goto, DeleteInv, TypeInv, Stages
<1>18. CASE DropEngine
  <2>1. CASE Present = {} /\ engine' = "absent" /\ UNCHANGED policies
    <3>1. PICK result \in {"success", "failure"} : End(result)
      BY <1>18, <2>1 DEF DropEngine, Throw
    <3>. QED BY <2>1, <3>1 DEF End, DeleteInv, Present
  <2>. QED BY <1>9, <1>18, <2>1 DEF DropEngine
<1>. QED
  BY <1>1, <1>2, <1>3, <1>4, <1>5, <1>6, <1>7, <1>10, <1>12, <1>13, <1>14, <1>15, <1>16, <1>17, <1>18
  DEF Next, Handler

\* A deletion that succeeds leaves no engine and no policy, whatever failed
\* before it and however the service answers, unless a policy was already being
\* deleted when it came.
THEOREM DeletionIsComplete == Spec => []DeletedOnSuccess
<1>1. Init => DeleteInv
  BY DEF Init, DeleteInv
<1>2. DeleteInv => DeletedOnSuccess
  BY DEF DeleteInv, DeletedOnSuccess
<1>. QED BY <1>1, <1>2, TypesHold, NextDeleteInv, PTL DEF Spec

-----------------------------------------------------------------------------
(* A creation or an update *)

\* The engine is created before the resource has a physical id, is active from
\* the first wait on, and the gateway refers to it before its policies change.
EngineInv ==
  /\ stack => engine \in {"active", "absent"}
  /\ pc # "idle" /\ request = "create" => ~stack
  /\ pc # "idle" /\ request = "update" => stack
  /\ request = "create" /\ pc \notin {"idle", "engine", "waitEngine"} =>
       engine = "active" /\ (pc # "gateway" => gateway)
  /\ outcome = "success" /\ request # "delete" => request # "none" /\ engine = "active" /\ gateway

InForce(n) == policies[n].status = "active" /\ policies[n].statement = desired[n]
NotShort(n) == policies[n] = Absent \/ policies[n].status = "active" \/ policies[n].statement # desired[n]

BeforeListing == pc \in {"engine", "waitEngine", "list"} \/ (pc = "gateway" /\ request = "create")
AfterDeletions ==
  pc \in {"sync", "waitActive", "adopt"} \/ (pc = "gateway" /\ request = "update") \/ outcome = "success"

\* What the request finds, beside what earlier ones left.
FreshInv ==
  \A n \in Names \ leftover :
    IF n \in Wanted THEN NotShort(n) ELSE policies[n] = Absent \/ n \notin lag

\* A listed policy with its statement is in force; an undesired one was listed
\* and has still to go.
DeletingInv ==
  /\ todo \subseteq ToDelete(seen)
  /\ \A n \in Names \ leftover :
       IF n \in Wanted THEN NotShort(n) /\ (seen[n] = desired[n] => InForce(n))
       ELSE policies[n] = Absent \/ n \in (IF pc = "delete" THEN ToDelete(seen) ELSE todo)

\* No undesired policy is left, and what the loop has passed is in force.
SyncingInv ==
  /\ \A n \in Names \ leftover :
       IF n \notin Wanted THEN policies[n] = Absent
       ELSE IF n \notin todo THEN InForce(n)
       ELSE (pc = "waitActive" /\ n = Current) \/ (NotShort(n) /\ (seen[n] = desired[n] => InForce(n)))
  /\ pc = "waitActive" =>
       policies[Current].status # "deleting" /\ policies[Current].statement = desired[Current]
  /\ pc \in {"idle", "gateway"} => todo = {}

SyncInv ==
  request \in {"create", "update"} =>
    /\ BeforeListing => FreshInv
    /\ pc \in {"delete", "waitDeleted"} => DeletingInv
    /\ AfterDeletions => SyncingInv

LEMMA NextEngineInv == TypeInv /\ EngineInv /\ [Next]_vars => EngineInv'
<1> SUFFICES ASSUME TypeInv, EngineInv, [Next]_vars PROVE EngineInv'
  OBVIOUS
<1> USE DEF service, cloudFormation
<1>1. CASE UNCHANGED vars
  BY <1>1 DEF vars, EngineInv
<1>2. CASE EngineSettles
  BY <1>2 DEF EngineSettles, EngineInv
<1>3. ASSUME NEW n \in Names, PolicySettles(n) \/ CatchesUp(n) PROVE EngineInv'
  BY <1>3 DEF PolicySettles, CatchesUp, EngineInv
<1>4. CASE SubmitCreate \/ SubmitUpdate \/ SubmitDelete \/ GatewayAlone
  <2>1. CASE SubmitCreate \/ SubmitDelete
    BY <2>1 DEF SubmitCreate, SubmitDelete, Submit, EngineInv
  <2>2. CASE SubmitUpdate
    BY <2>2 DEF SubmitUpdate, Submit, EngineInv
  <2>3. CASE GatewayAlone
    BY <2>3 DEF GatewayAlone, Idle, EngineInv
  <2>. QED BY <1>4, <2>1, <2>2, <2>3
<1>5. Throw => EngineInv'
  BY DEF Throw, End, EngineInv
<1>6. NotFound => EngineInv'
  BY DEF NotFound, End, EngineInv, TypeInv, TypeOK
<1>7. PollAgain /\ pc # "idle" => EngineInv'
  BY <1>5 DEF PollAgain, Goto, EngineInv
<1>8. CASE Fails
  BY <1>5, <1>8 DEF Fails
<1>9. CASE CreateEngine \/ WaitEngineActive
  BY <1>5, <1>7, <1>9 DEF CreateEngine, WaitEngineActive, Goto, EngineInv, TypeInv, Stages
<1>10. CASE Associate
  <2>1. engine = "active"
    BY <1>10 DEF Associate, EngineInv, TypeInv, Stages
  <2>2. CASE Goto("list")
    BY <1>10, <2>1, <2>2 DEF Associate, Goto, EngineInv
  <2>3. ASSUME request = "update", NEW result \in {"success", "failure"}, End(result) PROVE EngineInv'
    BY <1>10, <2>1, <2>3 DEF Associate, End, EngineInv
  <2>. QED BY <1>10, <2>2, <2>3 DEF Associate
<1>11. CASE Disassociate
  BY <1>11 DEF Disassociate, Goto, EngineInv, TypeInv, Stages
<1>12. CASE ListAll
  BY <1>6, <1>12 DEF ListAll, Goto, EngineInv
<1>13. CASE DeletePolicy
  BY <1>6, <1>13 DEF DeletePolicy, Goto, EngineInv
<1>14. CASE AllSent \/ WaitDeleted \/ AllDeleted
  BY <1>5, <1>7, <1>14 DEF AllSent, WaitDeleted, Handled, AllDeleted, Goto, EngineInv, TypeInv, Stages
<1>15. CASE DropEngine
  <2>1. request = "delete"
    BY <1>15 DEF DropEngine, TypeInv, Stages
  <2>2. ASSUME NEW result \in {"success", "failure"}, End(result), engine' = "absent" PROVE EngineInv'
    BY <2>1, <2>2 DEF End, EngineInv
  <2>. QED BY <1>5, <1>15, <2>2 DEF DropEngine
<1>16. Write /\ pc \in {"sync", "adopt"} => EngineInv'
  BY DEF Write, Goto, EngineInv
<1>17. Rewrite /\ pc \in {"sync", "adopt"} => EngineInv'
  BY <1>5, <1>6, <1>16 DEF Rewrite
<1>18. CASE Skip \/ UpdatePolicy \/ WaitActive
  BY <1>5, <1>7, <1>17, <1>18 DEF Skip, UpdatePolicy, WaitActive, Handled, Goto, EngineInv
<1>19. CASE CreatePolicy
  BY <1>16, <1>19 DEF CreatePolicy, Goto, EngineInv
<1>20. CASE Adopt
  BY <1>7, <1>17, <1>20 DEF Adopt, Handled, Goto, EngineInv
<1>21. CASE AllSynced
  BY <1>21 DEF AllSynced, End, Goto, EngineInv, TypeInv, Stages
<1>. QED
  BY <1>1, <1>2, <1>3, <1>4, <1>8, <1>9, <1>10, <1>11, <1>12, <1>13, <1>14, <1>15, <1>18, <1>19, <1>20,
     <1>21
  DEF Next, Handler

\* What the service does by itself breaks no policy that is in force and makes
\* none fall short.
LEMMA ServiceSyncInv ==
  ASSUME TypeInv, SyncInv, NEW p \in Names, PolicySettles(p)
  PROVE  SyncInv'
<1> USE DEF service, cloudFormation
<1>1. /\ policies[p].status \in {"pending", "deleting"} /\ policies[p] # Absent
      /\ policies \in [Names -> [status : Statuses, statement : Statements] \cup {Absent}]
  BY DEF PolicySettles, TypeInv, TypeOK, Absent
<1>2. \A n \in Names : n # p => policies'[n] = policies[n]
  BY <1>1 DEF PolicySettles
<1>3. \/ policies'[p] = Absent /\ policies[p].status = "deleting"
      \/ /\ policies'[p].statement = policies[p].statement
         /\ policies'[p].status \in Settled /\ lag' = lag
  <2>1. policies[p] \in [status : Statuses, statement : Statements]
    BY <1>1
  <2>2. CASE \E s \in Settled : policies' = [policies EXCEPT ![p].status = s] /\ UNCHANGED lag
    BY <1>1, <2>1, <2>2
  <2>3. CASE policies[p].status = "deleting" /\ policies' = [policies EXCEPT ![p] = Absent]
    BY <1>1, <2>3
  <2>. QED BY <2>2, <2>3 DEF PolicySettles, Settled
<1>4. /\ UNCHANGED <<request, desired, leftover, pc, seen, todo, outcome>>
      /\ \A n \in Names : n # p /\ n \notin lag => n \notin lag'
      /\ UNCHANGED <<Wanted, BeforeListing, AfterDeletions, Current, ToDelete(seen)>>
  BY DEF PolicySettles, Wanted, BeforeListing, AfterDeletions, Current, ToDelete
<1>5. \A n \in Names : /\ policies[n] = Absent => policies'[n] = Absent
                       /\ InForce(n) => InForce(n)'
                       /\ NotShort(n) => NotShort(n)'
  BY <1>1, <1>2, <1>3, <1>4 DEF InForce, NotShort
<1>6. FreshInv => FreshInv'
  BY <1>1, <1>2, <1>3, <1>4, <1>5 DEF FreshInv
<1>7. DeletingInv => DeletingInv'
  BY <1>4, <1>5 DEF DeletingInv
<1>8. SyncingInv /\ AfterDeletions => SyncingInv'
  <2> SUFFICES ASSUME SyncingInv, AfterDeletions PROVE SyncingInv'
    OBVIOUS
  <2>1. pc = "waitActive" => Current \in Names
    BY CurrentIsTodo DEF TypeInv, TypeOK, Stages
  <2>2. pc = "waitActive" =>
          policies'[Current].status # "deleting" /\ policies'[Current].statement = desired[Current]
    BY <1>1, <1>2, <1>3, <2>1 DEF SyncingInv, Settled
  <2>. QED BY <1>4, <1>5, <2>2 DEF SyncingInv
<1>. QED BY <1>4, <1>6, <1>7, <1>8 DEF SyncInv

\* A step that touches none of this, except that listings catch up.
LEMMA StillSyncInv ==
  ASSUME SyncInv, UNCHANGED <<policies, request, desired, leftover, pc, seen, todo, outcome>>,
         lag' \subseteq lag
  PROVE  SyncInv'
<1>1. UNCHANGED <<Wanted, BeforeListing, AfterDeletions, Current, ToDelete(seen)>>
  BY DEF Wanted, BeforeListing, AfterDeletions, Current, ToDelete
<1>2. \A n \in Names : UNCHANGED <<InForce(n), NotShort(n)>>
  BY DEF InForce, NotShort
<1>. QED BY <1>1, <1>2 DEF SyncInv, FreshInv, DeletingInv, SyncingInv

\* One more policy of the loop is in force.
LEMMA HandledSyncInv ==
  ASSUME TypeInv, SyncInv, request # "delete", pc \in {"sync", "waitActive", "adopt"}, todo # {},
         Handled("sync"), Current \notin leftover => InForce(Current)
  PROVE  SyncInv'
<1> USE DEF service, cloudFormation
<1>1. Current \in todo /\ request \in {"create", "update"} /\ todo' = todo \ {Current} /\ pc' = "sync"
  BY CurrentIsTodo DEF TypeInv, Stages, Handled, Goto
<1>2. UNCHANGED <<policies, request, desired, leftover, seen, outcome, Wanted>>
  BY DEF Handled, Goto, Wanted
<1>3. \A n \in Names : UNCHANGED <<InForce(n), NotShort(n)>>
  BY <1>2 DEF InForce, NotShort
<1>4. SyncingInv
  BY <1>1 DEF SyncInv, AfterDeletions
<1>5. SyncingInv'
  BY <1>1, <1>2, <1>3, <1>4 DEF SyncingInv
<1>. QED BY <1>1, <1>5 DEF SyncInv, BeforeListing

\* The statement of the current policy is written, and awaited.
LEMMA WriteSyncInv ==
  ASSUME TypeInv, SyncInv, request # "delete", pc \in {"sync", "adopt"}, todo # {}, Write
  PROVE  SyncInv'
<1> USE DEF service, cloudFormation
<1>1. /\ Current \in todo /\ Current \in Wanted /\ Current \in Names /\ Current' = Current
      /\ request \in {"create", "update"} /\ pc' = "waitActive"
  BY CurrentIsTodo DEF TypeInv, TypeOK, Stages, Write, Goto, Current
<1>2. UNCHANGED <<request, desired, leftover, seen, todo, outcome, Wanted>>
  BY DEF Write, Goto, Wanted
<1>3. /\ \A n \in Names : n # Current => policies'[n] = policies[n]
      /\ policies'[Current] = Policy("pending", desired[Current])
  BY <1>1 DEF Write, TypeInv, TypeOK
<1>4. SyncingInv
  BY <1>1 DEF SyncInv, AfterDeletions
<1>5. ASSUME NEW n \in Names \ leftover'
      PROVE  IF n \notin Wanted' THEN policies'[n] = Absent
             ELSE IF n \notin todo' THEN InForce(n)'
             ELSE (pc' = "waitActive" /\ n = Current')
                  \/ (NotShort(n)' /\ (seen'[n] = desired'[n] => InForce(n)'))
  <2>1. CASE n = Current
    BY <1>1, <1>2, <2>1
  <2>2. CASE n # Current
    <3>1. /\ n \notin Wanted => policies[n] = Absent
          /\ n \in Wanted \ todo => InForce(n)
          /\ n \in Wanted /\ n \in todo => NotShort(n) /\ (seen[n] = desired[n] => InForce(n))
      BY <1>2, <1>4, <2>2 DEF SyncingInv
    <3>2. n \in Names /\ policies'[n] = policies[n] /\ seen' = seen /\ desired' = desired /\ Wanted' = Wanted
          /\ todo' = todo
      BY <1>2, <1>3, <2>2
    <3>3. (InForce(n) => InForce(n)') /\ (NotShort(n) => NotShort(n)')
      BY <3>2 DEF InForce, NotShort
    <3>4. CASE n \notin Wanted
      BY <3>1, <3>2, <3>4
    <3>5. CASE n \in Wanted \ todo
      BY <3>1, <3>2, <3>3, <3>5
    <3>6. CASE n \in Wanted /\ n \in todo
      BY <3>1, <3>2, <3>3, <3>6
    <3>. QED BY <3>4, <3>5, <3>6
  <2>. QED BY <2>1, <2>2
<1>6. policies'[Current'].status # "deleting" /\ policies'[Current'].statement = desired'[Current']
  BY <1>1, <1>2, <1>3 DEF Policy
<1>7. SyncingInv'
  BY <1>1, <1>5, <1>6 DEF SyncingInv
<1>. QED BY <1>1, <1>7 DEF SyncInv, BeforeListing

\* What the request that comes finds: what falls short is left over.
LEMMA SubmitSyncInv ==
  ASSUME TypeInv, NEW type \in {"create", "update"}, NEW d, NEW first \in {"engine", "list"},
         Submit(type, d, first)
  PROVE  SyncInv'
<1> USE DEF service, cloudFormation
<1>1. /\ UNCHANGED <<policies, lag>> /\ request' = type /\ desired' = d /\ pc' = first /\ outcome' = "none"
      /\ leftover' = Leftover(type, d)
  BY DEF Submit
<1>2. ASSUME NEW n \in Names \ leftover'
      PROVE  IF n \in Wanted' THEN NotShort(n)' ELSE policies'[n] = Absent \/ n \notin lag'
  <2>1. CASE policies[n] = Absent
    BY <1>1, <2>1 DEF NotShort
  <2>2. CASE policies[n] # Absent
    <3>1. IF d[n] = None THEN n \notin lag ELSE policies[n].status = "active" \/ policies[n].statement # d[n]
      BY <1>1, <1>2, <2>2 DEF Leftover, Present
    <3>. QED BY <1>1, <3>1 DEF NotShort, Wanted
  <2>. QED BY <2>1, <2>2
<1>. QED BY <1>1, <1>2 DEF SyncInv, FreshInv, BeforeListing, AfterDeletions

LEMMA NextSyncInv == TypeInv /\ SyncInv /\ [Next]_vars => SyncInv'
<1> SUFFICES ASSUME TypeInv, SyncInv, [Next]_vars PROVE SyncInv'
  OBVIOUS
<1> USE DEF service, cloudFormation
<1>1. CASE UNCHANGED vars \/ EngineSettles \/ \E n \in Names : CatchesUp(n)
  BY <1>1, StillSyncInv DEF vars, EngineSettles, CatchesUp
<1>2. CASE \E n \in Names : PolicySettles(n)
  BY <1>2, ServiceSyncInv
<1>3. CASE SubmitCreate \/ SubmitUpdate
  BY <1>3, SubmitSyncInv DEF SubmitCreate, SubmitUpdate
<1>4. CASE SubmitDelete
  BY <1>4 DEF SubmitDelete, Submit, SyncInv
<1>5. CASE GatewayAlone
  BY <1>5 DEF GatewayAlone, Idle, SyncInv, BeforeListing, AfterDeletions
<1>6. ASSUME End("failure") PROVE SyncInv'
  BY <1>6 DEF End, SyncInv, BeforeListing, AfterDeletions
<1>7. Throw => SyncInv'
  BY <1>6 DEF Throw
<1>8. CASE Fails
  BY <1>7, <1>8 DEF Fails
<1>9. CASE Handler /\ request = "delete"
  <2>1. request' = request
    BY <1>9 DEF Handler, CreateEngine, WaitEngineActive, Associate, Disassociate, ListAll, DeletePolicy,
       AllSent, WaitDeleted, AllDeleted, DropEngine, Skip, UpdatePolicy, CreatePolicy, WaitActive, Adopt,
       AllSynced, Handled, Rewrite, Write, NotFound, PollAgain, Throw, End, Goto
  <2>. QED BY <1>9, <2>1 DEF SyncInv
<1>10. CASE Handler /\ request # "delete"
  <2>. USE <1>10
  <2>1. NotFound => SyncInv'
    BY <1>6 DEF NotFound
  <2>2. PollAgain /\ pc # "idle" => SyncInv'
    BY <1>7, StillSyncInv DEF PollAgain, Goto
  <2>3. CASE CreateEngine \/ WaitEngineActive \/ Disassociate \/ DropEngine
    <3>1. CASE CreateEngine
      BY <3>1 DEF CreateEngine, Goto, SyncInv, BeforeListing, AfterDeletions, FreshInv, NotShort, Wanted,
         TypeInv, Stages
    <3>2. CASE /\ engine = "active" /\ pc = "waitEngine" /\ Goto("gateway")
               /\ UNCHANGED <<service, gateway, seen, todo, polls>>
      BY <3>2 DEF Goto, SyncInv, BeforeListing, AfterDeletions, FreshInv, NotShort, Wanted, TypeInv, Stages
    <3>3. CASE WaitEngineActive
      BY <1>7, <2>2, <3>2, <3>3 DEF WaitEngineActive
    <3>. QED BY <2>3, <3>1, <3>3 DEF Disassociate, DropEngine, TypeInv, Stages
  <2>4. CASE Associate
    <3>1. CASE request = "create" /\ Goto("list")
      BY <2>4, <3>1 DEF Associate, Goto, SyncInv, BeforeListing, AfterDeletions, FreshInv, NotShort, Wanted,
         TypeInv, Stages
    <3>2. CASE request = "update" /\ End("success")
      <4>1. SyncingInv /\ todo = {}
        BY <2>4, <3>2 DEF Associate, SyncInv, SyncingInv, AfterDeletions
      <4>2. SyncingInv'
        BY <2>4, <3>2, <4>1 DEF Associate, End, SyncingInv, InForce, Wanted
      <4>. QED BY <3>2, <4>2 DEF End, SyncInv, BeforeListing
    <3>. QED BY <1>6, <2>4, <3>1, <3>2 DEF Associate
  <2>5. CASE ListAll
    <3>1. CASE /\ seen' \in Listings /\ todo' = ToDelete(seen')
               /\ Goto("delete") /\ UNCHANGED <<service, gateway, polls>>
      <4>1. /\ FreshInv /\ request \in {"create", "update"}
            /\ policies \in [Names -> [status : Statuses, statement : Statements] \cup {Absent}]
        BY <2>5 DEF ListAll, SyncInv, BeforeListing, TypeInv, TypeOK, Stages
      <4>2. PICK hidden \in SUBSET lag :
              seen' = [n \in Names |-> IF n \in hidden THEN None ELSE policies[n].statement]
        BY <3>1 DEF Listings
      <4>3. ASSUME NEW n \in Names \ leftover, n \in Wanted
            PROVE  NotShort(n) /\ (seen'[n] = desired[n] => InForce(n))
        <5>1. NotShort(n) /\ desired[n] # None
          BY <4>1, <4>3 DEF FreshInv, Wanted
        <5>2. seen'[n] = desired[n] => policies[n].statement = desired[n] /\ policies[n] # Absent
          BY <4>2, <5>1 DEF Absent
        <5>. QED BY <5>1, <5>2 DEF NotShort, InForce
      <4>4. ASSUME NEW n \in Names \ leftover, n \notin Wanted, policies[n] # Absent
            PROVE  n \in ToDelete(seen')
        <5>1. n \notin lag
          BY <4>1, <4>4 DEF FreshInv
        <5>2. policies[n].statement # None
          BY <4>1, <4>4, StatementsAssumption
        <5>. QED BY <4>2, <4>4, <5>1, <5>2 DEF ToDelete
      <4>5. UNCHANGED <<Wanted, request, desired, leftover, policies>> /\ ToDelete(seen)' = ToDelete(seen')
        BY <3>1 DEF Goto, Wanted, ToDelete
      <4>6. DeletingInv'
        BY <3>1, <4>3, <4>4, <4>5 DEF DeletingInv, Goto, InForce, NotShort
      <4>. QED BY <2>5, <3>1, <4>6 DEF ListAll, Goto, SyncInv, BeforeListing, AfterDeletions, TypeInv, Stages
    <3>. QED BY <2>1, <2>5, <3>1 DEF ListAll
  <2>6. CASE DeletePolicy \/ AllSent \/ WaitDeleted \/ AllDeleted
    <3>1. DeletingInv /\ request \in {"create", "update"} /\ pc \in {"delete", "waitDeleted"}
      BY <2>6 DEF DeletePolicy, AllSent, WaitDeleted, AllDeleted, SyncInv, TypeInv, TypeOK, Stages
    <3>2. ASSUME UNCHANGED <<request, desired, leftover, seen, outcome>>, pc' \in {"delete", "waitDeleted"},
                 DeletingInv'
          PROVE  SyncInv'
      BY <3>1, <3>2 DEF SyncInv, BeforeListing, AfterDeletions, TypeInv, Stages
    <3>3. CASE DeletePolicy
      <4>1. Current \in todo /\ Current \in Names /\ Current \notin Wanted
        BY <3>1, <3>3, CurrentIsTodo DEF DeletePolicy, DeletingInv, ToDelete
      <4>2. CASE policies' = [policies EXCEPT ![Current].status = "deleting"] /\ todo' = todo \ {Current}
                 /\ Goto("delete") /\ UNCHANGED <<engine, lag, gateway, seen, polls>>
        <5>1. \A n \in Names : n # Current => policies'[n] = policies[n]
          BY <4>1, <4>2 DEF TypeInv, TypeOK
        <5>2. UNCHANGED <<request, desired, leftover, seen, outcome>> /\ pc = "delete" /\ pc' = "delete"
              /\ Wanted' = Wanted /\ ToDelete(seen)' = ToDelete(seen)
          BY <3>3, <4>2 DEF DeletePolicy, Goto, Wanted, ToDelete
        <5>3. DeletingInv'
          BY <3>1, <4>1, <4>2, <5>1, <5>2 DEF DeletingInv, NotShort, InForce
        <5>. QED BY <3>2, <5>2, <5>3
      <4>. QED BY <2>1, <3>3, <4>2 DEF DeletePolicy
    <3>4. CASE AllSent
      <4>1. /\ UNCHANGED <<request, desired, leftover, seen, outcome, policies>>
            /\ pc = "delete" /\ pc' = "waitDeleted"
            /\ Wanted' = Wanted /\ ToDelete(seen)' = ToDelete(seen) /\ todo' = ToDelete(seen)
        BY <3>4 DEF AllSent, Goto, Wanted, ToDelete
      <4>2. DeletingInv'
        BY <3>1, <4>1 DEF DeletingInv, NotShort, InForce
      <4>. QED BY <3>2, <4>1, <4>2
    <3>5. CASE WaitDeleted
      <4>1. CASE policies[Current] = Absent /\ Handled("waitDeleted")
        <5>1. /\ UNCHANGED <<request, desired, leftover, seen, outcome, policies>>
              /\ pc = "waitDeleted" /\ pc' = pc
              /\ Wanted' = Wanted /\ ToDelete(seen)' = ToDelete(seen) /\ todo' = todo \ {Current}
          BY <3>5, <4>1 DEF WaitDeleted, Handled, Goto, Wanted, ToDelete
        <5>2. DeletingInv'
          BY <3>1, <4>1, <5>1 DEF DeletingInv, NotShort, InForce
        <5>. QED BY <3>2, <5>1, <5>2
      <4>. QED BY <1>7, <2>2, <3>5, <4>1 DEF WaitDeleted
    <3>6. CASE AllDeleted
      <4>1. /\ UNCHANGED <<request, desired, leftover, seen, outcome, policies, Wanted>>
            /\ pc = "waitDeleted" /\ todo = {}
            /\ pc' = "sync" /\ todo' = Wanted
        BY <3>6 DEF AllDeleted, Goto, Wanted
      <4>2. SyncingInv'
        BY <3>1, <4>1 DEF DeletingInv, SyncingInv, NotShort, InForce
      <4>. QED BY <4>1, <4>2 DEF SyncInv, BeforeListing
    <3>. QED BY <2>6, <3>3, <3>4, <3>5, <3>6
  <2>7. CASE Skip \/ UpdatePolicy \/ CreatePolicy \/ WaitActive \/ Adopt
    <3>1. SyncingInv /\ Current \in todo /\ Current \in Names /\ Current \in Wanted /\ todo # {}
          /\ request \in {"create", "update"} /\ pc \in {"sync", "waitActive", "adopt"}
      BY <2>7, CurrentIsTodo DEF Skip, UpdatePolicy, CreatePolicy, WaitActive, Adopt, SyncInv, AfterDeletions,
         TypeInv, TypeOK, Stages
    <3>2. Rewrite /\ pc \in {"sync", "adopt"} => SyncInv'
      BY <1>7, <2>1, <3>1, WriteSyncInv DEF Rewrite
    <3>3. pc \in {"sync", "adopt"} /\ Current \notin leftover =>
            NotShort(Current) /\ (seen[Current] = desired[Current] => InForce(Current))
      BY <3>1 DEF SyncingInv
    <3>4. CASE Skip
      BY <3>1, <3>3, <3>4, HandledSyncInv DEF Skip
    <3>5. CASE UpdatePolicy
      BY <3>2, <3>5 DEF UpdatePolicy
    <3>6. CASE CreatePolicy
      <4>1. CASE polls' = MaxTries /\ Goto("adopt") /\ UNCHANGED <<service, gateway, seen, todo>>
        <5>1. UNCHANGED <<request, desired, leftover, seen, todo, outcome, policies, Wanted>> /\ pc = "sync"
              /\ pc' = "adopt"
          BY <3>6, <4>1 DEF CreatePolicy, Goto, Wanted
        <5>2. SyncingInv'
          BY <3>1, <5>1 DEF SyncingInv, NotShort, InForce
        <5>. QED BY <5>1, <5>2 DEF SyncInv, BeforeListing
      <4>2. CASE Write
        BY <3>1, <3>6, <4>2, WriteSyncInv DEF CreatePolicy
      <4>. QED BY <3>6, <4>1, <4>2 DEF CreatePolicy
    <3>7. CASE WaitActive
      <4>1. CASE policies[Current].status = "active" /\ Handled("sync")
        <5>1. InForce(Current)
          BY <3>1, <3>7, <4>1 DEF WaitActive, SyncingInv, InForce
        <5>. QED BY <3>1, <4>1, <5>1, HandledSyncInv
      <4>. QED BY <1>7, <2>2, <3>7, <4>1 DEF WaitActive
    <3>8. CASE Adopt
      <4>1. PICK listed \in Listings :
              \/ listed[Current] = None /\ PollAgain
              \/ listed[Current] = desired[Current] /\ Handled("sync")
              \/ listed[Current] \notin {None, desired[Current]} /\ Rewrite
        BY <3>8 DEF Adopt
      <4>2. CASE listed[Current] = desired[Current] /\ Handled("sync")
        <5>1. desired[Current] # None
          BY <3>1 DEF Wanted
        <5>2. policies[Current].statement = desired[Current] /\ policies[Current] # Absent
          BY <3>1, <4>2, <5>1 DEF Listings, Absent
        <5>3. Current \notin leftover => InForce(Current)
          BY <3>3, <3>8, <5>2 DEF Adopt, NotShort, InForce
        <5>. QED BY <3>1, <4>2, <5>3, HandledSyncInv
      <4>. QED BY <2>2, <3>2, <3>8, <4>1, <4>2 DEF Adopt
    <3>. QED BY <2>7, <3>4, <3>5, <3>6, <3>7, <3>8
  <2>8. CASE AllSynced
    <3>1. SyncingInv /\ request \in {"create", "update"} /\ todo = {}
      BY <2>8 DEF AllSynced, SyncInv, AfterDeletions, TypeInv, Stages
    <3>2. CASE request = "create" /\ End("success")
      <4>1. SyncingInv'
        BY <2>8, <3>1, <3>2 DEF AllSynced, End, SyncingInv, InForce, Wanted
      <4>. QED BY <3>2, <4>1 DEF End, SyncInv, BeforeListing
    <3>3. CASE request = "update" /\ Goto("gateway") /\ UNCHANGED <<seen, todo, polls>>
      <4>1. SyncingInv'
        BY <2>8, <3>1, <3>3 DEF AllSynced, Goto, SyncingInv, InForce, Wanted
      <4>. QED BY <3>3, <4>1 DEF Goto, SyncInv, BeforeListing
    <3>. QED BY <2>8, <3>2, <3>3 DEF AllSynced
  <2>. QED BY <1>10, <2>3, <2>4, <2>5, <2>6, <2>7, <2>8 DEF Handler
<1>. QED BY <1>1, <1>2, <1>3, <1>4, <1>5, <1>8, <1>9, <1>10 DEF Next

\* After a creation or an update that succeeds the gateway is attached to an
\* active engine with exactly the desired policies in force, for any policies,
\* whatever was lost, refused or stopped before: the exceptions are those that an
\* earlier request left short, or too new to be listed.
THEOREM SyncIsComplete == Spec => []SyncedOnSuccess
<1>1. Init => EngineInv /\ SyncInv
  BY DEF Init, EngineInv, SyncInv
<1>2. TypeInv /\ EngineInv /\ SyncInv => SyncedOnSuccess
  <2> SUFFICES ASSUME TypeInv, EngineInv, SyncInv, outcome = "success", request # "delete"
               PROVE  /\ gateway /\ engine = "active"
                      /\ \A n \in Wanted :
                           /\ policies[n].statement = desired[n] \/ n \in leftover
                           /\ policies[n].status = "active" \/ n \in leftover
                      /\ \A n \in Names \ Wanted : policies[n] = Absent \/ n \in leftover
    BY DEF SyncedOnSuccess
  <2>1. pc = "idle" /\ request \in {"create", "update"}
    BY DEF EngineInv, TypeInv, TypeOK, Stages
  <2>2. SyncingInv /\ todo = {}
    BY <2>1 DEF SyncInv, AfterDeletions, SyncingInv
  <2>. QED BY <2>2 DEF EngineInv, SyncingInv, InForce, Wanted
<1>. QED BY <1>1, <1>2, TypesHold, NextEngineInv, NextSyncInv, PTL DEF Spec
=============================================================================
