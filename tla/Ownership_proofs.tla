---------------------------- MODULE Ownership_proofs ---------------------------
(***************************************************************************)
(* A CR never owns two resources, and owns none once its finalizer went:   *)
(* what the worker and the status know of the resources of the CR, from    *)
(* the request of Create to the answer of Delete. Two invariants on top of *)
(* IInv: SInv, what the definition says of the step the worker is at; and  *)
(* OInv, what holds of the resources as long as no create was cut short.   *)
(***************************************************************************)
EXTENDS RestResources_proofs, FiniteSetTheorems

(* The definitions this CR has met or may meet.                            *)
InUse == IF "definition" \in Disturbances THEN Definitions ELSE {def}

(* The definitions the worker reads are among those.                       *)
InfoInUse ==
  /\ InUse \in Lives
  /\ def \in InUse \cup {NoDefinition}
  /\ info \in InUse \cup {NoDefinition}

(* What the definition says of the step the worker is at.                  *)
StepDeclared ==
  /\ pc = "observeAction" => info.observe # "verbs"
  /\ pc = "record" => info[verb] = "requeue"
  /\ pc = "wait" /\ verb # "delete" => info[verb] = "blocking"
  /\ pc = "reread" => verb # "delete" /\ info[verb] = "blocking" /\ info.postGet
  /\ pc \in {"persist", "persistAction"} => verb # "delete"
  /\ pc \in {"action", "persistAction"} => info[verb] = "restaction"
  /\ pc = "verifyGone" => info.delete = "restaction"
  /\ pc \in DeleteSteps => verb = "delete"

(* Delete alone concludes, and nothing follows it.                         *)
VerdictIsLast == verdict # "held" => verb = "delete"

(* Every identifier in use was handed out.                                 *)
OwnedIsIssued == Owned \subseteq issued

SInv == InfoInUse /\ StepDeclared /\ VerdictIsLast /\ OwnedIsIssued

(* The running operations that create a resource.                          *)
Creating == {o \in Operations : ops[o].state = "running" /\ ops[o].action = "create"}

-----------------------------------------------------------------------------
USE DEF apiVars, rbacVars, desiredVars, statusVars, handleVars, localVars, auditVars

(* What a step can do to the resources a CR owns.                          *)

(* No step but a request of Create adds to them.                           *)
Shrinks ==
  /\ Owned' \subseteq Owned
  /\ issued \subseteq issued'
  /\ Creating' \subseteq Creating
  /\ \A o \in Creating' : ops'[o] = ops[o]
  /\ live' \subseteq live \cup {ops[o].target : o \in Creating \ Creating'}

(* Owned in terms of the running operations.                               *)
LEMMA OwnedIsLiveOrCreating ==
  /\ Owned = live \cup {ops[o].target : o \in Creating}
  /\ Owned' = live' \cup {ops'[o].target : o \in Creating'}
<1>1. Owned = live \cup {ops[o].target : o \in Creating}
  BY DEF Owned, Targets, Creating
<1>2. Owned' = live' \cup {ops'[o].target : o \in Creating'}
  BY DEF Owned, Targets, Creating
<1>3. QED
  BY <1>1, <1>2

(* A step that leaves the service alone.                                   *)
LEMMA NothingShrinks == ASSUME UNCHANGED apiVars PROVE Shrinks
<1>1. Creating' = Creating /\ live' = live /\ issued' = issued /\ ops' = ops
  BY DEF Creating, apiVars
<1>2. QED
  BY <1>1, OwnedIsLiveOrCreating DEF Shrinks

(* A resource is deleted, or its content changed.                          *)
LEMMA ChangeShrinks ==
  ASSUME NEW r, NEW g, DeleteNow(r) \/ UpdateNow(r, g)
  PROVE  Shrinks
<1>1. Creating' = Creating /\ live' \subseteq live /\ issued' = issued /\ ops' = ops
  BY DEF Creating, DeleteNow, UpdateNow
<1>2. QED
  BY <1>1, OwnedIsLiveOrCreating DEF Shrinks

(* An operation other than a create is started.                            *)
LEMMA AcceptShrinks ==
  ASSUME IInv, NEW o \in FreeOperations, NEW action \in {"update", "delete"},
         NEW r \in Resources, NEW g \in Nat, Accept(o, action, r, g)
  PROVE  Shrinks
<1>1. /\ o \in Operations
      /\ ops[o].state # "running"
      /\ ops'[o].action # "create"
      /\ \A p \in Operations : p # o => ops'[p] = ops[p]
      /\ live' = live /\ issued \subseteq issued'
  BY AcceptKeepsOperations DEF MutatingVerbs, FreeOperations, Accept
<1>2. Creating' = Creating /\ \A p \in Creating : ops'[p] = ops[p]
  BY <1>1 DEF Creating
<1>3. QED
  BY <1>1, <1>2, OwnedIsLiveOrCreating DEF Shrinks

(* An operation ends: what it created becomes live or never existed.       *)
LEMMA OperationShrinks ==
  ASSUME IInv, NEW o \in Operations,
         OperationSucceeds(o) \/ OperationFails(o) \/ OperationObsolete(o)
  PROVE  Shrinks
<1>1. /\ ops[o].state = "running" /\ ops'[o].state # "running"
      /\ \A p \in Operations : p # o => ops'[p] = ops[p]
      /\ issued' = issued
      /\ live' \subseteq live \cup {ops[o].target}
      /\ ops[o].action # "create" => live' \subseteq live
  BY DEF OperationSucceeds, OperationFails, OperationObsolete, IInv, TypeOK, ExternalTypeOK,
     OperationRecord, OperationStates, MutatingVerbs
<1>2. Creating' = Creating \ {o} /\ \A p \in Creating' : ops'[p] = ops[p]
  BY <1>1 DEF Creating
<1>3. live' \subseteq live \cup {ops[p].target : p \in Creating \ Creating'}
  <2>1. CASE o \in Creating
    BY <1>1, <1>2, <2>1
  <2>2. CASE o \notin Creating
    BY <1>1, <2>2 DEF Creating
  <2>3. QED
    BY <2>1, <2>2
<1>4. QED
  BY <1>1, <1>2, <1>3, OwnedIsLiveOrCreating DEF Shrinks

(* So only the two requests of Create can add to what the CR owns.         *)
LEMMA OnlyCreateAdds ==
  ASSUME IInv, [Next]_vars, ~CreateRequest, ~CreateViaRestAction
  PROVE  Shrinks
<1>1. CASE Observe
  <2>1. UNCHANGED apiVars
    BY <1>1 DEF Observe, ObserveBegin, ObserveViaRestAction, Poll, PostGet, ClearSucceeded,
       MarkFailed, ClearFailed, LookupUnobservable, LookupNotFound, LookupFound, Project,
       MarkAvailable, UpdateStatus, PatchHandle, Continue, Return
  <2>2. QED
    BY <2>1, NothingShrinks
<1>2. CASE CreateOrUpdate
  <2>1. CASE UpdateRequest
    <3>1. mg.generation \in Nat
      BY DEF IInv, TypeOK, HandlerTypeOK
    <3>2. PICK r \in Reached(statusId) :
            \/ UpdateNow(r, mg.generation)
            \/ \E o \in FreeOperations : Accept(o, "update", r, mg.generation)
      BY <2>1 DEF UpdateRequest
    <3>3. r \in Resources
      BY <3>2 DEF Reached, IInv, TypeOK, ExternalTypeOK
    <3>4. QED
      BY <3>1, <3>2, <3>3, ChangeShrinks, AcceptShrinks
  <2>2. CASE UpdateViaRestAction
    BY <2>2, ChangeShrinks, NothingShrinks DEF UpdateViaRestAction
  <2>3. CASE ~UpdateRequest /\ ~UpdateViaRestAction
    <3>1. UNCHANGED apiVars
      BY <1>2, <2>3 DEF CreateOrUpdate, CreateBegin, UpdateBegin, Begin, EnsureRole,
         EnsureBinding, EnsureFailureIgnored, RequestRejected, Record, Wait, Reread, Persist,
         PersistAction, UpdateStatus, PatchHandle, Continue, Return
    <3>2. QED
      BY <3>1, NothingShrinks
  <2>4. QED
    BY <2>1, <2>2, <2>3
<1>3. CASE Delete
  <2>1. CASE DeleteRequest
    <3>1. mg.generation \in Nat
      BY DEF IInv, TypeOK, HandlerTypeOK
    <3>2. PICK r \in Reached(statusId) :
            \/ DeleteNow(r)
            \/ \E o \in FreeOperations : Accept(o, "delete", r, mg.generation)
      BY <2>1 DEF DeleteRequest
    <3>3. r \in Resources
      BY <3>2 DEF Reached, IInv, TypeOK, ExternalTypeOK
    <3>4. QED
      BY <3>1, <3>2, <3>3, ChangeShrinks, AcceptShrinks
  <2>2. CASE DeleteViaRestAction
    BY <2>2, ChangeShrinks, NothingShrinks DEF DeleteViaRestAction
  <2>3. CASE ~DeleteRequest /\ ~DeleteViaRestAction
    <3>1. UNCHANGED apiVars
      BY <1>3, <2>3 DEF Delete, DeleteBegin, DeleteUnaddressable, DeleteNotFound,
         DeleteRejected, DeleteWait, VerifyGone, DropBinding, DropRole,
         TeardownFailureIgnored, Release, ConcludeUntouched, Continue, Return
    <3>2. QED
      BY <3>1, NothingShrinks
  <2>4. QED
    BY <2>1, <2>2, <2>3
<1>4. CASE User
  BY <1>4, NothingShrinks DEF User
<1>5. CASE Service
  BY <1>5, OperationShrinks DEF Service
<1>6. CASE Disturb
  BY <1>6, OperationShrinks, ChangeShrinks, NothingShrinks
     DEF Disturb, DeletedOutOfBand, ChangedOutOfBand
<1>7. CASE Interrupt \/ UNCHANGED vars
  BY <1>7, NothingShrinks DEF Interrupt, Abandon, vars
<1>8. QED
  BY <1>1, <1>2, <1>3, <1>4, <1>5, <1>6, <1>7 DEF Next, Reconcile, Gone

(* What the two requests add is one identifier, handed out with it; a      *)
(* delegated create adds nothing when there is something already.          *)
LEMMA CreateAddsOne ==
  ASSUME IInv, CreateRequest \/ CreateViaRestAction
  PROVE  \/ Shrinks
         \/ \E r \in Resources : Owned' \subseteq Owned \cup {r} /\ issued' = issued \cup {r}
<1>1. mg.generation \in Nat
  BY DEF IInv, TypeOK, HandlerTypeOK
<1>2. ASSUME NEW r \in Assignable, CreateNow(r, mg.generation)
      PROVE  Owned' \subseteq Owned \cup {r} /\ issued' = issued \cup {r}
  <2>1. Creating' = Creating /\ live' = live \cup {r} /\ issued' = issued \cup {r} /\ ops' = ops
    BY <1>2 DEF CreateNow, Creating
  <2>2. QED
    BY <2>1, OwnedIsLiveOrCreating
<1>3. ASSUME NEW r \in Assignable, NEW o \in FreeOperations, Accept(o, "create", r, mg.generation)
      PROVE  Owned' \subseteq Owned \cup {r} /\ issued' = issued \cup {r}
  <2>1. /\ ops'[o].target = r
        /\ \A p \in Operations : p # o => ops'[p] = ops[p]
        /\ live' = live /\ issued' = issued \cup {r}
    BY <1>3 DEF Accept, IInv, TypeOK, ExternalTypeOK, FreeOperations
  <2>2. Creating' \subseteq Creating \cup {o} /\ \A p \in Creating' : p # o => ops'[p] = ops[p]
    BY <2>1 DEF Creating
  <2>3. QED
    BY <2>1, <2>2, OwnedIsLiveOrCreating
<1>4. Assignable \subseteq Resources
  BY DEF Assignable
<1>5. CASE CreateRequest
  BY <1>2, <1>3, <1>4, <1>5 DEF CreateRequest
<1>6. CASE CreateViaRestAction
  <2>1. \/ \E r \in Assignable : CreateNow(r, mg.generation)
        \/ UNCHANGED apiVars
    BY <1>6 DEF CreateViaRestAction
  <2>2. CASE UNCHANGED apiVars
    BY <2>2, NothingShrinks
  <2>3. QED
    BY <1>2, <1>4, <2>1, <2>2
<1>7. QED
  BY <1>5, <1>6
-----------------------------------------------------------------------------
(* SInv: what the worker has read.                                         *)

(* Only an edit changes the definition of the CR.                          *)
LEMMA DefinitionStays ==
  ASSUME [Next]_vars, "definition" \notin Disturbances
  PROVE  def' = def
<1>1. CASE Observe
  BY <1>1 DEF Observe, ObserveBegin, ObserveViaRestAction, Poll, PostGet, ClearSucceeded,
     MarkFailed, ClearFailed, LookupUnobservable, LookupNotFound, LookupFound, Project,
     MarkAvailable, UpdateStatus, PatchHandle, Continue, Return
<1>2. CASE CreateOrUpdate
  BY <1>2 DEF CreateOrUpdate, CreateBegin, UpdateBegin, Begin, EnsureRole, EnsureBinding,
     EnsureFailureIgnored, CreateRequest, UpdateRequest, RequestDone, RequestRejected,
     Record, Wait, Reread, Persist, CreateViaRestAction, UpdateViaRestAction, PersistAction,
     UpdateStatus, PatchHandle, Continue, Return
<1>3. CASE Delete
  BY <1>3 DEF Delete, DeleteBegin, DeleteUnaddressable, DeleteNotFound, DeleteRequest,
     DeleteRejected, DeleteWait, DeleteViaRestAction, VerifyGone, DropBinding, DropRole,
     TeardownFailureIgnored, Release, ConcludeUntouched, Continue, Return
<1>4. CASE User \/ Service \/ Disturb \/ Interrupt
  BY <1>4 DEF User, EditSpec, UserDeletes, Service, Disturb, Happens, crVars, Interrupt, Abandon
<1>5. CASE UNCHANGED vars
  BY <1>5 DEF vars, crVars
<1>6. QED
  BY <1>1, <1>2, <1>3, <1>4, <1>5 DEF Next, Reconcile, Gone

(* So the set of definitions in use is one and the same all along.         *)
LEMMA InUseStays == [Next]_vars => InUse' = InUse
BY DefinitionStays DEF InUse

(* The worker reads the CR's definition, or keeps the one it has.          *)
LEMMA InfoIsRead ==
  ASSUME IInv, [Next]_vars, InfoInUse
  PROVE  InfoInUse'
<1>1. InUse' = InUse
  BY InUseStays
<1>2. info' \in {info, def}
  <2>1. CASE Observe
    BY <2>1 DEF Observe, ObserveBegin, ObserveViaRestAction, Poll, PostGet, ClearSucceeded,
       MarkFailed, ClearFailed, LookupUnobservable, LookupNotFound, LookupFound, Project,
       MarkAvailable, UpdateStatus, PatchHandle, Continue, Return, Resolve
  <2>2. CASE CreateOrUpdate
    BY <2>2 DEF CreateOrUpdate, CreateBegin, UpdateBegin, Begin, EnsureRole, EnsureBinding,
       EnsureFailureIgnored, CreateRequest, UpdateRequest, RequestDone, RequestRejected,
       Record, Wait, Reread, Persist, CreateViaRestAction, UpdateViaRestAction, PersistAction,
       UpdateStatus, PatchHandle, Continue, Return, Resolve
  <2>3. CASE Delete
    BY <2>3 DEF Delete, DeleteBegin, DeleteUnaddressable, DeleteNotFound, DeleteRequest,
       DeleteRejected, DeleteWait, DeleteViaRestAction, VerifyGone, DropBinding, DropRole,
       TeardownFailureIgnored, Release, ConcludeUntouched, Continue, Return, Resolve
  <2>4. CASE User \/ Service \/ Disturb \/ Interrupt
    BY <2>4 DEF User, Service, Disturb, Interrupt, Abandon, workerVars
  <2>5. CASE UNCHANGED vars
    BY <2>5 DEF vars, workerVars
  <2>6. QED
    BY <2>1, <2>2, <2>3, <2>4, <2>5 DEF Next, Reconcile, Gone
<1>3. def' \in InUse \cup {NoDefinition}
  <2>1. CASE "definition" \notin Disturbances
    BY <2>1, DefinitionStays DEF InfoInUse
  <2>2. CASE "definition" \in Disturbances
    <3>1. InUse = Definitions
      BY <2>2 DEF InUse
    <3>2. def' \in Definitions \cup {NoDefinition}
      BY NextKeepsIInv DEF IInv, TypeOK, CustomResourceTypeOK
    <3>3. QED
      BY <3>1, <3>2 DEF InfoInUse
  <2>3. QED
    BY <2>1, <2>2
<1>4. QED
  BY <1>1, <1>2, <1>3 DEF InfoInUse

(* What the definition says of the worker's step, it says of the next one. *)
LEMMA StepDeclaredKept ==
  ASSUME IInv, [Next]_vars, InfoInUse, StepDeclared, VerdictIsLast
  PROVE  StepDeclared' /\ VerdictIsLast'
<1> USE DEF StepDeclared, VerdictIsLast, DeleteSteps
<1>1. CASE Observe
  BY <1>1 DEF Observe, ObserveBegin, ObserveViaRestAction, Poll, PostGet, ClearSucceeded,
     MarkFailed, ClearFailed, LookupUnobservable, LookupNotFound, LookupFound, Project,
     MarkAvailable, UpdateStatus, PatchHandle, Continue, Return, Resolve
<1>2. CASE CreateOrUpdate
  <2>1. CASE CreateBegin \/ UpdateBegin
    <3>1. verb # "delete"
      BY <2>1 DEF CreateBegin, UpdateBegin, Begin, IInv, DeleteIsLast
    <3>2. QED
      BY <2>1, <3>1 DEF CreateBegin, UpdateBegin, Begin, FirstCall, Resolve
  <2>2. CASE EnsureRole \/ EnsureBinding \/ EnsureFailureIgnored
    BY <2>2 DEF EnsureRole, EnsureBinding, EnsureFailureIgnored
  <2>3. CASE CreateRequest \/ UpdateRequest
    <3>1. pc = "request" /\ verb \in {"create", "update"} /\ RequestDone
      BY <2>3 DEF CreateRequest, UpdateRequest
    <3>2. info[verb] \in {"sync", "accepted", "blocking", "requeue"}
      BY <3>1 DEF IInv, RequestDeclared
    <3>3. pc' = IF info[verb] = "sync" THEN "persist" ELSE AfterAccepted(info[verb])
      BY <2>3, <3>1 DEF CreateRequest, UpdateRequest
    <3>4. QED
      BY <3>1, <3>2, <3>3 DEF RequestDone, AfterAccepted
  <2>4. CASE RequestRejected \/ Record
    BY <2>4 DEF RequestRejected, Record, PatchHandle, Continue, Return, IInv,
       AnsweredOperationIsReal
  <2>5. CASE Wait \/ Reread
    BY <2>5 DEF Wait, Reread, Continue, Return
  <2>6. CASE Persist \/ PersistAction
    BY <2>6 DEF Persist, PersistAction, UpdateStatus
  <2>7. CASE CreateViaRestAction \/ UpdateViaRestAction
    BY <2>7 DEF CreateViaRestAction, UpdateViaRestAction, RequestDone
  <2>8. QED
    BY <1>2, <2>1, <2>2, <2>3, <2>4, <2>5, <2>6, <2>7 DEF CreateOrUpdate
<1>3. CASE Delete
  BY <1>3 DEF Delete, DeleteBegin, DeleteUnaddressable, DeleteNotFound, DeleteRequest,
     DeleteRejected, DeleteWait, DeleteViaRestAction, VerifyGone, DropBinding, DropRole,
     TeardownFailureIgnored, Release, Conclude, ConcludeUntouched, Continue, Return, Resolve
<1>4. CASE User \/ Service \/ Disturb \/ Interrupt
  BY <1>4 DEF User, Service, Disturb, Interrupt, Abandon, workerVars
<1>5. CASE UNCHANGED vars
  BY <1>5 DEF vars, workerVars
<1>6. QED
  BY <1>1, <1>2, <1>3, <1>4, <1>5 DEF Next, Reconcile, Gone

(* The initial states satisfy SInv: the worker has read nothing.            *)
LEMMA InitSatisfiesSInv == Init => SInv
<1> SUFFICES ASSUME Init PROVE SInv
  OBVIOUS
<1> USE DEF Init, ExternalInit, CustomResourceInit, HandlerInit
<1>1. InfoInUse
  BY DEF InfoInUse, InUse, Lives
<1>2. OwnedIsIssued
  <2>1. Creating = {}
    BY DEF Creating
  <2>2. QED
    BY <2>1, OwnedIsLiveOrCreating DEF OwnedIsIssued
<1>3. StepDeclared /\ VerdictIsLast
  BY DEF StepDeclared, VerdictIsLast, DeleteSteps
<1>4. QED
  BY <1>1, <1>2, <1>3 DEF SInv

(* Every step keeps SInv.                                                  *)
LEMMA NextKeepsSInv == IInv /\ SInv /\ [Next]_vars => SInv'
<1> SUFFICES ASSUME IInv, SInv, [Next]_vars PROVE SInv'
  OBVIOUS
<1>1. InfoInUse'
  BY InfoIsRead DEF SInv
<1>2. StepDeclared' /\ VerdictIsLast'
  BY StepDeclaredKept DEF SInv
<1>3. OwnedIsIssued'
  <2>1. CASE CreateRequest \/ CreateViaRestAction
    BY <2>1, CreateAddsOne DEF SInv, OwnedIsIssued, Shrinks
  <2>2. CASE ~CreateRequest /\ ~CreateViaRestAction
    BY <2>2, OnlyCreateAdds DEF SInv, OwnedIsIssued, Shrinks
  <2>3. QED
    BY <2>1, <2>2
<1>4. QED
  BY <1>1, <1>2, <1>3 DEF SInv
-----------------------------------------------------------------------------
(* Attended: what holds as long as no create was cut short between its     *)
(* request and the write of its answer.                                    *)

(* Whoever holds identifier x knows all the CR owns; without one, the      *)
(* resource has to be searched for.                                        *)
Located(x) ==
  ServerAssignsIds => Owned \subseteq {x} \/ (x = NoResource /\ ~Identified(InUse))

OneOwned == \A r, s \in Owned : r = s

(* One create is under way at most: of what is not there yet, and under    *)
(* the handle that is recorded, if there is one.                           *)
OneCreation ==
  /\ \A o, p \in Creating : o = p
  /\ \A o \in Creating : ops[o].target \notin live
  /\ \A o \in Creating : opId \in {NoOperation, o}

(* A create is decided on and sent when the CR owns nothing ...            *)
Triggering ==
  \/ pc = "createNext"
  \/ verb = "create" /\ pc \in {"ensureRole", "ensureBinding", "request", "action"}

NothingYet == Triggering => Owned = {}

(* ... and as long as it is not over, the worker waits for it or Ready is  *)
(* Pending, and no other handler of the live CR gets past the lookup.      *)
CreationIsNoticed ==
  Creating # {} =>
    \/ /\ verb = "create"
       /\ pc \in {"record", "wait", "persist"}
       /\ reply.op \in Creating
       /\ pc = "persist" => \/ info.create = "accepted" /\ reply.pending
                           \/ info.create = "requeue"
    \/ /\ ready = "Pending"
       /\ Deferred(InUse)
       /\ \/ pc \in {"idle", "poll", "lookup"}
          \/ verb = "delete" /\ pc \notin ObserveSteps \cup Dispatched

(* A create that is waited for makes all the CR owns.                      *)
CreateIsAwaited ==
  verb = "create" /\ pc = "wait" =>
    /\ reply.op \in Operations
    /\ ops[reply.op].state = "running" => reply.op \in Creating
    /\ ops[reply.op].state = "failed" => Owned = {}

(* The answer to a create names what it made ...                           *)
Answered == verb = "create" /\ pc \in {"record", "wait", "reread", "persist", "persistAction"}

AnswerLocates ==
  /\ Answered /\ pc # "persistAction" => Located(reply.id)
  /\ Answered /\ pc = "persistAction" => Located(IF reply.body THEN reply.id ELSE statusId)
  /\ verb = "update" /\ pc \in AfterRequest /\ reply.body => Located(reply.id)

(* ... before and afterwards, status does, or what the lookup has found.   *)
StatusLocates ==
  /\ ~Answered => Located(statusId)
  /\ pc = "project" => Located(seen.id)

(* A delete that is waited for takes away all the CR owns.                 *)
DeleteIsAwaited ==
  verb = "delete" /\ pc = "wait" =>
    /\ reply.op \in Operations
    /\ ops[reply.op].action = "delete"
    /\ ops[reply.op].state = "running" => Owned \subseteq {ops[reply.op].target} /\ Creating = {}
    /\ ops[reply.op].state = "succeeded" => Owned = {}

ConclusionHolds ==
  LeavesNothing(InUse) /\ verdict \in {"deleted", "unaddressable"} => Owned = {}

Attended ==
  /\ OneOwned
  /\ OneCreation
  /\ NothingYet
  /\ CreationIsNoticed
  /\ CreateIsAwaited
  /\ AnswerLocates
  /\ StatusLocates
  /\ DeleteIsAwaited
  /\ ConclusionHolds

OInv == ~cutShort => Attended

(* The premise, for whatever definitions the CR meets.                     *)
EveryLifeCreatesOnce == \A D \in Lives : CreatesOnce(D)

(* The premise, of one definition in use.                                  *)
LEMMA RulesOf ==
  ASSUME EveryLifeCreatesOnce, SInv, NEW d \in InUse
  PROVE  /\ d.get \/ d.findby
         /\ d.create \in {"accepted", "requeue"} => Deferred(InUse)
         /\ Deferred(InUse) => /\ d.observe = "verbs"
                               /\ ~d.notFoundBody
                               /\ "get" \notin d.tolerate
         /\ ServerAssignsIds => /\ d.create = "blocking" => ~d.postGet
                                /\ d.create = "restaction" => d.created # "empty"
                                /\ d.notFoundBody => d.get
                                /\ Identified(InUse) \/ (d.findby /\ ~d.notFoundBody)
         /\ Identified(InUse) => d.created = "identified" /\ d.updated # "anonymous"
<1>1. CreatesOnce(InUse)
  BY DEF EveryLifeCreatesOnce, SInv, InfoInUse
<1>2. d.create \in {"accepted", "requeue"} => Deferred(InUse)
  BY DEF Deferred
<1>3. Identified(InUse) => d.created = "identified" /\ d.updated # "anonymous"
  BY DEF Identified
<1>4. QED
  BY <1>1, <1>2, <1>3 DEF CreatesOnce

(* The definition the worker has resolved is one.                          *)
LEMMA InfoIsInUse ==
  ASSUME IInv, SInv, pc \in ObserveSteps \cup MutateSteps \cup {"verifyGone"}
  PROVE  info \in InUse
BY DefinitionsAssumption DEF IInv, DefinitionResolved, SInv, InfoInUse

(* What is live is owned; nothing is while a create is under way.          *)
LEMMA LiveIsOwned ==
  ASSUME OneOwned, OneCreation
  PROVE  /\ live \subseteq Owned
         /\ Creating = {} => Owned = live
         /\ Creating # {} => live = {}
BY OwnedIsLiveOrCreating DEF OneOwned, OneCreation

(* The steps of Observe.                                                   *)
LEMMA ObserveKeepsAttended ==
  ASSUME EveryLifeCreatesOnce, IInv, SInv, Attended, Observe, [Next]_vars
  PROVE  Attended'
<1> USE DEF Attended, Triggering, NothingYet, CreationIsNoticed, CreateIsAwaited,
        Answered, AnswerLocates, StatusLocates, DeleteIsAwaited, ConclusionHolds,
        ObserveSteps, MutateSteps, DeleteSteps, Dispatched, AfterRequest
<1>1. UNCHANGED <<apiVars, rbacVars, desiredVars>> /\ UNCHANGED <<verb, reply, verdict>>
  BY DEF Observe, ObserveBegin, ObserveViaRestAction, Poll, PostGet, ClearSucceeded,
     MarkFailed, ClearFailed, LookupUnobservable, LookupNotFound, LookupFound, Project,
     MarkAvailable, UpdateStatus, PatchHandle, Continue, Return
<1>2. Owned' = Owned /\ Creating' = Creating /\ InUse' = InUse
  BY <1>1, InUseStays, OwnedIsLiveOrCreating DEF Creating
<1>3. /\ live \subseteq Owned /\ Owned \subseteq issued
      /\ Creating = {} => Owned = live
      /\ Creating # {} => live = {}
  BY LiveIsOwned DEF SInv, OwnedIsIssued
<1>4. OneOwned'
  BY <1>2 DEF OneOwned
<1>5. ASSUME opId' \in {opId, NoOperation} PROVE OneCreation'
  BY <1>1, <1>2, <1>5 DEF OneCreation
<1>6. /\ pc \in {"clearOp", "failOp", "clearFailed", "postGet"} => Creating = {}
      /\ pc = "poll" /\ ops[opId].state # "running" => Creating = {}
  BY DEF OneCreation, Creating, IInv, PolledOutcome
<1>7. CASE ObserveBegin
  <2>1. def \in InUse
    BY <1>7 DEF ObserveBegin, SInv, InfoInUse
  <2>2. QED
    BY <1>1, <1>2, <1>4, <1>5, <1>7, <2>1, RulesOf DEF ObserveBegin, Resolve, Located
<1>8. CASE ObserveViaRestAction
  <2>1. info \in InUse /\ Creating = {}
    BY <1>8, InfoIsInUse DEF ObserveViaRestAction
  <2>2. QED
    BY <1>1, <1>2, <1>3, <1>4, <1>5, <1>8, <2>1 DEF ObserveViaRestAction, UpdateStatus, Located,
       OneOwned, Continue
<1>9. CASE Poll
  BY <1>1, <1>2, <1>4, <1>5, <1>6, <1>9 DEF Poll, PatchHandle, Continue, Return, Located
<1>10. CASE PostGet
  BY <1>1, <1>2, <1>3, <1>4, <1>5, <1>6, <1>10 DEF PostGet, UpdateStatus, GetHits, Continue, Return, Located
<1>11. CASE ClearSucceeded
  BY <1>1, <1>2, <1>4, <1>5, <1>6, <1>11 DEF ClearSucceeded, PatchHandle, Located
<1>12. CASE MarkFailed
  BY <1>1, <1>2, <1>4, <1>5, <1>6, <1>12 DEF MarkFailed, UpdateStatus, Located
<1>13. CASE ClearFailed
  BY <1>1, <1>2, <1>4, <1>5, <1>6, <1>13 DEF ClearFailed, PatchHandle, Located
<1>14. CASE LookupUnobservable
  <2>1. info \in InUse
    BY <1>14, InfoIsInUse DEF LookupUnobservable
  <2>2. info.get /\ ~info.findby /\ ServerAssignsIds /\ statusId = NoResource /\ Identified(InUse)
    BY <1>14, <2>1, RulesOf DEF LookupUnobservable, Observable, Known, Addressable
  <2>3. Located(statusId)
    BY <1>14 DEF LookupUnobservable
  <2>4. Owned \subseteq {NoResource} /\ NoResource \notin issued
    BY <2>2, <2>3, ResourcesAssumption DEF Located, IInv, TypeOK, ExternalTypeOK
  <2>5. Owned = {} /\ Creating = {}
    BY <1>3, <2>4, OwnedIsLiveOrCreating
  <2>6. QED
    BY <1>1, <1>2, <1>4, <1>5, <1>14, <2>5 DEF LookupUnobservable, Continue, Located
<1>15. CASE LookupNotFound
  <2>1. info \in InUse /\ Located(statusId)
    BY <1>15, InfoIsInUse DEF LookupNotFound
  <2>2. live \subseteq Visible(info)
    BY <1>3 DEF Visible
  <2>3. live = {}
    BY <1>3, <1>15, <2>1, <2>2 DEF LookupNotFound, Candidates, Known, GetHits, Addressable, Located
  <2>4. pc' # "idle" => Creating = {}
    BY <1>15, <2>1, RulesOf DEF LookupNotFound, Continue, Return
  <2>5. QED
    BY <1>1, <1>2, <1>3, <1>4, <1>5, <1>15, <2>3, <2>4 DEF LookupNotFound, Continue, Return, Located
<1>16. CASE LookupFound
  <2>1. info \in InUse /\ Located(statusId)
    BY <1>16, InfoIsInUse DEF LookupFound
  <2>2. PICK r \in Candidates :
          \/ r \notin live /\ ready # "Pending" /\ Continue("createNext")
          \/ /\ r \in live \/ ready = "Pending"
             /\ seen'.id = r
             /\ pc' = "project"
             /\ UNCHANGED <<statusVars, handleVars, info>>
    BY <1>16 DEF LookupFound
  <2>3. Known /\ ServerAssignsIds => r = statusId
    BY <2>2 DEF Candidates, GetHits
  <2>4. Creating = {}
    <3>1. SUFFICES ASSUME Creating # {} PROVE FALSE
      OBVIOUS
    <3>2. Deferred(InUse) /\ live = {}
      BY <1>3, <1>16, <3>1 DEF LookupFound
    <3>3. Candidates = {}
      BY <2>1, <3>2, RulesOf DEF Candidates, GetHits, Visible
    <3>4. QED
      BY <2>2, <3>3
  <2>5. ServerAssignsIds /\ ~Known /\ r \notin live => Owned = {}
    <3>1. SUFFICES ASSUME ServerAssignsIds, ~Known, r \notin live PROVE Owned = {}
      OBVIOUS
    <3>2. info.notFoundBody
      BY <2>2, <3>1 DEF Candidates, Visible
    <3>3. info.get /\ Identified(InUse)
      BY <2>1, <3>1, <3>2, RulesOf
    <3>4. Owned \subseteq {NoResource}
      BY <2>1, <3>1, <3>3 DEF Known, Addressable, Located
    <3>5. QED
      BY <1>3, <3>4, ResourcesAssumption DEF IInv, TypeOK, ExternalTypeOK
  <2>6. r \notin live => Owned = {}
    <3>1. r \in Resources /\ live \subseteq Resources
      BY <2>2 DEF Candidates, GetHits, Visible, IInv, TypeOK, ExternalTypeOK
    <3>2. CASE ~ServerAssignsIds
      BY <1>3, <2>4, <3>1, <3>2, NamingAssumption
    <3>3. CASE ServerAssignsIds /\ Known
      BY <1>3, <2>1, <2>3, <2>4, <3>3 DEF Known, Addressable, Located
    <3>4. QED
      BY <2>5, <3>2, <3>3, NamingAssumption
  <2>7. Located(r)
    BY <1>3, <2>1, <2>3, <2>5 DEF Located, OneOwned
  <2>8. QED
    BY <1>1, <1>2, <1>4, <1>5, <1>16, <2>1, <2>2, <2>4, <2>6, <2>7 DEF LookupFound, Continue, Located
<1>17. CASE Project
  BY <1>1, <1>2, <1>4, <1>5, <1>17 DEF Project, UpdateStatus, Located
<1>18. CASE MarkAvailable
  BY <1>1, <1>2, <1>4, <1>5, <1>18 DEF MarkAvailable, UpdateStatus, Located
<1>19. QED
  BY <1>7, <1>8, <1>9, <1>10, <1>11, <1>12, <1>13, <1>14, <1>15, <1>16, <1>17, <1>18 DEF Observe

(* A request of Create leaves when the CR owns nothing: what it makes is   *)
(* the only resource, or the only operation under way.                     *)
LEMMA CreateNowMakesOne ==
  ASSUME Owned = {}, NEW r, NEW g, CreateNow(r, g)
  PROVE  Owned' = {r} /\ live' = {r} /\ Creating' = {}
<1>1. Creating = {} /\ live = {}
  BY OwnedIsLiveOrCreating
<1>2. live' = {r} /\ Creating' = {}
  BY <1>1 DEF CreateNow, Creating
<1>3. QED
  BY <1>2, OwnedIsLiveOrCreating

(* The same when the service only accepts the request.                     *)
LEMMA AcceptMakesOne ==
  ASSUME IInv, Owned = {}, NEW o \in FreeOperations, NEW r \in Resources, NEW g \in Nat,
         Accept(o, "create", r, g)
  PROVE  /\ Owned' = {r} /\ live' = {} /\ Creating' = {o} /\ o \in Operations
         /\ ops'[o].state = "running" /\ ops'[o].target = r
<1>1. Creating = {} /\ live = {}
  BY OwnedIsLiveOrCreating
<1>2. /\ o \in Operations
      /\ ops'[o].state = "running" /\ ops'[o].action = "create" /\ ops'[o].target = r
      /\ \A p \in Operations : p # o => ops'[p] = ops[p]
  BY DEF Accept, IInv, TypeOK, ExternalTypeOK, FreeOperations
<1>3. live' = {} /\ Creating' = {o}
  BY <1>1, <1>2 DEF Accept, Creating
<1>4. QED
  BY <1>2, <1>3, OwnedIsLiveOrCreating

(* The steps of Create and Update.                                         *)
LEMMA CreateOrUpdateKeepsAttended ==
  ASSUME EveryLifeCreatesOnce, IInv, SInv, Attended, CreateOrUpdate, [Next]_vars, ~cutShort'
  PROVE  Attended'
<1> USE DEF Attended, Triggering, NothingYet, CreationIsNoticed, CreateIsAwaited,
        Answered, AnswerLocates, StatusLocates, DeleteIsAwaited, ConclusionHolds,
        ObserveSteps, MutateSteps, DeleteSteps, Dispatched, AfterRequest
<1>1. InUse' = InUse
  BY InUseStays
<1>2. /\ live \subseteq Owned /\ Owned \subseteq issued
      /\ Creating = {} => Owned = live
      /\ Creating # {} => live = {}
  BY LiveIsOwned DEF SInv, OwnedIsIssued
<1>3. ASSUME Shrinks
      PROVE  /\ OneOwned'
             /\ opId' = opId => OneCreation'
             /\ Owned' \subseteq Owned /\ Creating' \subseteq Creating
  BY <1>3 DEF Shrinks, OneOwned, OneCreation
<1>4. UNCHANGED apiVars => Shrinks /\ ops' = ops
  BY NothingShrinks
<1>5. CASE CreateBegin \/ UpdateBegin
  BY <1>1, <1>3, <1>4, <1>5 DEF CreateBegin, UpdateBegin, Begin, FirstCall, Resolve, Located
<1>6. CASE EnsureRole \/ EnsureBinding \/ EnsureFailureIgnored
  BY <1>1, <1>3, <1>4, <1>6 DEF EnsureRole, EnsureBinding, EnsureFailureIgnored, Located
<1>7. CASE CreateRequest
  <2>1. /\ pc = "request" /\ verb = "create" /\ Owned = {}
        /\ mg.generation \in Nat /\ Assignable \subseteq Resources /\ opId = NoOperation
        /\ UNCHANGED <<statusVars, handleVars, verb, info, verdict>> /\ verdict = "held"
    BY <1>7 DEF CreateRequest, RequestDone, Assignable, IInv, TypeOK, HandlerTypeOK,
       NothingRecorded, SInv, VerdictIsLast
  <2>2. info \in InUse /\ info.create \in {"sync", "accepted", "blocking", "requeue"}
    BY <2>1, InfoIsInUse DEF IInv, RequestDeclared
  <2>3. ASSUME NEW r \in Resources, Owned' = {r},
               NEW pending, NEW o, reply' = Answer(info.created, r, pending, o)
        PROVE  Located(reply.id)' /\ OneOwned'
    <3>1. reply'.id = IF info.created = "identified" THEN r ELSE NoResource
      BY <2>3 DEF Answer
    <3>2. Identified(InUse) => info.created = "identified"
      BY <2>2, RulesOf
    <3>3. QED
      BY <1>1, <2>3, <3>1, <3>2 DEF Located, OneOwned
  <2>4. CASE info.create = "sync"
    <3>1. PICK r \in Assignable :
            /\ CreateNow(r, mg.generation)
            /\ reply' = Answer(info.created, r, FALSE, NoOperation)
            /\ pc' = "persist"
      BY <1>7, <2>4 DEF CreateRequest
    <3>2. Owned' = {r} /\ Creating' = {}
      BY <2>1, <3>1, CreateNowMakesOne
    <3>3. Located(reply.id)' /\ OneOwned'
      BY <2>1, <2>3, <3>1, <3>2
    <3>4. OneCreation'
      BY <3>2 DEF OneCreation
    <3>5. QED
      BY <1>1, <2>1, <3>1, <3>2, <3>3, <3>4
  <2>5. CASE info.create # "sync"
    <3>1. PICK r \in Assignable, o \in FreeOperations, pending \in BOOLEAN :
            /\ info.create = "accepted" => pending
            /\ Accept(o, "create", r, mg.generation)
            /\ reply' = Answer(info.created, r, pending, o)
            /\ pc' = AfterAccepted(info.create)
      BY <1>7, <2>5 DEF CreateRequest
    <3>2. /\ Owned' = {r} /\ live' = {} /\ Creating' = {o} /\ o \in Operations
          /\ ops'[o].state = "running" /\ ops'[o].target = r
      BY <2>1, <3>1, AcceptMakesOne
    <3>3. Located(reply.id)' /\ OneOwned'
      BY <2>1, <2>3, <3>1, <3>2
    <3>4. OneCreation'
      BY <2>1, <3>2 DEF OneCreation
    <3>5. reply'.op = o /\ reply'.pending = pending
      BY <3>1 DEF Answer
    <3>6. /\ pc' \in {"persist", "wait", "record"}
          /\ pc' = "persist" => info.create = "accepted" /\ reply'.pending
      BY <2>2, <2>5, <3>1, <3>5 DEF AfterAccepted
    <3>7. QED
      BY <1>1, <2>1, <3>2, <3>3, <3>4, <3>5, <3>6
  <2>6. QED
    BY <2>4, <2>5
<1>8. CASE UpdateRequest
  <2>1. /\ pc = "request" /\ verb = "update" /\ Addressable /\ Creating = {}
        /\ mg.generation \in Nat
        /\ UNCHANGED <<statusVars, handleVars, verb, info, verdict>>
    BY <1>8 DEF UpdateRequest, RequestDone, IInv, TypeOK, HandlerTypeOK
  <2>2. info \in InUse /\ info.update \in {"sync", "accepted", "blocking", "requeue"}
    BY <2>1, InfoIsInUse DEF IInv, RequestDeclared
  <2>3. PICK r, pending, o :
          /\ r \in Reached(statusId)
          /\ UpdateNow(r, mg.generation) \/ (o \in FreeOperations /\ Accept(o, "update", r, mg.generation))
          /\ reply' = Answer(info.updated, r, pending, o)
          /\ pc' = IF info.update = "sync" THEN "persist" ELSE AfterAccepted(info.update)
    BY <1>8 DEF UpdateRequest
  <2>4. r \in Resources /\ (ServerAssignsIds => r = statusId)
    BY <2>3 DEF Reached, IInv, TypeOK, ExternalTypeOK
  <2>5. Shrinks
    BY <2>1, <2>3, <2>4, ChangeShrinks, AcceptShrinks
  <2>6. pc' \in {"persist", "wait", "record"}
    BY <2>2, <2>3 DEF AfterAccepted
  <2>7. reply'.body => Located(reply.id)'
    <3>1. /\ reply'.id = IF info.updated = "identified" THEN r ELSE NoResource
          /\ reply'.body <=> info.updated # "empty"
      BY <2>3 DEF Answer
    <3>2. info.updated \in {"identified", "anonymous", "empty"}
      BY <2>2, DefinitionsAssumption DEF DefinitionSet, Replies, SInv, InfoInUse, Lives, InUse
    <3>3. Identified(InUse) => info.updated # "anonymous"
      BY <2>2, RulesOf
    <3>4. Located(statusId)
      BY <2>1
    <3>5. QED
      BY <1>1, <1>3, <2>4, <2>5, <3>1, <3>2, <3>3, <3>4 DEF Located
  <2>8. OneOwned' /\ OneCreation' /\ Owned' \subseteq Owned /\ Creating' = {}
    BY <1>3, <2>1, <2>5
  <2>9. Located(statusId)'
    BY <1>1, <2>1, <2>8 DEF Located
  <2>10. QED
    BY <1>1, <2>1, <2>6, <2>7, <2>8, <2>9
<1>9. CASE RequestRejected
  BY <1>1, <1>3, <1>4, <1>9 DEF RequestRejected, Continue, Return, Located
<1>10. CASE Record
  <2>1. info[verb] = "requeue" /\ verb \in {"create", "update"}
    BY <1>10 DEF Record, SInv, StepDeclared, IInv, AnsweredOperationIsReal
  <2>2. \A o \in Creating : o = reply.op
    BY <1>10, <2>1 DEF Record, OneCreation
  <2>3. Shrinks /\ UNCHANGED <<live, ops>> /\ opId' = reply.op
    BY <1>4, <1>10 DEF Record, PatchHandle
  <2>4. OneCreation'
    BY <2>2, <2>3 DEF OneCreation, Shrinks
  <2>5. UNCHANGED <<statusVars, verb, info, reply, verdict>> /\ pc = "record" /\ pc' = "persist"
    BY <1>10 DEF Record, PatchHandle
  <2>6. verb = "create" => info.create = "requeue"
    BY <2>1
  <2>7. verb = "update" => Creating = {}
    BY <2>5
  <2>8. OneOwned' /\ Owned' \subseteq Owned /\ Creating' \subseteq Creating
    BY <1>3, <2>3
  <2>9. CreationIsNoticed'
    BY <2>2, <2>1, <2>5, <2>6, <2>7, <2>8
  <2>10. AnswerLocates' /\ StatusLocates'
    BY <1>1, <2>1, <2>5, <2>8 DEF Located
  <2>11. QED
    BY <1>1, <2>1, <2>4, <2>5, <2>8, <2>9, <2>10
<1>11. CASE Wait
  BY <1>1, <1>3, <1>4, <1>11 DEF Wait, Continue, Return, Located, Creating
<1>12. CASE Reread
  <2>1. info \in InUse /\ verb \in {"create", "update"} /\ info[verb] = "blocking" /\ info.postGet
    BY <1>12, InfoIsInUse DEF Reread, SInv, StepDeclared, IInv, TypeOK, HandlerTypeOK, MutatingVerbs
  <2>2. verb = "create" => ~ServerAssignsIds
    BY <2>1, RulesOf, NamingAssumption
  <2>3. Creating = {}
    BY <1>12, <2>1 DEF Reread
  <2>4. CASE pc' = "idle"
    BY <1>1, <1>3, <1>4, <1>12, <2>2, <2>3, <2>4 DEF Reread, Continue, Return, Located
  <2>5. CASE pc' = "persist"
    <3>1. UNCHANGED <<apiVars, statusVars, handleVars, verb, info, verdict>> /\ reply'.id \in GetHits(info)
      BY <1>12, <2>5 DEF Reread, Continue, Return, IInv, TypeOK, HandlerTypeOK, ReplySet
    <3>2. ServerAssignsIds => reply'.id = statusId
      BY <3>1 DEF GetHits
    <3>3. QED
      BY <1>1, <1>3, <1>4, <1>12, <2>1, <2>2, <2>3, <2>5, <3>1, <3>2 DEF Reread, Located
  <2>6. QED
    BY <1>12, <2>4, <2>5 DEF Reread, Continue, Return
<1>13. CASE Persist
  <2>1. info \in InUse /\ verb \in {"create", "update"}
    BY <1>13, InfoIsInUse DEF Persist, SInv, StepDeclared, IInv, TypeOK, HandlerTypeOK, MutatingVerbs
  <2>2. Shrinks /\ UNCHANGED <<live, ops, opId, verb, reply, info, verdict>> /\ pc' = "idle"
    BY <1>4, <1>13 DEF Persist, UpdateStatus
  <2>3. CASE verb = "create"
    <3>1. statusId' = reply.id /\ ready' = ReasonAfter
      BY <1>13, <2>3 DEF Persist, UpdateStatus, IdentifierAfter
    <3>2. Creating # {} => ready' = "Pending" /\ Deferred(InUse)
      BY <1>13, <2>1, <2>3, <3>1, RulesOf DEF Persist, ReasonAfter
    <3>3. QED
      BY <1>1, <1>3, <1>13, <2>2, <2>3, <3>1, <3>2 DEF Persist, Located
  <2>4. CASE verb = "update"
    <3>1. \/ statusId' = statusId
          \/ reply.body /\ statusId' = reply.id
      BY <1>13, <2>4 DEF Persist, UpdateStatus, IdentifierAfter
    <3>2. QED
      BY <1>1, <1>3, <1>13, <2>2, <2>4, <3>1 DEF Persist, Located
  <2>5. QED
    BY <2>1, <2>3, <2>4
<1>14. CASE CreateViaRestAction
  <2>1. /\ pc = "action" /\ verb = "create" /\ Owned = {} /\ live = {} /\ Creating = {}
        /\ Assignable \subseteq Resources /\ pc' = "persistAction"
        /\ UNCHANGED <<statusVars, handleVars, verb, info, verdict>> /\ verdict = "held"
    BY <1>2, <1>14, OwnedIsLiveOrCreating
       DEF CreateViaRestAction, RequestDone, Assignable, SInv, VerdictIsLast
  <2>2. info \in InUse /\ info.create = "restaction"
    BY <1>14, <2>1, InfoIsInUse DEF SInv, StepDeclared
  <2>3. CASE UNCHANGED apiVars /\ reply' = NoReply
    BY <1>1, <1>3, <1>4, <2>1, <2>3 DEF NoReply, Located
  <2>4. ASSUME NEW r \in Assignable, CreateNow(r, mg.generation),
               reply' = Answer(info.created, r, FALSE, NoOperation)
        PROVE  Attended'
    <3>1. Owned' = {r} /\ Creating' = {}
      BY <2>1, <2>4, CreateNowMakesOne
    <3>2. /\ reply'.id = IF info.created = "identified" THEN r ELSE NoResource
          /\ reply'.body <=> info.created # "empty"
      BY <2>4 DEF Answer
    <3>3. /\ Identified(InUse) => info.created = "identified"
          /\ ServerAssignsIds => info.created # "empty"
      BY <2>2, RulesOf
    <3>4. Located(IF reply.body THEN reply.id ELSE statusId)'
      BY <1>1, <3>1, <3>2, <3>3 DEF Located
    <3>5. OneOwned' /\ OneCreation'
      BY <3>1 DEF OneOwned, OneCreation
    <3>6. QED
      BY <1>1, <2>1, <3>1, <3>4, <3>5
  <2>5. QED
    BY <1>14, <2>1, <2>3, <2>4 DEF CreateViaRestAction
<1>15. CASE UpdateViaRestAction
  <2>1. /\ pc = "action" /\ verb = "update" /\ Creating = {} /\ pc' = "persistAction"
        /\ UNCHANGED <<statusVars, handleVars, verb, info, verdict>>
    BY <1>15 DEF UpdateViaRestAction, RequestDone
  <2>2. info \in InUse
    BY <2>1, InfoIsInUse
  <2>3. Shrinks
    BY <1>4, <1>15, ChangeShrinks DEF UpdateViaRestAction
  <2>4. reply'.body => Located(reply.id)'
    <3>1. SUFFICES ASSUME reply'.body PROVE Located(reply.id)'
      OBVIOUS
    <3>2. PICK r \in live : reply' = Answer(info.updated, r, FALSE, NoOperation)
      <4>1. (\E r \in live : reply' = Answer(info.updated, r, FALSE, NoOperation)) \/ reply' = NoReply
        BY <1>15 DEF UpdateViaRestAction
      <4>2. ~NoReply.body
        BY DEF NoReply
      <4>3. QED
        BY <3>1, <4>1, <4>2
    <3>3. Owned \subseteq {r}
      BY <1>2, <3>2 DEF OneOwned
    <3>4. /\ reply'.id = IF info.updated = "identified" THEN r ELSE NoResource
          /\ info.updated # "empty"
      BY <3>1, <3>2 DEF Answer
    <3>5. info.updated \in {"identified", "anonymous", "empty"}
      BY <2>2, DefinitionsAssumption DEF DefinitionSet, Replies, SInv, InfoInUse, Lives, InUse
    <3>6. Identified(InUse) => info.updated # "anonymous"
      BY <2>2, RulesOf
    <3>7. QED
      BY <1>1, <1>3, <2>3, <3>3, <3>4, <3>5, <3>6 DEF Located
  <2>5. QED
    BY <1>1, <1>3, <2>1, <2>3, <2>4 DEF Located
<1>16. CASE PersistAction
  <2>1. verb \in {"create", "update"} /\ Creating = {}
    BY <1>16 DEF PersistAction, SInv, StepDeclared, IInv, TypeOK, HandlerTypeOK, MutatingVerbs
  <2>2. Shrinks /\ UNCHANGED <<live, ops, opId, verb, reply, info, verdict>> /\ pc' = "idle"
    BY <1>4, <1>16 DEF PersistAction, UpdateStatus
  <2>3. \/ statusId' = IF reply.body THEN reply.id ELSE statusId
        \/ statusId' = statusId /\ verb = "update"
    BY <1>16, <2>1 DEF PersistAction, UpdateStatus
  <2>4. QED
    BY <1>1, <1>3, <1>16, <2>1, <2>2, <2>3 DEF PersistAction, Located
<1>17. QED
  BY <1>5, <1>6, <1>7, <1>8, <1>9, <1>10, <1>11, <1>12, <1>13, <1>14, <1>15, <1>16 DEF CreateOrUpdate

(* The steps of Delete. The resource it takes away is all there is; one    *)
(* that cannot be addressed was never made.                                *)
LEMMA DeleteKeepsAttended ==
  ASSUME EveryLifeCreatesOnce, IInv, SInv, Attended, Delete, [Next]_vars
  PROVE  Attended'
<1> USE DEF Attended, Triggering, NothingYet, CreationIsNoticed, CreateIsAwaited,
        Answered, AnswerLocates, StatusLocates, DeleteIsAwaited,
        ObserveSteps, MutateSteps, DeleteSteps, Dispatched, AfterRequest
<1>1. InUse' = InUse
  BY InUseStays
<1>2. /\ live \subseteq Owned /\ Owned \subseteq issued
      /\ Creating = {} => Owned = live
      /\ Creating # {} => live = {}
  BY LiveIsOwned DEF SInv, OwnedIsIssued
<1>3. /\ verb' = "delete" /\ UNCHANGED <<statusVars, handleVars>>
      /\ pc' \notin ObserveSteps \cup Dispatched
      /\ pc \in {"idle"} \cup Dispatched \/ verb = "delete"
  BY DEF Delete, DeleteBegin, DeleteUnaddressable, DeleteNotFound, DeleteRequest,
     DeleteRejected, DeleteWait, DeleteViaRestAction, VerifyGone, DropBinding, DropRole,
     TeardownFailureIgnored, Release, Conclude, ConcludeUntouched, Continue, Return,
     SInv, StepDeclared
<1>4. Shrinks
  BY <1>3, OnlyCreateAdds DEF CreateRequest, CreateViaRestAction, RequestDone
<1>5. Owned' \subseteq Owned /\ Creating' \subseteq Creating /\ OneOwned' /\ OneCreation'
  BY <1>3, <1>4 DEF Shrinks, OneOwned, OneCreation
<1>6. NothingYet' /\ CreationIsNoticed' /\ CreateIsAwaited' /\ AnswerLocates'
  BY <1>1, <1>3, <1>5
<1>7. Located(statusId) /\ StatusLocates'
  BY <1>1, <1>3, <1>5 DEF Located
<1>8. ASSUME DeleteRequest
      PROVE  \E r \in live :
               /\ Owned \subseteq {r} /\ Creating = {}
               /\ \/ DeleteNow(r) /\ pc' = "dropBinding"
                  \/ /\ \E o \in FreeOperations :
                          /\ Accept(o, "delete", r, mg.generation)
                          /\ reply' = [NoReply EXCEPT !.op = o, !.pending = TRUE]
                     /\ verdict' # verdict => info.delete = "accepted"
  <2>1. info.delete \in {"sync", "accepted", "blocking", "requeue"} /\ Reached(statusId) \subseteq live
    BY <1>8 DEF DeleteRequest, Reached, IInv, RequestDeclared
  <2>2. \A r \in live : Owned \subseteq {r} /\ Creating = {}
    BY <1>2 DEF OneOwned
  <2>3. QED
    BY <1>8, <2>1, <2>2 DEF DeleteRequest, Conclude, AsyncDeclared
<1>9. DeleteIsAwaited'
  <2>1. CASE DeleteRequest
    <3>1. PICK r \in live :
            /\ Owned \subseteq {r} /\ Creating = {}
            /\ \/ pc' = "dropBinding"
               \/ \E o \in FreeOperations :
                    /\ Accept(o, "delete", r, mg.generation)
                    /\ reply' = [NoReply EXCEPT !.op = o, !.pending = TRUE]
      BY <1>8, <2>1
    <3>2. CASE pc' = "dropBinding"
      BY <3>2
    <3>3. ASSUME NEW o \in FreeOperations, Accept(o, "delete", r, mg.generation),
                 reply' = [NoReply EXCEPT !.op = o, !.pending = TRUE]
          PROVE  DeleteIsAwaited'
      <4>1. reply'.op = o /\ o \in Operations
        BY <3>3 DEF NoReply, FreeOperations
      <4>2. ops'[o].action = "delete" /\ ops'[o].state = "running" /\ ops'[o].target = r
        BY <3>3, <4>1 DEF Accept, IInv, TypeOK, ExternalTypeOK
      <4>3. QED
        BY <1>5, <3>1, <4>1, <4>2
    <3>4. QED
      BY <3>1, <3>2, <3>3
  <2>2. CASE ~DeleteRequest
    BY <2>2 DEF Delete, DeleteBegin, DeleteUnaddressable, DeleteNotFound,
     DeleteRejected, DeleteWait, DeleteViaRestAction, VerifyGone, DropBinding, DropRole,
     TeardownFailureIgnored, Release, Conclude, ConcludeUntouched, Continue, Return
  <2>3. QED
    BY <2>1, <2>2
<1>10. ConclusionHolds'
  <2>1. SUFFICES ASSUME LeavesNothing(InUse), verdict' \in {"deleted", "unaddressable"}, verdict' # verdict
                 PROVE  Owned' = {}
    BY <1>1, <1>5 DEF ConclusionHolds
  <2>2. ServerAssignsIds => Identified(InUse)
    BY <2>1 DEF LeavesNothing
  <2>3. ASSUME pc \in {"request", "wait", "verifyGone"}
        PROVE  /\ info.delete # "accepted"
               /\ Deferred(InUse) => /\ info.delete # "restaction"
                                     /\ "delete" \in info.tolerate => AsyncDeclared(info, "delete")
    <3>1. info \in InUse
      BY <2>3, InfoIsInUse
    <3>2. QED
      BY <2>1, <3>1 DEF LeavesNothing
  <2>4. ASSUME Addressable, Creating = {}, live \cap {statusId} = {} \/ live = {},
               ServerAssignsIds \/ live = {}
        PROVE  Owned' = {}
    BY <1>2, <1>5, <1>7, <2>2, <2>4 DEF Addressable, Located
  <2>5. CASE DeleteUnaddressable
    <3>1. Owned \subseteq {NoResource}
      BY <1>7, <2>2, <2>5, NamingAssumption DEF DeleteUnaddressable, Addressable, Located
    <3>2. NoResource \notin issued
      BY ResourcesAssumption DEF IInv, TypeOK, ExternalTypeOK
    <3>3. QED
      BY <1>2, <1>5, <3>1, <3>2
  <2>6. CASE DeleteNotFound
    <3>1. /\ pc = "request" /\ verb = "delete" /\ Addressable /\ Reached(statusId) = {}
          /\ "delete" \in info.tolerate /\ ~AsyncDeclared(info, "delete")
      BY <2>1, <2>6 DEF DeleteNotFound, Return, Continue
    <3>2. Creating = {}
      BY <2>3, <3>1
    <3>3. QED
      BY <2>4, <3>1, <3>2, NamingAssumption DEF Reached
  <2>7. CASE DeleteRequest
    <3>1. PICK r \in live : Owned \subseteq {r} /\ Creating = {} /\ DeleteNow(r)
      BY <1>8, <2>1, <2>3, <2>7 DEF DeleteRequest
    <3>2. Owned' = live' \cup {ops'[o].target : o \in Creating'}
      BY OwnedIsLiveOrCreating
    <3>3. QED
      BY <1>2, <1>5, <3>1, <3>2 DEF DeleteNow
  <2>8. CASE DeleteWait
    BY <1>5, <2>1, <2>8 DEF DeleteWait, Continue, Return
  <2>9. CASE VerifyGone
    <3>1. /\ pc = "verifyGone" /\ verb = "delete" /\ info.delete = "restaction"
          /\ Addressable /\ GetHits(info) = {}
      BY <2>1, <2>9 DEF VerifyGone, ConcludeUntouched, Conclude, Continue, Return, SInv, StepDeclared
    <3>2. Creating = {}
      BY <2>3, <3>1
    <3>3. live \subseteq Visible(info)
      BY <1>2 DEF Visible
    <3>4. QED
      BY <2>4, <3>1, <3>2, <3>3, NamingAssumption DEF GetHits
  <2>10. QED
    BY <2>1, <2>5, <2>6, <2>7, <2>8, <2>9 DEF Delete, DeleteBegin,
       DeleteRejected, DeleteViaRestAction, DropBinding, DropRole,
       TeardownFailureIgnored, Release, Conclude, Continue, Return
<1>11. QED
  BY <1>5, <1>6, <1>7, <1>9, <1>10

(* What the service, the users and everybody else do.                      *)
LEMMA EnvironmentKeepsAttended ==
  ASSUME EveryLifeCreatesOnce, IInv, SInv, Attended, User \/ Service \/ Disturb, [Next]_vars
  PROVE  Attended'
<1> USE DEF Attended, Triggering, NothingYet, CreationIsNoticed, CreateIsAwaited,
        Answered, AnswerLocates, StatusLocates, DeleteIsAwaited, ConclusionHolds,
        ObserveSteps, MutateSteps, DeleteSteps, Dispatched, AfterRequest
<1>1. InUse' = InUse
  BY InUseStays
<1>2. UNCHANGED <<workerVars, statusVars, handleVars>>
  BY DEF User, EditSpec, UserDeletes, Service, Disturb, EditDefinition, workerVars, crVars
<1>3. Shrinks
  <2>1. pc' = pc
    BY <1>2 DEF workerVars
  <2>2. ~CreateRequest /\ ~CreateViaRestAction
    BY <2>1 DEF CreateRequest, CreateViaRestAction, AfterAccepted, IInv, RequestDeclared
  <2>3. QED
    BY <2>2, OnlyCreateAdds
<1>4. Owned' \subseteq Owned /\ Creating' \subseteq Creating /\ OneOwned' /\ OneCreation'
  BY <1>2, <1>3 DEF Shrinks, OneOwned, OneCreation
<1>5. NothingYet' /\ AnswerLocates' /\ StatusLocates' /\ ConclusionHolds'
  BY <1>1, <1>2, <1>4 DEF Located, workerVars
<1>6. CreationIsNoticed'
  BY <1>1, <1>2, <1>4 DEF OneCreation, workerVars
<1>7. \/ UNCHANGED ops
      \/ \E o \in Operations : OperationSucceeds(o) \/ OperationFails(o) \/ OperationObsolete(o)
  BY DEF User, Service, Disturb, DeletedOutOfBand, ChangedOutOfBand, DeleteNow, UpdateNow
<1>8. /\ Owned = live \cup {ops[o].target : o \in Creating}
      /\ Owned' = live' \cup {ops'[o].target : o \in Creating'}
      /\ Creating # {} => live = {}
  BY OwnedIsLiveOrCreating, LiveIsOwned
<1>9. ASSUME NEW o \in Operations,
             OperationSucceeds(o) \/ OperationFails(o) \/ OperationObsolete(o)
      PROVE  /\ \A p \in Operations : p # o => ops'[p] = ops[p]
             /\ o \notin Creating' /\ ops[o].state = "running" /\ ops'[o].state # "running"
             /\ ops'[o].action = ops[o].action
             /\ ops'[o].state = "failed" => live' = live
             /\ ops'[o].state = "succeeded" /\ ops[o].action = "delete" => live' = live \ {ops[o].target}
  BY <1>9 DEF OperationSucceeds, OperationFails, OperationObsolete, Creating, IInv, TypeOK,
     ExternalTypeOK, OperationRecord
<1>10. CreateIsAwaited'
  <2>1. SUFFICES ASSUME verb = "create", pc = "wait"
                 PROVE  /\ ops'[reply.op].state = "running" => reply.op \in Creating'
                        /\ ops'[reply.op].state = "failed" => Owned' = {}
    BY <1>2 DEF workerVars
  <2>2. CASE UNCHANGED ops
    BY <1>4, <2>1, <2>2 DEF Creating
  <2>3. ASSUME NEW o \in Operations,
               OperationSucceeds(o) \/ OperationFails(o) \/ OperationObsolete(o)
        PROVE  /\ ops'[reply.op].state = "running" => reply.op \in Creating'
               /\ ops'[reply.op].state = "failed" => Owned' = {}
    <3>1. CASE o # reply.op
      BY <1>4, <1>9, <2>1, <2>3, <3>1 DEF Creating
    <3>2. CASE o = reply.op
      <4>1. reply.op \in Creating /\ live = {} /\ ops'[reply.op].state # "running"
        BY <1>8, <1>9, <2>1, <2>3, <3>2
      <4>2. Creating' = {}
        BY <1>4, <1>9, <2>3, <3>2, <4>1 DEF OneCreation
      <4>3. QED
        BY <1>8, <1>9, <2>3, <3>2, <4>1, <4>2
    <3>3. QED
      BY <3>1, <3>2
  <2>4. QED
    BY <1>7, <2>2, <2>3
<1>11. DeleteIsAwaited'
  <2>1. SUFFICES ASSUME verb = "delete", pc = "wait"
                 PROVE  /\ ops'[reply.op].action = "delete"
                        /\ ops'[reply.op].state = "running"
                             => Owned' \subseteq {ops'[reply.op].target} /\ Creating' = {}
                        /\ ops'[reply.op].state = "succeeded" => Owned' = {}
    BY <1>2 DEF workerVars
  <2>2. CASE UNCHANGED ops
    BY <1>4, <2>1, <2>2
  <2>3. ASSUME NEW o \in Operations,
               OperationSucceeds(o) \/ OperationFails(o) \/ OperationObsolete(o)
        PROVE  /\ ops'[reply.op].action = "delete"
               /\ ops'[reply.op].state = "running"
                    => Owned' \subseteq {ops'[reply.op].target} /\ Creating' = {}
               /\ ops'[reply.op].state = "succeeded" => Owned' = {}
    <3>1. CASE o # reply.op
      BY <1>4, <1>9, <2>1, <2>3, <3>1
    <3>2. CASE o = reply.op
      <4>1. ops[reply.op].action = "delete" /\ Owned \subseteq {ops[reply.op].target} /\ Creating = {}
        BY <1>9, <2>1, <2>3, <3>2
      <4>2. Creating' = {}
        BY <1>4, <4>1
      <4>3. QED
        BY <1>8, <1>9, <2>3, <3>2, <4>1, <4>2
    <3>3. QED
      BY <3>1, <3>2
  <2>4. QED
    BY <1>7, <2>2, <2>3
<1>12. QED
  BY <1>4, <1>5, <1>6, <1>10, <1>11

(* A handler that goes no further, outside the time in which that cuts a   *)
(* create short.                                                           *)
LEMMA InterruptKeepsAttended ==
  ASSUME SInv, Attended, Interrupt, [Next]_vars, ~cutShort'
  PROVE  Attended'
<1> USE DEF Attended, Triggering, NothingYet, CreationIsNoticed, CreateIsAwaited,
        Answered, AnswerLocates, StatusLocates, DeleteIsAwaited, ConclusionHolds,
        ObserveSteps, MutateSteps, DeleteSteps, Dispatched, AfterRequest
<1>1. /\ InUse' = InUse /\ Owned' = Owned /\ Creating' = Creating
      /\ UNCHANGED <<apiVars, statusVars, handleVars, localVars, verdict>>
      /\ pc' = "idle" /\ ~Answered
  BY InUseStays, OwnedIsLiveOrCreating DEF Interrupt, Abandon, Creating
<1>2. OneOwned' /\ OneCreation'
  BY <1>1 DEF OneOwned, OneCreation
<1>3. QED
  BY <1>1, <1>2 DEF Located

(* A step that changes nothing.                                            *)
LEMMA StutteringKeepsAttended ==
  ASSUME Attended, UNCHANGED vars
  PROVE  Attended'
<1>1. InUse' = InUse /\ Owned' = Owned /\ Creating' = Creating
  BY OwnedIsLiveOrCreating DEF InUse, Creating, vars, crVars
<1>2. QED
  BY <1>1 DEF vars, crVars, workerVars, Attended, OneOwned, OneCreation, Triggering, NothingYet,
     CreationIsNoticed, CreateIsAwaited, Answered, AnswerLocates, StatusLocates,
     DeleteIsAwaited, ConclusionHolds, Located

(* The initial states satisfy OInv: nothing is owned but what may be       *)
(* adopted, and no worker is under way.                                    *)
LEMMA InitSatisfiesOInv == Init => OInv
<1> SUFFICES ASSUME Init PROVE Attended
  BY DEF OInv
<1> USE DEF Init, ExternalInit, CustomResourceInit, HandlerInit
<1>1. Creating = {}
  BY DEF Creating
<1>2. Owned = live
  BY <1>1, OwnedIsLiveOrCreating
<1>3. Located(statusId)
  BY <1>2 DEF Located, Identified
<1>4. OneOwned /\ OneCreation
  BY <1>1, <1>2 DEF OneOwned, OneCreation
<1>5. QED
  BY <1>1, <1>3, <1>4 DEF Attended, Triggering, NothingYet, CreationIsNoticed, CreateIsAwaited,
     Answered, AnswerLocates, StatusLocates, DeleteIsAwaited, ConclusionHolds

(* A create that was cut short stays so.                                   *)
LEMMA CutShortStays == [Next]_vars /\ cutShort => cutShort'
<1> SUFFICES ASSUME [Next]_vars, cutShort PROVE cutShort'
  OBVIOUS
<1>1. CASE Observe
  BY <1>1 DEF Observe, ObserveBegin, ObserveViaRestAction, Poll, PostGet, ClearSucceeded,
     MarkFailed, ClearFailed, LookupUnobservable, LookupNotFound, LookupFound, Project,
     MarkAvailable, UpdateStatus, PatchHandle, Continue, Return
<1>2. CASE CreateOrUpdate
  BY <1>2 DEF CreateOrUpdate, CreateBegin, UpdateBegin, Begin, EnsureRole, EnsureBinding,
     EnsureFailureIgnored, CreateRequest, UpdateRequest, RequestDone, RequestRejected,
     Record, Wait, Reread, Persist, CreateViaRestAction, UpdateViaRestAction, PersistAction,
     UpdateStatus, PatchHandle, Continue, Return
<1>3. CASE Delete
  BY <1>3 DEF Delete, DeleteBegin, DeleteUnaddressable, DeleteNotFound, DeleteRequest,
     DeleteRejected, DeleteWait, DeleteViaRestAction, VerifyGone, DropBinding, DropRole,
     TeardownFailureIgnored, Release, ConcludeUntouched, Continue, Return
<1>4. CASE User \/ Service \/ Disturb \/ Interrupt
  BY <1>4 DEF User, Service, Disturb, workerVars, Interrupt, Abandon
<1>5. CASE UNCHANGED vars
  BY <1>5 DEF vars, workerVars
<1>6. QED
  BY <1>1, <1>2, <1>3, <1>4, <1>5 DEF Next, Reconcile, Gone

(* Every step keeps OInv: one of the steps above, or one after a create    *)
(* was cut short.                                                          *)
LEMMA NextKeepsOInv ==
  ASSUME EveryLifeCreatesOnce
  PROVE  IInv /\ SInv /\ OInv /\ [Next]_vars => OInv'
<1> SUFFICES ASSUME IInv, SInv, OInv, [Next]_vars, ~cutShort' PROVE Attended'
  BY DEF OInv
<1>1. Attended
  BY CutShortStays DEF OInv
<1>2. CASE Reconcile
  BY <1>1, <1>2, ObserveKeepsAttended, CreateOrUpdateKeepsAttended, DeleteKeepsAttended DEF Reconcile
<1>3. CASE User \/ Service \/ Disturb
  BY <1>1, <1>3, EnvironmentKeepsAttended
<1>4. CASE Interrupt
  BY <1>1, <1>4, InterruptKeepsAttended
<1>5. CASE UNCHANGED vars
  BY <1>1, <1>5, StutteringKeepsAttended
<1>6. QED
  BY <1>2, <1>3, <1>4, <1>5 DEF Next, Gone

(* Of the step it is at, the worker knows what the definition declares,    *)
(* whatever the definitions are.                                           *)
THEOREM DeclarationInvariance == Spec => [](IInv /\ SInv)
<1>1. IInv /\ SInv /\ [Next]_vars => SInv'
  BY NextKeepsSInv
<1>2. QED
  BY <1>1, InitSatisfiesSInv, Invariance, PTL DEF Spec

(* What the worker and the status know of the resources the CR owns holds  *)
(* in every reachable state.                                               *)
THEOREM OwnershipInvariance ==
  ASSUME EveryLifeCreatesOnce
  PROVE  Spec => [](IInv /\ SInv /\ OInv)
<1>1. IInv /\ SInv /\ OInv /\ [Next]_vars => OInv'
  BY NextKeepsOInv
<1>2. QED
  BY <1>1, InitSatisfiesOInv, DeclarationInvariance, PTL DEF Spec

(* What the properties say in numbers.                                     *)
LEMMA AtMostOneOwned == OneOwned => Cardinality(Owned) <= 1
<1> SUFFICES ASSUME OneOwned PROVE Cardinality(Owned) <= 1
  OBVIOUS
<1>1. CASE Owned = {}
  <2>1. Cardinality({}) = 0
    BY FS_EmptySet
  <2>2. QED
    BY <1>1, <2>1
<1>2. CASE \E r : Owned = {r}
  <2>1. \A r : Cardinality({r}) = 1
    BY FS_Singleton
  <2>2. Cardinality(Owned) = 1
    BY <1>2, <2>1
  <2>3. QED
    BY <2>2
<1>3. Owned = {} \/ \E r : Owned = {r}
  BY DEF OneOwned
<1>4. QED
  BY <1>1, <1>2, <1>3

(* A CR whose creates are not cut short never owns a second resource,      *)
(* whatever else is interrupted, edited, deleted by others, or fails.      *)
THEOREM NeverTwo ==
  ASSUME EveryLifeCreatesOnce
  PROVE  Spec => []NoDuplicate
<1>1. OInv => NoDuplicate
  BY AtMostOneOwned DEF OInv, Attended, NoDuplicate
<1>2. QED
  BY <1>1, OwnershipInvariance, PTL

(* When the finalizer goes on the ground that the resource was deleted or  *)
(* cannot be addressed, nothing of the CR is left, nor will be.            *)
THEOREM NothingIsLeft ==
  ASSUME EveryLifeCreatesOnce, \A D \in Lives : LeavesNothing(D)
  PROVE  Spec => []ReleasedMeansGone
<1>1. SInv /\ OInv => ReleasedMeansGone
  BY DEF SInv, InfoInUse, OInv, Attended, ConclusionHolds, ReleasedMeansGone
<1>2. QED
  BY <1>1, OwnershipInvariance, PTL
=============================================================================
