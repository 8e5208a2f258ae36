--------------------------- MODULE ResourceLife_proofs --------------------------
(***************************************************************************)
(* The handlers implement ResourceLife: every initial state of             *)
(* RestResources is one of the promise, and every step one of its steps or *)
(* none. A create is an Acquire by the invariant about what the CR owns    *)
(* when it is sent (NothingYet), a Release is one by what the conclusion   *)
(* of Delete was drawn from (ConclusionHolds); and that only a deletion    *)
(* gives the resource up needs an invariant of its own, about the deletes  *)
(* the service is still working on.                                        *)
(***************************************************************************)
EXTENDS Ownership_proofs

(* The service deletes for a CR only what it was asked to delete.          *)
DeletesAreAsked ==
  \A o \in Operations :
    ops[o].state = "running" /\ ops[o].action = "delete" => crPhase # "live"

-----------------------------------------------------------------------------
USE DEF apiVars, rbacVars, desiredVars, statusVars, handleVars, localVars, auditVars

(* An operation the controller starts for a live CR is no delete.          *)
LEMMA AcceptIsAsked ==
  ASSUME IInv, DeletesAreAsked, NEW o \in FreeOperations, NEW action, NEW r, NEW g,
         Accept(o, action, r, g), action = "delete" => crPhase # "live", crPhase' = crPhase
  PROVE  DeletesAreAsked'
<1>1. /\ o \in Operations
      /\ ops'[o].action = action
      /\ \A p \in Operations : p # o => ops'[p] = ops[p]
  BY DEF Accept, FreeOperations, IInv, TypeOK, ExternalTypeOK
<1>2. QED
  BY <1>1 DEF DeletesAreAsked

(* A CR that is not live never becomes live.                               *)
LEMMA NeverLiveAgain == [Next]_vars => (crPhase # "live" => crPhase' # "live")
<1> SUFFICES ASSUME [Next]_vars, crPhase # "live" PROVE crPhase' # "live"
  OBVIOUS
<1>1. CASE Observe
  BY <1>1 DEF Observe, ObserveBegin, ObserveViaRestAction, Poll, PostGet, ClearSucceeded,
     MarkFailed, ClearFailed, LookupUnobservable, LookupNotFound, LookupFound, Project,
     MarkAvailable, UpdateStatus, PatchHandle, Continue, Return
<1>2. CASE CreateOrUpdate
  BY <1>2 DEF CreateOrUpdate, CreateBegin, UpdateBegin, Begin, EnsureRole, EnsureBinding,
     EnsureFailureIgnored, CreateRequest, UpdateRequest, RequestDone, RequestRejected,
     Record, Wait, Reread, Persist, CreateViaRestAction, UpdateViaRestAction, PersistAction,
     UpdateStatus, PatchHandle, Continue, Return
<1>3. CASE Delete
  BY <1>3 DEF Delete, DeleteBegin, DeleteUnaddressable, DeleteNotFound, DeleteRequest,
     DeleteRejected, DeleteWait, DeleteViaRestAction, VerifyGone, DropBinding, DropRole,
     TeardownFailureIgnored, Release, ConcludeUntouched, Continue, Return
<1>4. CASE User \/ Service \/ Disturb \/ Interrupt \/ UNCHANGED vars
  BY <1>4 DEF User, EditSpec, UserDeletes, Service, Disturb, EditDefinition, Interrupt,
     Abandon, crVars, vars
<1>5. QED
  BY <1>1, <1>2, <1>3, <1>4 DEF Next, Reconcile, Gone

(* No operation exists initially.                                          *)
LEMMA InitSatisfiesDeletesAreAsked == Init => DeletesAreAsked
BY DEF Init, ExternalInit, DeletesAreAsked

(* Only the delete of a CR that is being deleted starts one.               *)
LEMMA NextKeepsDeletesAreAsked == IInv /\ DeletesAreAsked /\ [Next]_vars => DeletesAreAsked'
<1> SUFFICES ASSUME IInv, DeletesAreAsked, [Next]_vars PROVE DeletesAreAsked'
  OBVIOUS
<1>1. ops' = ops => DeletesAreAsked'
  BY NeverLiveAgain DEF DeletesAreAsked
<1>2. ASSUME NEW o \in Operations,
             OperationSucceeds(o) \/ OperationFails(o) \/ OperationObsolete(o)
      PROVE  DeletesAreAsked'
  <2>1. \A p \in Operations : /\ ops'[p].action = ops[p].action
                              /\ ops'[p].state = "running" => ops[p].state = "running"
    BY <1>2 DEF OperationSucceeds, OperationFails, OperationObsolete, IInv, TypeOK,
       ExternalTypeOK, OperationRecord
  <2>2. QED
    BY <2>1, NeverLiveAgain DEF DeletesAreAsked
<1>3. CASE Observe
  <2>1. ops' = ops
    BY <1>3 DEF Observe, ObserveBegin, ObserveViaRestAction, Poll, PostGet, ClearSucceeded,
       MarkFailed, ClearFailed, LookupUnobservable, LookupNotFound, LookupFound, Project,
       MarkAvailable, UpdateStatus, PatchHandle, Continue, Return
  <2>2. QED
    BY <1>1, <2>1
<1>4. CASE CreateOrUpdate
  <2>1. CASE CreateRequest
    BY <1>1, <2>1, AcceptIsAsked DEF CreateRequest, CreateNow, RequestDone
  <2>2. CASE UpdateRequest
    BY <1>1, <2>2, AcceptIsAsked DEF UpdateRequest, UpdateNow, RequestDone
  <2>3. CASE ~CreateRequest /\ ~UpdateRequest
    <3>1. ops' = ops
      BY <1>4, <2>3 DEF CreateOrUpdate, CreateBegin, UpdateBegin, Begin, EnsureRole,
         EnsureBinding, EnsureFailureIgnored, RequestRejected, Record, Wait, Reread, Persist,
         CreateViaRestAction, CreateNow, UpdateViaRestAction, UpdateNow, PersistAction,
         UpdateStatus, PatchHandle, Continue, Return
    <3>2. QED
      BY <1>1, <3>1
  <2>4. QED
    BY <2>1, <2>2, <2>3
<1>5. CASE Delete
  <2>1. CASE DeleteRequest
    <3>1. crPhase # "live" /\ crPhase' = crPhase
      BY <2>1 DEF DeleteRequest, IInv, DeleteIsLast
    <3>2. QED
      BY <1>1, <2>1, <3>1, AcceptIsAsked DEF DeleteRequest, DeleteNow
  <2>2. CASE ~DeleteRequest
    <3>1. ops' = ops
      BY <1>5, <2>2 DEF Delete, DeleteBegin, DeleteUnaddressable, DeleteNotFound,
         DeleteRejected, DeleteWait, DeleteViaRestAction, DeleteNow, VerifyGone, DropBinding,
         DropRole, TeardownFailureIgnored, Release, ConcludeUntouched, Continue, Return
    <3>2. QED
      BY <1>1, <3>1
  <2>3. QED
    BY <2>1, <2>2
<1>6. CASE Service
  BY <1>2, <1>6 DEF Service
<1>7. CASE Disturb
  <2>1. \/ \E o \in Operations : OperationFails(o)
        \/ ops' = ops
    BY <1>7 DEF Disturb, DeletedOutOfBand, ChangedOutOfBand, DeleteNow, UpdateNow
  <2>2. QED
    BY <1>1, <1>2, <2>1
<1>8. CASE User \/ Interrupt \/ UNCHANGED vars
  BY <1>1, <1>8 DEF User, Interrupt, Abandon, vars
<1>9. QED
  BY <1>3, <1>4, <1>5, <1>6, <1>7, <1>8 DEF Next, Reconcile, Gone

-----------------------------------------------------------------------------
(* The steps, one kind of actor after the other.                           *)

(* A step that changes nothing the promise speaks of.                      *)
Unseen == UNCHANGED <<crPhase, disturbances, cutShort, verdict>> /\ Owned' = Owned

(* Nothing owned appears or goes with the service left alone.              *)
LEMMA OwnedStays == UNCHANGED apiVars => Owned' = Owned
BY DEF Owned, Targets

(* Observe changes nothing that the promise is about.                      *)
LEMMA ObserveIsUnseen == Observe /\ UNCHANGED disturbances => Unseen
<1> SUFFICES ASSUME Observe, UNCHANGED disturbances PROVE Unseen
  OBVIOUS
<1>1. UNCHANGED <<apiVars, crPhase, cutShort, verdict>>
  BY DEF Observe, ObserveBegin, ObserveViaRestAction, Poll, PostGet, ClearSucceeded,
     MarkFailed, ClearFailed, LookupUnobservable, LookupNotFound, LookupFound, Project,
     MarkAvailable, UpdateStatus, PatchHandle, Continue, Return
<1>2. QED
  BY <1>1, OwnedStays DEF Unseen

(* An operation that is started adds to what the CR owns just what it      *)
(* creates.                                                                *)
LEMMA AcceptOwns ==
  ASSUME IInv, NEW o \in FreeOperations, NEW action, NEW r, NEW g, Accept(o, action, r, g)
  PROVE  Owned' = IF action = "create" THEN Owned \cup {r} ELSE Owned
<1>1. /\ o \in Operations /\ ops[o].state # "running"
      /\ ops'[o].state = "running" /\ ops'[o].action = action /\ ops'[o].target = r
      /\ \A p \in Operations : p # o => ops'[p] = ops[p]
      /\ live' = live
  BY DEF Accept, FreeOperations, IInv, TypeOK, ExternalTypeOK
<1>2. Creating' = IF action = "create" THEN Creating \cup {o} ELSE Creating
  BY <1>1 DEF Creating
<1>3. o \notin Creating /\ \A p \in Creating : ops'[p] = ops[p]
  BY <1>1 DEF Creating
<1>4. QED
  BY <1>1, <1>2, <1>3, OwnedIsLiveOrCreating

(* A request of Create is an Acquire, an answer that gets lost is a Forget *)
(* and the other steps of Create and Update are not seen.                  *)
LEMMA CreateOrUpdateKeepsLife ==
  ASSUME IInv, OInv, CreateOrUpdate, UNCHANGED disturbances
  PROVE  Life!Acquire \/ Life!Forget \/ Unseen
<1>1. pc # "idle" /\ crPhase # "gone"
  BY DEF CreateOrUpdate, CreateBegin, UpdateBegin, Begin, EnsureRole, EnsureBinding,
     EnsureFailureIgnored, CreateRequest, UpdateRequest, RequestRejected, Record, Wait,
     Reread, Persist, CreateViaRestAction, UpdateViaRestAction, PersistAction, IInv,
     DeleteIsLast
<1>2. UNCHANGED <<crPhase, verdict>> /\ cutShort \in BOOLEAN /\ cutShort' \in {cutShort, TRUE}
  BY DEF CreateOrUpdate, CreateBegin, UpdateBegin, Begin, EnsureRole, EnsureBinding,
     EnsureFailureIgnored, CreateRequest, UpdateRequest, RequestDone, RequestRejected,
     Record, Wait, Reread, Persist, CreateViaRestAction, UpdateViaRestAction, PersistAction,
     UpdateStatus, PatchHandle, Continue, Return, IInv, TypeOK, HandlerTypeOK
<1>3. mg.generation \in Nat
  BY DEF IInv, TypeOK, HandlerTypeOK
<1>4. CASE CreateRequest \/ CreateViaRestAction
  <2>1. cutShort' = cutShort /\ Triggering
    BY <1>4 DEF CreateRequest, CreateViaRestAction, RequestDone, Triggering
  <2>2. Owned = {} \/ cutShort
    BY <2>1 DEF OInv, Attended, NothingYet
  <2>3. UNCHANGED apiVars \/ \E r \in Resources : Owned' = Owned \cup {r}
    <3>1. Assignable \subseteq Resources
      BY DEF Assignable
    <3>2. ASSUME NEW r \in Resources, CreateNow(r, mg.generation)
          PROVE  Owned' = Owned \cup {r}
      <4>1. Creating' = Creating /\ live' = live \cup {r} /\ ops' = ops
        BY <3>2 DEF CreateNow, Creating
      <4>2. QED
        BY <4>1, OwnedIsLiveOrCreating
    <3>3. CASE CreateRequest
      BY <3>1, <3>2, <3>3, AcceptOwns DEF CreateRequest
    <3>4. CASE CreateViaRestAction
      BY <3>1, <3>2, <3>4 DEF CreateViaRestAction
    <3>5. QED
      BY <1>4, <3>3, <3>4
  <2>4. QED
    BY <1>1, <1>2, <2>1, <2>2, <2>3, OwnedStays DEF Life!Acquire, Unseen, Shown
<1>5. CASE UpdateRequest
  <2>1. Owned' = Owned
    <3>1. PICK r \in Reached(statusId) :
            \/ UpdateNow(r, mg.generation)
            \/ \E o \in FreeOperations : Accept(o, "update", r, mg.generation)
      BY <1>5 DEF UpdateRequest
    <3>2. CASE UpdateNow(r, mg.generation)
      BY <3>2 DEF UpdateNow, Owned, Targets
    <3>3. CASE \E o \in FreeOperations : Accept(o, "update", r, mg.generation)
      BY <3>3, AcceptOwns
    <3>4. QED
      BY <3>1, <3>2, <3>3
  <2>2. cutShort' = cutShort
    BY <1>5 DEF UpdateRequest, RequestDone
  <2>3. QED
    BY <1>2, <2>1, <2>2 DEF Unseen
<1>6. CASE ~(CreateRequest \/ CreateViaRestAction \/ UpdateRequest)
  <2>1. UNCHANGED <<live, ops>>
    BY <1>6 DEF CreateOrUpdate, CreateBegin, UpdateBegin, Begin, EnsureRole, EnsureBinding,
       EnsureFailureIgnored, RequestRejected, Record, Wait, Reread, Persist,
       UpdateViaRestAction, UpdateNow, PersistAction, UpdateStatus, PatchHandle, Continue,
       Return
  <2>2. Owned' = Owned
    BY <2>1 DEF Owned, Targets
  <2>3. QED
    BY <1>1, <1>2, <2>2 DEF Life!Forget, Unseen, Shown
<1>7. QED
  BY <1>4, <1>5, <1>6

(* Delete disposes of the resource and releases the CR when nothing is     *)
(* left, if that was shown.                                                *)
LEMMA DeleteKeepsLife ==
  ASSUME IInv, SInv, OInv, \A D \in Lives : LeavesNothing(D), Delete, UNCHANGED disturbances,
         [Next]_vars
  PROVE  Life!Dispose \/ Life!Release \/ Unseen
<1>1. crPhase = "deleting"
  BY DEF Delete, DeleteBegin, DeleteUnaddressable, DeleteNotFound, DeleteRequest,
     DeleteRejected, DeleteWait, DeleteViaRestAction, VerifyGone, DropBinding, DropRole,
     TeardownFailureIgnored, Release, SInv, StepDeclared, DeleteSteps, IInv, TypeOK,
     CustomResourceTypeOK, DeleteIsLast
<1>2. CASE Release
  <2>1. UNCHANGED <<apiVars, cutShort, verdict>> /\ crPhase' = "gone"
    BY <1>2 DEF Release
  <2>2. Shown /\ ~cutShort => Owned = {}
    BY DEF OInv, Attended, ConclusionHolds, Shown, SInv, InfoInUse
  <2>3. QED
    BY <1>1, <2>1, <2>2, OwnedStays DEF Life!Release, Shown
<1>3. CASE ~Release
  <2>1. UNCHANGED <<crPhase, cutShort>>
    BY <1>3 DEF Delete, DeleteBegin, DeleteUnaddressable, DeleteNotFound, DeleteRequest,
       DeleteRejected, DeleteWait, DeleteViaRestAction, VerifyGone, DropBinding, DropRole,
       TeardownFailureIgnored, ConcludeUntouched, Continue, Return
  <2>2. ~CreateRequest /\ ~CreateViaRestAction
    BY <1>3 DEF Delete, DeleteBegin, DeleteUnaddressable, DeleteNotFound, DeleteRequest,
       DeleteRejected, DeleteWait, DeleteViaRestAction, VerifyGone, DropBinding, DropRole,
       TeardownFailureIgnored, CreateRequest, CreateViaRestAction, SInv, StepDeclared,
       DeleteSteps, Dispatched
  <2>3. Owned' \subseteq Owned
    BY <2>2, OnlyCreateAdds DEF Shrinks
  <2>4. QED
    BY <1>1, <2>1, <2>3 DEF Life!Dispose, Shown
<1>4. QED
  BY <1>2, <1>3

(* What the service finishes takes nothing from a live CR.                 *)
LEMMA ServiceKeepsLife ==
  ASSUME IInv, DeletesAreAsked, Service, [Next]_vars
  PROVE  Life!Dispose \/ Life!Linger \/ Unseen
<1>1. UNCHANGED <<crPhase, disturbances, cutShort, verdict>>
  BY DEF Service, workerVars, crVars
<1>2. crPhase \in {"live", "deleting", "gone"}
  BY DEF IInv, TypeOK, CustomResourceTypeOK
<1>3. CASE crPhase # "live"
  <2>1. ~CreateRequest /\ ~CreateViaRestAction
    BY DEF Service, workerVars, CreateRequest, CreateViaRestAction, AfterAccepted, IInv,
       RequestDeclared
  <2>2. Owned' \subseteq Owned
    BY <2>1, OnlyCreateAdds DEF Shrinks
  <2>3. QED
    BY <1>1, <1>2, <1>3, <2>2 DEF Life!Dispose, Life!Linger, Shown
<1>4. CASE crPhase = "live"
  <2>1. PICK o \in Operations : OperationSucceeds(o) \/ OperationObsolete(o)
    BY DEF Service
  <2>2. /\ ops[o].state = "running" /\ ops'[o].state # "running"
        /\ \A p \in Operations : p # o => ops'[p] = ops[p]
        /\ ops[o].action \in {"create", "update"}
    BY <1>4, <2>1 DEF OperationSucceeds, OperationObsolete, OperationFails, DeletesAreAsked,
       IInv, TypeOK, ExternalTypeOK, OperationRecord, OperationStates, MutatingVerbs
  <2>3. live' = IF ops[o].action = "create" THEN live \cup {ops[o].target} ELSE live
    BY <2>1, <2>2 DEF OperationSucceeds, OperationObsolete, OperationFails
  <2>4. Creating' = Creating \ {o} /\ (o \in Creating <=> ops[o].action = "create")
    BY <2>2 DEF Creating
  <2>5. Owned' = Owned
    <3>1. {ops'[p].target : p \in Creating \ {o}} = {ops[p].target : p \in Creating \ {o}}
      BY <2>2 DEF Creating
    <3>2. Owned' = live' \cup {ops[p].target : p \in Creating \ {o}}
      BY <2>4, <3>1, OwnedIsLiveOrCreating
    <3>3. CASE ops[o].action = "create"
      BY <2>3, <2>4, <3>2, <3>3, OwnedIsLiveOrCreating
    <3>4. CASE ops[o].action # "create"
      BY <2>3, <2>4, <3>2, <3>4, OwnedIsLiveOrCreating
    <3>5. QED
      BY <3>3, <3>4
  <2>6. QED
    BY <1>1, <2>5 DEF Unseen
<1>5. QED
  BY <1>3, <1>4

(* Every step of the composition is a step of the promise, or none.        *)
LEMMA StepKeepsLife ==
  ASSUME EveryLifeCreatesOnce, \A D \in Lives : LeavesNothing(D),
         IInv, SInv, OInv, DeletesAreAsked, [Next]_vars
  PROVE  [Life!Next]_(Life!vars)
<1> USE DEF Life!Next, Life!vars
<1>1. Unseen => UNCHANGED Life!vars
  BY DEF Unseen, Shown
<1>2. CASE Reconcile
  BY <1>1, <1>2, ObserveIsUnseen, CreateOrUpdateKeepsLife, DeleteKeepsLife DEF Reconcile
<1>3. CASE User
  <2>1. UNCHANGED <<apiVars, disturbances, cutShort, verdict>>
    BY <1>3 DEF User, workerVars
  <2>2. crPhase' = crPhase \/ (crPhase = "live" /\ crPhase' = "deleting")
    BY <1>3 DEF User, EditSpec, UserDeletes
  <2>3. QED
    BY <2>1, <2>2, OwnedStays DEF Life!AskDeletion, Shown
<1>4. CASE Service
  BY <1>1, <1>4, ServiceKeepsLife
<1>5. CASE Disturb
  <2>1. UNCHANGED <<crPhase, cutShort, verdict>> /\ disturbances' = disturbances + 1
    BY <1>5 DEF Disturb, EditDefinition, crVars, workerVars
  <2>2. Owned' \subseteq Owned
    <3>1. ~CreateRequest /\ ~CreateViaRestAction
      BY <1>5 DEF Disturb, workerVars, CreateRequest, CreateViaRestAction, AfterAccepted,
         IInv, RequestDeclared
    <3>2. QED
      BY <3>1, OnlyCreateAdds DEF Shrinks
  <2>3. QED
    BY <2>1, <2>2 DEF Life!Interfere, Shown
<1>6. CASE Interrupt
  <2>1. /\ UNCHANGED <<apiVars, crPhase, disturbances, verdict>>
        /\ crPhase # "gone" /\ cutShort' \in {cutShort, TRUE}
    BY <1>6 DEF Interrupt, Abandon, IInv, TypeOK, HandlerTypeOK, DeleteIsLast
  <2>2. QED
    BY <2>1, OwnedStays DEF Life!Forget, Shown
<1>7. CASE UNCHANGED vars
  BY <1>7, OwnedStays DEF vars, workerVars, crVars, Shown
<1>8. QED
  BY <1>2, <1>3, <1>4, <1>5, <1>6, <1>7 DEF Next, Gone

-----------------------------------------------------------------------------
(* The handlers keep what a CR promises of its resource, for every service *)
(* and all definitions by which absence can be told and a delete believed. *)
THEOREM HandlersKeepThePromise ==
  ASSUME EveryLifeCreatesOnce, \A D \in Lives : LeavesNothing(D)
  PROVE  Spec => ImplementsResourceLife
<1>1. Init => Life!Init
  <2> SUFFICES ASSUME Init PROVE Life!Init
    OBVIOUS
  <2> USE DEF Init, ExternalInit, CustomResourceInit, HandlerInit
  <2>1. Targets("create") = {}
    BY DEF Targets
  <2>2. Owned \in {{}} \cup {{r} : r \in Resources}
    BY <2>1, NamingAssumption DEF Owned
  <2>3. QED
    BY <2>2 DEF Life!Init, Shown
<1>2. IInv /\ SInv /\ OInv /\ DeletesAreAsked /\ [Next]_vars => [Life!Next]_(Life!vars)
  BY StepKeepsLife
<1>3. IInv /\ DeletesAreAsked /\ [Next]_vars => DeletesAreAsked'
  BY NextKeepsDeletesAreAsked
<1>4. QED
  BY <1>1, <1>2, <1>3, InitSatisfiesDeletesAreAsked, OwnershipInvariance, PTL
     DEF Spec, ImplementsResourceLife, Life!Spec
=============================================================================
