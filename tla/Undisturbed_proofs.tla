--------------------------- MODULE Undisturbed_proofs ---------------------------
(***************************************************************************)
(* An interrupted create is found again, not repeated: while the service   *)
(* carries out every request before it answers and nobody else touches the *)
(* resource, a CR never owns two, no matter where its creates are cut      *)
(* short. What takes the place of the answer that was lost is the search:  *)
(* as long as every identifier handed out is that of the live resource,    *)
(* the lookup finds it with or without an identifier in status.            *)
(***************************************************************************)
EXTENDS Ownership_proofs

(* Nobody disturbed the CR so far and no request was deferred.             *)
Undisturbed == disturbances = 0 /\ \A o \in Operations : ops[o].state = "unused"

(* Every identifier that was handed out, stored, answered or found is that *)
(* of a live resource.                                                     *)
Findable ==
  /\ issued = live
  /\ statusId \in live \cup {NoResource}
  /\ pc \in AfterRequest => reply.id \in live \cup {NoResource}
  /\ pc = "project" => seen.id \in live

(* No other handler runs once Delete has.                                  *)
NoneAfterDelete == verb = "delete" => pc \notin ObserveSteps \cup Dispatched

OneLive == \A r, s \in live : r = s

(* A create is decided on and sent when nothing is live.                   *)
NoneLive == Triggering => live = {}

(* The lookup is left to the verbs that search.                            *)
LookupSearches == pc = "lookup" => info.observe = "verbs"

NInv ==
  /\ NoneAfterDelete
  /\ Undisturbed => OneLive /\ NoneLive /\ LookupSearches /\ (verb # "delete" => Findable)

-----------------------------------------------------------------------------
USE DEF apiVars, rbacVars, desiredVars, statusVars, handleVars, localVars, auditVars

(* While no operation was started none is recorded, and none creates.      *)
LEMMA NoOperationIsOpen ==
  ASSUME IInv, Undisturbed
  PROVE  opId = NoOperation /\ Creating = {} /\ Owned = live
<1>1. opId = NoOperation
  BY DEF IInv, RecordedOperationIsReal, TypeOK, CustomResourceTypeOK, Undisturbed
<1>2. Creating = {}
  BY DEF Undisturbed, Creating
<1>3. QED
  BY <1>1, <1>2, OwnedIsLiveOrCreating

(* An operation that was started is never unused again.                    *)
LEMMA AcceptIsSeen ==
  ASSUME IInv, NEW o \in FreeOperations, NEW action, NEW r, NEW g, Accept(o, action, r, g)
  PROVE  ~Undisturbed'
<1>1. o \in Operations /\ ops'[o].state = "running"
  BY DEF Accept, IInv, TypeOK, ExternalTypeOK, FreeOperations
<1>2. QED
  BY <1>1 DEF Undisturbed

(* What the service does with an operation is seen as well.                *)
LEMMA OutcomeIsSeen ==
  ASSUME IInv, NEW o \in Operations,
         OperationSucceeds(o) \/ OperationFails(o) \/ OperationObsolete(o)
  PROVE  ~Undisturbed'
<1>1. ops'[o].state \in {"succeeded", "failed"}
  BY DEF OperationSucceeds, OperationFails, OperationObsolete, IInv, TypeOK, ExternalTypeOK,
     OperationRecord
<1>2. QED
  BY <1>1 DEF Undisturbed

(* So a step that ends undisturbed is the controller's or the user's, and  *)
(* leaves the operations alone: it started undisturbed, too.               *)
LEMMA DisturbedForGood ==
  ASSUME IInv, [Next]_vars, Undisturbed'
  PROVE  Undisturbed /\ ~Disturb /\ ~Service
<1>1. ~Service
  BY OutcomeIsSeen DEF Service
<1>2. ~Disturb
  BY DEF Disturb, Undisturbed, IInv, TypeOK
<1>3. disturbances' = disturbances
  BY <1>1, <1>2 DEF Next, Reconcile, User, Interrupt, Gone, vars
<1>4. ops' = ops
  <2>1. CASE Observe
    BY <2>1 DEF Observe, ObserveBegin, ObserveViaRestAction, Poll, PostGet, ClearSucceeded,
       MarkFailed, ClearFailed, LookupUnobservable, LookupNotFound, LookupFound, Project,
       MarkAvailable, UpdateStatus, PatchHandle, Continue, Return
  <2>2. CASE CreateOrUpdate
    <3>1. CASE CreateRequest
      BY <3>1, AcceptIsSeen DEF CreateRequest, CreateNow
    <3>2. CASE UpdateRequest
      BY <3>2, AcceptIsSeen DEF UpdateRequest, UpdateNow
    <3>3. CASE ~CreateRequest /\ ~UpdateRequest
      BY <2>2, <3>3 DEF CreateOrUpdate, CreateBegin, UpdateBegin, Begin, EnsureRole,
         EnsureBinding, EnsureFailureIgnored, RequestRejected, Record, Wait, Reread, Persist,
         CreateViaRestAction, CreateNow, UpdateViaRestAction, UpdateNow, PersistAction,
         UpdateStatus, PatchHandle, Continue, Return
    <3>4. QED
      BY <3>1, <3>2, <3>3
  <2>3. CASE Delete
    <3>1. CASE DeleteRequest
      BY <3>1, AcceptIsSeen DEF DeleteRequest, DeleteNow
    <3>2. CASE ~DeleteRequest
      BY <2>3, <3>2 DEF Delete, DeleteBegin, DeleteUnaddressable, DeleteNotFound,
         DeleteRejected, DeleteWait, DeleteViaRestAction, DeleteNow, VerifyGone, DropBinding,
         DropRole, TeardownFailureIgnored, Release, ConcludeUntouched, Continue, Return
    <3>3. QED
      BY <3>1, <3>2
  <2>4. CASE User \/ Interrupt \/ UNCHANGED vars
    BY <2>4 DEF User, Interrupt, Abandon, vars
  <2>5. QED
    BY <1>1, <1>2, <2>1, <2>2, <2>3, <2>4 DEF Next, Reconcile, Gone
<1>5. QED
  BY <1>1, <1>2, <1>3, <1>4 DEF Undisturbed

-----------------------------------------------------------------------------
(* Every step keeps NInv.                                                  *)

(* Observe leaves the service alone and finds what is there.               *)
LEMMA ObserveKeepsNInv ==
  ASSUME FindsAgain(Definitions), IInv, NInv, Observe, [Next]_vars
  PROVE  NInv'
<1> USE DEF NInv, NoneAfterDelete, OneLive, NoneLive, LookupSearches, Triggering, Findable,
        ObserveSteps, MutateSteps, Dispatched, AfterRequest
<1>1. UNCHANGED <<apiVars, verb, reply>>
  BY DEF Observe, ObserveBegin, ObserveViaRestAction, Poll, PostGet, ClearSucceeded,
     MarkFailed, ClearFailed, LookupUnobservable, LookupNotFound, LookupFound, Project,
     MarkAvailable, UpdateStatus, PatchHandle, Continue, Return
<1>2. verb # "delete"
  BY DEF Observe, ObserveBegin, ObserveViaRestAction, Poll, PostGet, ClearSucceeded,
     MarkFailed, ClearFailed, LookupUnobservable, LookupNotFound, LookupFound, Project,
     MarkAvailable, IInv, DeleteIsLast
<1>3. NoneAfterDelete'
  BY <1>1, <1>2
<1>4. SUFFICES ASSUME Undisturbed'
      PROVE  (OneLive /\ NoneLive /\ LookupSearches /\ Findable)'
  BY <1>3
<1>5. Undisturbed /\ opId = NoOperation
  BY <1>4, DisturbedForGood, NoOperationIsOpen
<1>6. /\ OneLive /\ issued = live /\ statusId \in live \cup {NoResource}
      /\ pc = "lookup" => info.observe = "verbs"
      /\ pc = "project" => seen.id \in live
  BY <1>2, <1>5
<1>7. CASE ObserveBegin
  BY <1>1, <1>5, <1>6, <1>7 DEF ObserveBegin, Resolve
<1>8. CASE ObserveViaRestAction
  BY <1>1, <1>6, <1>8 DEF ObserveViaRestAction, UpdateStatus, Continue
<1>9. CASE Poll \/ PostGet \/ ClearSucceeded \/ MarkFailed \/ ClearFailed
  BY <1>5, <1>9 DEF Poll, PostGet, ClearSucceeded, MarkFailed, ClearFailed, IInv, PolledOutcome
<1>10. CASE LookupUnobservable \/ LookupNotFound \/ LookupFound
  <2>1. pc = "lookup" /\ info \in Definitions /\ info.findby
    BY <1>6, <1>10 DEF LookupUnobservable, LookupNotFound, LookupFound, FindsAgain,
       IInv, DefinitionResolved
  <2>2. Visible(info) = live
    BY <1>6 DEF Visible
  <2>3. Candidates = live
    BY <1>6, <2>2 DEF Candidates, Known, GetHits, Addressable
  <2>4. CASE LookupUnobservable
    BY <2>1, <2>4 DEF LookupUnobservable, Observable
  <2>5. CASE LookupNotFound
    BY <1>1, <1>6, <2>3, <2>5 DEF LookupNotFound, Continue, Return
  <2>6. CASE LookupFound
    BY <1>1, <1>6, <2>3, <2>6 DEF LookupFound, Continue
  <2>7. QED
    BY <1>10, <2>4, <2>5, <2>6
<1>11. CASE Project \/ MarkAvailable
  BY <1>1, <1>6, <1>11 DEF Project, MarkAvailable, UpdateStatus
<1>12. QED
  BY <1>7, <1>8, <1>9, <1>10, <1>11 DEF Observe

(* A create makes the one resource there is, and its answer names it or    *)
(* names none.                                                             *)
LEMMA CreateOrUpdateKeepsNInv ==
  ASSUME IInv, NInv, CreateOrUpdate, [Next]_vars
  PROVE  NInv'
<1> USE DEF NInv, NoneAfterDelete, OneLive, NoneLive, LookupSearches, Triggering, Findable,
        ObserveSteps, MutateSteps, Dispatched, AfterRequest
<1>1. /\ pc' \notin ObserveSteps \cup Dispatched
      /\ CreateBegin \/ UpdateBegin \/ verb' = verb
  BY DEF CreateOrUpdate, CreateBegin, UpdateBegin, Begin, FirstCall, EnsureRole,
     EnsureBinding, EnsureFailureIgnored, CreateRequest, UpdateRequest, RequestDone,
     AfterAccepted, RequestRejected, Record, Wait, Reread, Persist, CreateViaRestAction,
     UpdateViaRestAction, PersistAction, UpdateStatus, PatchHandle, Continue, Return,
     IInv, RequestDeclared
<1>2. SUFFICES ASSUME Undisturbed'
      PROVE  OneLive' /\ NoneLive' /\ (verb' # "delete" => Findable')
  BY <1>1
<1>3. Undisturbed /\ mg.generation \in Nat
  BY <1>2, DisturbedForGood DEF IInv, TypeOK, HandlerTypeOK
<1>4. OneLive /\ NoneLive /\ (verb # "delete" => Findable)
  BY <1>3
<1>5. CASE CreateBegin \/ UpdateBegin
  BY <1>1, <1>4, <1>5 DEF CreateBegin, UpdateBegin, Begin, FirstCall, IInv, DeleteIsLast
<1>6. CASE EnsureRole \/ EnsureBinding \/ EnsureFailureIgnored
  BY <1>4, <1>6 DEF EnsureRole, EnsureBinding, EnsureFailureIgnored
<1>7. ASSUME NEW r, NEW kind, NEW pending, NEW o, reply' = Answer(kind, r, pending, o)
      PROVE  reply'.id \in {r, NoResource}
  BY <1>7 DEF Answer
<1>8. CASE CreateRequest
  <2>1. PICK r \in Assignable :
          CreateNow(r, mg.generation) /\ reply' = Answer(info.created, r, FALSE, NoOperation)
    BY <1>2, <1>8, AcceptIsSeen DEF CreateRequest
  <2>2. pc' \in AfterRequest /\ UNCHANGED statusVars /\ live = {} /\ issued = live
    BY <1>1, <1>4, <1>8 DEF CreateRequest, RequestDone, AfterAccepted, IInv, RequestDeclared
  <2>3. live' = {r} /\ issued' = {r} /\ statusId' = statusId /\ statusId \in {NoResource}
    BY <1>4, <1>8, <2>1, <2>2 DEF CreateNow, CreateRequest
  <2>4. reply'.id \in {r, NoResource}
    BY <1>7, <2>1
  <2>5. QED
    BY <2>2, <2>3, <2>4
<1>9. CASE UpdateRequest
  <2>1. PICK r \in Reached(statusId) :
          UpdateNow(r, mg.generation) /\ reply' = Answer(info.updated, r, FALSE, NoOperation)
    BY <1>2, <1>9, AcceptIsSeen DEF UpdateRequest
  <2>2. r \in live
    BY <2>1 DEF Reached
  <2>3. verb = "update" /\ UNCHANGED <<verb, statusVars>> /\ Findable
    BY <1>4, <1>9 DEF UpdateRequest, RequestDone
  <2>4. QED
    BY <1>1, <1>4, <1>7, <2>1, <2>2, <2>3 DEF UpdateNow
<1>10. CASE RequestRejected \/ Record \/ Wait
  BY <1>4, <1>10 DEF RequestRejected, Record, Wait, PatchHandle, Continue, Return, IInv,
     AnsweredOperationIsReal
<1>11. CASE Reread
  <2>1. CASE Return
    BY <1>4, <1>11, <2>1 DEF Return, Continue
  <2>2. CASE ~Return
    <3>1. PICK r \in GetHits(info) :
            /\ reply' = [reply EXCEPT !.id = r, !.body = TRUE, !.pending = FALSE]
            /\ pc' = "persist"
            /\ UNCHANGED <<apiVars, statusVars, verb>>
      BY <1>11, <2>2 DEF Reread
    <3>2. reply'.id = r
      BY <3>1 DEF IInv, TypeOK, HandlerTypeOK, ReplySet
    <3>3. verb # "delete" => r \in live
      BY <1>4, <3>1 DEF GetHits, Visible
    <3>4. QED
      BY <1>4, <3>1, <3>2, <3>3
  <2>3. QED
    BY <2>1, <2>2
<1>12. CASE Persist \/ PersistAction
  BY <1>4, <1>12 DEF Persist, PersistAction, UpdateStatus, IdentifierAfter
<1>13. CASE CreateViaRestAction
  <2>1. /\ pc' = "persistAction" /\ verb = "create"
        /\ UNCHANGED <<verb, statusVars>> /\ Findable
    BY <1>4, <1>13 DEF CreateViaRestAction, RequestDone
  <2>2. CASE UNCHANGED apiVars
    <3>1. CASE reply' = NoReply
      BY <1>4, <2>1, <2>2, <3>1 DEF NoReply
    <3>2. ASSUME NEW r \in live, reply' = Answer(info.created, r, FALSE, NoOperation)
          PROVE  OneLive' /\ NoneLive' /\ (verb' # "delete" => Findable')
      <4>1. reply'.id \in {r, NoResource}
        BY <1>7, <3>2
      <4>2. QED
        BY <1>4, <2>1, <2>2, <3>2, <4>1
    <3>3. ~\E r \in Assignable : live = {} /\ CreateNow(r, mg.generation)
      BY <2>2 DEF CreateNow
    <3>4. QED
      BY <1>13, <3>1, <3>2, <3>3 DEF CreateViaRestAction
  <2>3. ASSUME NEW r \in Assignable, live = {}, CreateNow(r, mg.generation),
               reply' = Answer(info.created, r, FALSE, NoOperation)
        PROVE  OneLive' /\ NoneLive' /\ (verb' # "delete" => Findable')
    <3>1. reply'.id \in {r, NoResource}
      BY <1>7, <2>3
    <3>2. live' = {r} /\ issued' = {r} /\ statusId' = statusId /\ statusId \in {NoResource}
      BY <2>1, <2>3 DEF CreateNow
    <3>3. QED
      BY <2>1, <3>1, <3>2
  <2>4. QED
    BY <1>13, <2>2, <2>3 DEF CreateViaRestAction
<1>14. CASE UpdateViaRestAction
  <2>1. /\ pc' = "persistAction" /\ verb = "update"
        /\ UNCHANGED <<verb, statusVars, live, issued>> /\ Findable
    BY <1>4, <1>14 DEF UpdateViaRestAction, RequestDone, UpdateNow
  <2>2. CASE reply' = NoReply
    BY <1>4, <2>1, <2>2 DEF NoReply
  <2>3. ASSUME NEW r \in live, reply' = Answer(info.updated, r, FALSE, NoOperation)
        PROVE  OneLive' /\ NoneLive' /\ (verb' # "delete" => Findable')
    <3>1. reply'.id \in {r, NoResource}
      BY <1>7, <2>3
    <3>2. QED
      BY <1>4, <2>1, <2>3, <3>1
  <2>4. QED
    BY <1>14, <2>2, <2>3 DEF UpdateViaRestAction
<1>15. QED
  BY <1>5, <1>6, <1>8, <1>9, <1>10, <1>11, <1>12, <1>13, <1>14 DEF CreateOrUpdate

(* Delete only takes away, and nothing but Delete follows it.              *)
LEMMA DeleteKeepsNInv ==
  ASSUME IInv, SInv, NInv, Delete, [Next]_vars
  PROVE  NInv'
<1> USE DEF NInv, NoneAfterDelete, OneLive, NoneLive, LookupSearches, Triggering,
        ObserveSteps, MutateSteps, Dispatched
<1>1. CASE Release
  BY <1>1, DisturbedForGood DEF Release, Findable, AfterRequest
<1>2. CASE ~Release
  <2>1. verb' = "delete" /\ pc' \notin ObserveSteps \cup Dispatched
    BY <1>2 DEF Delete, DeleteBegin, DeleteUnaddressable, DeleteNotFound, DeleteRequest,
       DeleteRejected, DeleteWait, DeleteViaRestAction, VerifyGone, DropBinding, DropRole,
       TeardownFailureIgnored, Conclude, ConcludeUntouched, Continue, Return,
       SInv, StepDeclared, DeleteSteps
  <2>2. Undisturbed' => live' \subseteq live
    <3>1. CASE DeleteRequest
      BY <3>1, AcceptIsSeen DEF DeleteRequest, DeleteNow
    <3>2. CASE ~DeleteRequest
      BY <1>2, <3>2 DEF Delete, DeleteBegin, DeleteUnaddressable, DeleteNotFound,
         DeleteRejected, DeleteWait, DeleteViaRestAction, DeleteNow, VerifyGone, DropBinding,
         DropRole, TeardownFailureIgnored, ConcludeUntouched, Continue, Return
    <3>3. QED
      BY <3>1, <3>2
  <2>3. QED
    BY <2>1, <2>2, DisturbedForGood
<1>3. QED
  BY <1>1, <1>2

(* Steps outside the handlers, and handlers that go no further.            *)
LEMMA OtherStepsKeepNInv ==
  ASSUME IInv, NInv, [Next]_vars, User \/ Service \/ Disturb \/ Interrupt \/ UNCHANGED vars
  PROVE  NInv'
<1> USE DEF NInv, NoneAfterDelete, OneLive, NoneLive, LookupSearches, Triggering, Findable,
        ObserveSteps, MutateSteps, Dispatched, AfterRequest
<1>1. NoneAfterDelete'
  BY DEF User, Service, Disturb, Interrupt, Abandon, workerVars, vars
<1>2. SUFFICES ASSUME Undisturbed'
      PROVE  OneLive' /\ NoneLive' /\ LookupSearches' /\ (verb' # "delete" => Findable')
  BY <1>1
<1>3. Undisturbed /\ (User \/ Interrupt \/ UNCHANGED vars)
  BY <1>2, DisturbedForGood
<1>4. CASE User
  BY <1>3, <1>4 DEF User, EditSpec, UserDeletes, workerVars
<1>5. CASE Interrupt
  BY <1>3, <1>5 DEF Interrupt, Abandon
<1>6. CASE UNCHANGED vars
  BY <1>3, <1>6 DEF vars, workerVars, crVars
<1>7. QED
  BY <1>3, <1>4, <1>5, <1>6

-----------------------------------------------------------------------------
(* The initial states satisfy NInv: an adoptable resource is live and its  *)
(* identifier counts as handed out.                                        *)
LEMMA InitSatisfiesNInv == Init => NInv
BY DEF Init, ExternalInit, CustomResourceInit, HandlerInit, NInv, NoneAfterDelete, OneLive,
   NoneLive, LookupSearches, Triggering, Findable, ObserveSteps, Dispatched, AfterRequest

(* Every step keeps it.                                                    *)
LEMMA NextKeepsNInv ==
  ASSUME FindsAgain(Definitions)
  PROVE  IInv /\ SInv /\ NInv /\ [Next]_vars => NInv'
<1> SUFFICES ASSUME IInv, SInv, NInv, [Next]_vars PROVE NInv'
  OBVIOUS
<1>1. CASE Reconcile
  BY <1>1, ObserveKeepsNInv, CreateOrUpdateKeepsNInv, DeleteKeepsNInv DEF Reconcile
<1>2. CASE User \/ Service \/ Disturb \/ Interrupt \/ UNCHANGED vars
  BY <1>2, OtherStepsKeepNInv
<1>3. QED
  BY <1>1, <1>2 DEF Next, Gone

(* A CR whose resources can be searched for never owns a second one while  *)
(* it is left alone, wherever its creates are cut short: the lookup finds  *)
(* again what an interrupted create has made.                              *)
THEOREM NeverTwoEver ==
  ASSUME FindsAgain(Definitions)
  PROVE  Spec => []NoDuplicateEver
<1>1. IInv /\ NInv => NoDuplicateEver
  <2> SUFFICES ASSUME IInv, NInv, Undisturbed PROVE Cardinality(Owned) <= 1
    BY DEF NoDuplicateEver, Undisturbed
  <2>1. \A r, s \in Owned : r = s
    BY NoOperationIsOpen DEF NInv, OneLive
  <2>2. QED
    BY <2>1, AtMostOneOwned DEF OneOwned
<1>2. IInv /\ SInv /\ NInv /\ [Next]_vars => NInv'
  BY NextKeepsNInv
<1>3. QED
  BY <1>1, <1>2, InitSatisfiesNInv, DeclarationInvariance, PTL DEF Spec
=============================================================================
