-------------------------- MODULE RestResources_proofs -------------------------
(***************************************************************************)
(* What holds of RestResources for every set of resources, operations and  *)
(* definitions and every bound. One inductive invariant, IInv, relates the *)
(* next call of the worker (pc) to what the calls before it established.   *)
(***************************************************************************)
EXTENDS RestResources, TLAPS

(* An operation that runs works on a resource.                             *)
RunningHasTarget ==
  \A o \in Operations : ops[o].state = "running" => ops[o].target \in Resources

(* A handler under way has resolved a definition ...                       *)
DefinitionResolved ==
  pc \in ObserveSteps \cup MutateSteps \cup {"verifyGone"} => info \in Definitions

(* ... which says how the request it is going to send is carried out.      *)
RequestDeclared ==
  pc \in {"ensureRole", "ensureBinding", "request"} =>
    info[verb] \in {"sync", "accepted", "blocking", "requeue"}

(* Only a CR that is not live has been handled by Delete, and the handlers *)
(* never touch one that is gone.                                           *)
DeleteIsLast ==
  /\ verb = "delete" => crPhase # "live"
  /\ crPhase = "gone" => pc = "idle"

(* The handle about to be recorded is that of the request just answered.   *)
AnsweredOperationIsReal ==
  pc = "record" => /\ reply.op \in Operations
                   /\ ops[reply.op].state # "unused"
                   /\ ops[reply.op].action = verb
                   /\ verb \in {"create", "update"}

(* Past the poll no operation is recorded, up to the next Record.          *)
NothingRecorded ==
  /\ pc \in {"observeAction", "lookup", "project", "available"} \cup Dispatched
       => opId = NoOperation
  /\ pc \in MutateSteps \ {"persist"} /\ verb # "delete" => opId = NoOperation

(* What the poll found stays true until the handle is dropped.             *)
PolledOutcome ==
  /\ pc \in {"poll", "postGet", "clearOp", "failOp", "clearFailed"} => opId # NoOperation
  /\ pc \in {"postGet", "clearOp"} => ops[opId].state = "succeeded"
  /\ pc \in {"failOp", "clearFailed"} => ops[opId].state = "failed"
  /\ pc = "clearFailed" => ready = "Unavailable"

(* The RBAC pair is built and taken down one object after the other.       *)
PairInProgress ==
  /\ pc = "ensureBinding" => "role" \in rbac \/ rbacTouched
  /\ pc = "request" /\ verb # "delete" /\ mg.secretRefs => rbac = RbacPair \/ rbacTouched
  /\ pc = "dropRole" => "binding" \notin rbac
  /\ pc = "release" => rbac = {} \/ leaked

IInv ==
  /\ TypeOK
  /\ RunningHasTarget
  /\ DefinitionResolved
  /\ RequestDeclared
  /\ DeleteIsLast
  /\ AnsweredOperationIsReal
  /\ NothingRecorded
  /\ PolledOutcome
  /\ PairInProgress
  /\ RecordedOperationIsReal
  /\ RbacTornDown

-----------------------------------------------------------------------------
(* Every action preserves the invariant.                                   *)

USE DEF apiVars, rbacVars, desiredVars, statusVars, handleVars, localVars, auditVars

(* The frame of a step that leaves everything as it is.                    *)
LEMMA StutteringKeepsIInv ==
  ASSUME IInv, UNCHANGED vars
  PROVE  IInv'
BY DEF vars, crVars, workerVars, IInv, TypeOK, ExternalTypeOK, RbacTypeOK,
   CustomResourceTypeOK, HandlerTypeOK, RunningHasTarget, DefinitionResolved,
   RequestDeclared, DeleteIsLast, AnsweredOperationIsReal, NothingRecorded,
   PolledOutcome, PairInProgress, RecordedOperationIsReal, RbacTornDown

(* The initial states satisfy it.                                          *)
LEMMA InitSatisfiesIInv == Init => IInv
<1> SUFFICES ASSUME Init PROVE IInv
  OBVIOUS
<1> USE ResourcesAssumption, OperationsAssumption, NamingAssumption, DefinitionsAssumption
    DEF Init, ExternalInit, RbacInit, CustomResourceInit, HandlerInit
<1>1. ExternalTypeOK
  BY DEF ExternalTypeOK, OperationRecord, OperationStates, MutatingVerbs, ForeignState
<1>2. TypeOK
  BY <1>1 DEF TypeOK, RbacTypeOK, CustomResourceTypeOK, HandlerTypeOK, ReadyReasons,
     MutatingVerbs, Verdicts, ReplySet, NoReply
<1>3. RunningHasTarget
  BY DEF RunningHasTarget
<1>4. QED
  BY <1>2, <1>3 DEF IInv, DefinitionResolved, RequestDeclared, DeleteIsLast,
     AnsweredOperationIsReal, NothingRecorded, PolledOutcome, PairInProgress,
     RecordedOperationIsReal, RbacTornDown, ObserveSteps, MutateSteps, Dispatched

(* The steps of Observe.                                                   *)
LEMMA ObserveKeepsIInv ==
  ASSUME IInv, Observe, UNCHANGED disturbances
  PROVE  IInv'
<1> USE DefinitionsAssumption, OperationsAssumption
    DEF IInv, TypeOK, ExternalTypeOK, RbacTypeOK, CustomResourceTypeOK, HandlerTypeOK,
        RunningHasTarget, DefinitionResolved, RequestDeclared, DeleteIsLast,
        AnsweredOperationIsReal, NothingRecorded, PolledOutcome, PairInProgress,
        RecordedOperationIsReal, RbacTornDown,
        ObserveSteps, MutateSteps, DeleteSteps, Dispatched, ReadyReasons, Return, Continue
<1>1. CASE ObserveBegin
  BY <1>1 DEF ObserveBegin, Resolve, Copy
<1>2. CASE ObserveViaRestAction
  BY <1>2 DEF ObserveViaRestAction, UpdateStatus, Fresh
<1>3. CASE Poll
  BY <1>3 DEF Poll, PatchHandle, Copy
<1>4. CASE PostGet
  BY <1>4 DEF PostGet, GetHits, Visible, UpdateStatus, Fresh
<1>5. CASE ClearSucceeded
  BY <1>5 DEF ClearSucceeded, PatchHandle, Copy
<1>6. CASE MarkFailed
  BY <1>6 DEF MarkFailed, UpdateStatus, Fresh
<1>7. CASE ClearFailed
  BY <1>7 DEF ClearFailed, PatchHandle, Copy
<1>8. CASE LookupUnobservable
  BY <1>8 DEF LookupUnobservable
<1>9. CASE LookupNotFound
  BY <1>9 DEF LookupNotFound
<1>10. CASE LookupFound
  BY <1>10 DEF LookupFound, Candidates, GetHits, Visible
<1>11. CASE Project
  BY <1>11 DEF Project, UpdateStatus, Fresh
<1>12. CASE MarkAvailable
  BY <1>12 DEF MarkAvailable, UpdateStatus, Fresh
<1>13. QED
  BY <1>1, <1>2, <1>3, <1>4, <1>5, <1>6, <1>7, <1>8, <1>9, <1>10, <1>11, <1>12 DEF Observe

(* A request that is answered at once or accepted, by any verb: the other  *)
(* operations keep their records, and the new one is not yet recorded.     *)
LEMMA AcceptKeepsOperations ==
  ASSUME IInv,
         NEW o \in FreeOperations, NEW action \in MutatingVerbs, NEW r \in Resources,
         NEW g \in Nat, Accept(o, action, r, g)
  PROVE  /\ ExternalTypeOK'
         /\ RunningHasTarget'
         /\ o \in Operations /\ o # opId
         /\ ops'[o].state = "running" /\ ops'[o].action = action
         /\ \A p \in Operations : p # o => ops'[p] = ops[p]
<1>1. ops \in [Operations -> OperationRecord] /\ o \in Operations /\ o # opId
  BY DEF IInv, TypeOK, ExternalTypeOK, FreeOperations
<1>2. [state |-> "running", action |-> action, target |-> r, generation |-> g] \in OperationRecord
  BY DEF OperationRecord, OperationStates
<1>3. /\ ops' \in [Operations -> OperationRecord]
      /\ ops'[o] = [state |-> "running", action |-> action, target |-> r, generation |-> g]
      /\ \A p \in Operations : p # o => ops'[p] = ops[p]
  BY <1>1, <1>2 DEF Accept
<1>4. ExternalTypeOK'
  BY <1>3 DEF IInv, TypeOK, ExternalTypeOK, Accept
<1>5. RunningHasTarget'
  BY <1>3 DEF IInv, RunningHasTarget
<1>6. QED
  BY <1>1, <1>3, <1>4, <1>5

(* An answer is well-formed and carries the handle it was built from.      *)
LEMMA AnswerIsReply ==
  ASSUME NEW kind, NEW r \in Resources, NEW pending \in BOOLEAN,
         NEW o \in Operations \cup {NoOperation}
  PROVE  Answer(kind, r, pending, o) \in ReplySet /\ Answer(kind, r, pending, o).op = o
BY DEF Answer, ReplySet

(* What a request of create or update, and its answer, must establish.     *)
LEMMA RequestKeepsIInv ==
  ASSUME IInv, UNCHANGED disturbances, RequestDone, verb # "delete",
         pc \in {"request", "action"}, pc' \in {"persist", "wait", "record", "persistAction"},
         ExternalTypeOK', RunningHasTarget', reply' \in ReplySet,
         opId # NoOperation => ops'[opId] = ops[opId],
         pc' = "record" => /\ reply'.op \in Operations
                           /\ ops'[reply'.op].state = "running"
                           /\ ops'[reply'.op].action = verb
  PROVE  IInv'
BY DEF IInv, TypeOK, RbacTypeOK, CustomResourceTypeOK, HandlerTypeOK,
   DefinitionResolved, RequestDeclared, DeleteIsLast, AnsweredOperationIsReal,
   NothingRecorded, PolledOutcome, PairInProgress, RecordedOperationIsReal, RbacTornDown,
   ObserveSteps, MutateSteps, DeleteSteps, Dispatched, MutatingVerbs, RequestDone

(* The steps of Create and Update.                                         *)
LEMMA CreateOrUpdateKeepsIInv ==
  ASSUME IInv, CreateOrUpdate, UNCHANGED disturbances
  PROVE  IInv'
<1> USE DefinitionsAssumption, OperationsAssumption
    DEF IInv, TypeOK, RbacTypeOK, CustomResourceTypeOK, HandlerTypeOK,
        DefinitionResolved, RequestDeclared, DeleteIsLast,
        AnsweredOperationIsReal, NothingRecorded, PolledOutcome, PairInProgress,
        RecordedOperationIsReal, RbacTornDown,
        ObserveSteps, MutateSteps, DeleteSteps, Dispatched, ReadyReasons, MutatingVerbs,
        Return, Continue
<1>1. CASE CreateBegin
  BY <1>1 DEF CreateBegin, Begin, FirstCall, Resolve, Copy, DefinitionSet, Modes,
     ExternalTypeOK, RunningHasTarget
<1>2. CASE UpdateBegin
  BY <1>2 DEF UpdateBegin, Begin, FirstCall, Resolve, Copy, DefinitionSet, Modes,
     ExternalTypeOK, RunningHasTarget
<1>3. CASE EnsureRole
  <2>1. CASE RoleAcceptable(verb = "update")
    <3>1. /\ rbac' = rbac \cup {"role"} /\ UNCHANGED rbacTouched
          /\ pc = "ensureRole" /\ pc' = "ensureBinding"
      BY <1>3, <2>1 DEF EnsureRole, ApplyRbac
    <3>2. RbacTypeOK' /\ PairInProgress'
      BY <3>1 DEF RbacPair
    <3>3. QED
      BY <1>3, <3>1, <3>2 DEF EnsureRole, ExternalTypeOK, RunningHasTarget
  <2>2. CASE ~RoleAcceptable(verb = "update")
    BY <1>3, <2>2 DEF EnsureRole, ExternalTypeOK, RunningHasTarget
  <2>3. QED
    BY <2>1, <2>2
<1>4. CASE EnsureBinding
  <2>1. /\ rbac' = rbac \cup {"binding"} /\ UNCHANGED <<rbacTouched, verb, mg>>
        /\ pc = "ensureBinding" /\ pc' = "request"
    BY <1>4 DEF EnsureBinding, ApplyRbac
  <2>2. RbacTypeOK' /\ PairInProgress'
    <3>1. rbac \subseteq {"role", "binding"} /\ ("role" \in rbac \/ rbacTouched)
      BY <2>1 DEF RbacPair
    <3>2. rbac' \subseteq RbacPair
      BY <2>1, <3>1 DEF RbacPair
    <3>3. "role" \in rbac => rbac' = RbacPair
      BY <2>1, <3>1 DEF RbacPair
    <3>4. QED
      BY <2>1, <3>1, <3>2, <3>3
  <2>3. QED
    BY <1>4, <2>1, <2>2 DEF EnsureBinding, ExternalTypeOK, RunningHasTarget
<1>5. CASE EnsureFailureIgnored
  BY <1>5 DEF EnsureFailureIgnored, ExternalTypeOK, RunningHasTarget
<1>8. CASE RequestRejected
  BY <1>8 DEF RequestRejected, ExternalTypeOK, RunningHasTarget
<1>9. CASE Record
  BY <1>9 DEF Record, PatchHandle, Copy, ExternalTypeOK, RunningHasTarget
<1>10. CASE Wait
  BY <1>10 DEF Wait, ExternalTypeOK, RunningHasTarget
<1>11. CASE Reread
  <2>1. ASSUME NEW r \in GetHits(info),
               reply' = [reply EXCEPT !.id = r, !.body = TRUE, !.pending = FALSE]
        PROVE  reply' \in ReplySet
    BY <2>1 DEF GetHits, Visible, ReplySet, ExternalTypeOK
  <2>2. reply' \in ReplySet
    BY <1>11, <2>1 DEF Reread
  <2>3. /\ pc = "reread" /\ pc' \in {"persist", "idle"}
        /\ UNCHANGED <<apiVars, rbacVars, desiredVars, statusVars, handleVars, verb, info,
                       mg, seen, faults, auditVars>>
    BY <1>11 DEF Reread
  <2>4. QED
    BY <2>2, <2>3 DEF ExternalTypeOK, RunningHasTarget
<1>12. CASE Persist
  BY <1>12 DEF Persist, IdentifierAfter, ReasonAfter, ReplySet, UpdateStatus, Fresh,
     ExternalTypeOK, RunningHasTarget
<1>15. CASE PersistAction
  BY <1>15 DEF PersistAction, ReplySet, UpdateStatus, Fresh, ExternalTypeOK, RunningHasTarget
<1>6. CASE CreateRequest
  <2>1. pc = "request" /\ verb = "create" /\ RequestDone
    BY <1>6 DEF CreateRequest
  <2>2. PICK r \in Assignable :
          \/ /\ info.create = "sync"
             /\ CreateNow(r, mg.generation)
             /\ reply' = Answer(info.created, r, FALSE, NoOperation)
             /\ pc' = "persist"
          \/ /\ info.create # "sync"
             /\ \E o \in FreeOperations, pending \in BOOLEAN :
                  /\ info.create = "accepted" => pending
                  /\ Accept(o, "create", r, mg.generation)
                  /\ reply' = Answer(info.created, r, pending, o)
             /\ pc' = AfterAccepted(info.create)
    BY <1>6 DEF CreateRequest
  <2>3. r \in Resources
    BY <2>2 DEF Assignable, ExternalTypeOK
  <2>4. CASE /\ CreateNow(r, mg.generation)
             /\ reply' = Answer(info.created, r, FALSE, NoOperation)
             /\ pc' = "persist"
    <3>1. ExternalTypeOK' /\ RunningHasTarget'
      BY <2>3, <2>4 DEF CreateNow, ExternalTypeOK, RunningHasTarget
    <3>2. reply' \in ReplySet
      BY <2>3, <2>4, AnswerIsReply
    <3>3. UNCHANGED ops
      BY <2>4 DEF CreateNow
    <3>4. QED
      BY <2>1, <2>4, <3>1, <3>2, <3>3, RequestKeepsIInv
  <2>5. ASSUME info.create # "sync",
               NEW o \in FreeOperations, NEW pending \in BOOLEAN,
               Accept(o, "create", r, mg.generation),
               reply' = Answer(info.created, r, pending, o),
               pc' = AfterAccepted(info.create)
        PROVE  IInv'
    <3>1. /\ ExternalTypeOK' /\ RunningHasTarget'
          /\ o \in Operations /\ o # opId
          /\ ops'[o].state = "running" /\ ops'[o].action = "create"
          /\ \A p \in Operations : p # o => ops'[p] = ops[p]
      BY <2>3, <2>5, AcceptKeepsOperations
    <3>2. reply' \in ReplySet /\ reply'.op = o
      BY <2>3, <2>5, <3>1, AnswerIsReply
    <3>3. pc' \in {"persist", "wait", "record"}
      BY <2>1, <2>5 DEF AfterAccepted
    <3>4. opId # NoOperation => opId \in Operations
      OBVIOUS
    <3>5. QED
      BY <2>1, <3>1, <3>2, <3>3, <3>4, RequestKeepsIInv
  <2>6. QED
    BY <2>2, <2>4, <2>5
<1>7. CASE UpdateRequest
  <2>1. pc = "request" /\ verb = "update" /\ RequestDone
    BY <1>7 DEF UpdateRequest
  <2>2. PICK r \in Reached(statusId) :
          \/ /\ info.update = "sync"
             /\ UpdateNow(r, mg.generation)
             /\ reply' = Answer(info.updated, r, FALSE, NoOperation)
             /\ pc' = "persist"
          \/ /\ info.update # "sync"
             /\ \E o \in FreeOperations, pending \in BOOLEAN :
                  /\ info.update = "accepted" => pending
                  /\ Accept(o, "update", r, mg.generation)
                  /\ reply' = Answer(info.updated, r, pending, o)
             /\ pc' = AfterAccepted(info.update)
    BY <1>7 DEF UpdateRequest
  <2>3. r \in Resources
    BY <2>2 DEF Reached, ExternalTypeOK
  <2>4. CASE /\ UpdateNow(r, mg.generation)
             /\ reply' = Answer(info.updated, r, FALSE, NoOperation)
             /\ pc' = "persist"
    <3>1. ExternalTypeOK' /\ RunningHasTarget'
      BY <2>3, <2>4 DEF UpdateNow, ExternalTypeOK, RunningHasTarget
    <3>2. reply' \in ReplySet
      BY <2>3, <2>4, AnswerIsReply
    <3>3. UNCHANGED ops
      BY <2>4 DEF UpdateNow
    <3>4. QED
      BY <2>1, <2>4, <3>1, <3>2, <3>3, RequestKeepsIInv
  <2>5. ASSUME info.update # "sync",
               NEW o \in FreeOperations, NEW pending \in BOOLEAN,
               Accept(o, "update", r, mg.generation),
               reply' = Answer(info.updated, r, pending, o),
               pc' = AfterAccepted(info.update)
        PROVE  IInv'
    <3>1. /\ ExternalTypeOK' /\ RunningHasTarget'
          /\ o \in Operations /\ o # opId
          /\ ops'[o].state = "running" /\ ops'[o].action = "update"
          /\ \A p \in Operations : p # o => ops'[p] = ops[p]
      BY <2>3, <2>5, AcceptKeepsOperations
    <3>2. reply' \in ReplySet /\ reply'.op = o
      BY <2>3, <2>5, <3>1, AnswerIsReply
    <3>3. pc' \in {"persist", "wait", "record"}
      BY <2>1, <2>5 DEF AfterAccepted
    <3>4. opId # NoOperation => opId \in Operations
      OBVIOUS
    <3>5. QED
      BY <2>1, <3>1, <3>2, <3>3, <3>4, RequestKeepsIInv
  <2>6. QED
    BY <2>2, <2>4, <2>5
<1>13. CASE CreateViaRestAction
  <2>1. /\ pc = "action" /\ verb = "create" /\ pc' = "persistAction" /\ RequestDone
        /\ UNCHANGED ops
    BY <1>13 DEF CreateViaRestAction, CreateNow
  <2>2. ExternalTypeOK'
    BY <1>13 DEF CreateViaRestAction, CreateNow, Assignable, ExternalTypeOK
  <2>3. NoReply \in ReplySet /\ live \subseteq Resources
    BY DEF NoReply, ReplySet, ExternalTypeOK
  <2>4. \/ \E r \in Resources : reply' = Answer(info.created, r, FALSE, NoOperation)
        \/ reply' = NoReply
    BY <1>13, <2>3 DEF CreateViaRestAction, Assignable, ExternalTypeOK
  <2>5. reply' \in ReplySet
    <3>1. ASSUME NEW r \in Resources, reply' = Answer(info.created, r, FALSE, NoOperation)
          PROVE  reply' \in ReplySet
      BY <3>1, AnswerIsReply
    <3>2. QED
      BY <2>3, <2>4, <3>1
  <2>6. QED
    BY <2>1, <2>2, <2>5, RequestKeepsIInv DEF RunningHasTarget
<1>14. CASE UpdateViaRestAction
  <2>1. /\ pc = "action" /\ verb = "update" /\ pc' = "persistAction" /\ RequestDone
        /\ UNCHANGED ops
    BY <1>14 DEF UpdateViaRestAction, UpdateNow
  <2>2. ExternalTypeOK'
    BY <1>14 DEF UpdateViaRestAction, UpdateNow, ExternalTypeOK
  <2>3. NoReply \in ReplySet /\ live \subseteq Resources
    BY DEF NoReply, ReplySet, ExternalTypeOK
  <2>4. \/ \E r \in Resources : reply' = Answer(info.updated, r, FALSE, NoOperation)
        \/ reply' = NoReply
    BY <1>14, <2>3 DEF UpdateViaRestAction
  <2>5. reply' \in ReplySet
    <3>1. ASSUME NEW r \in Resources, reply' = Answer(info.updated, r, FALSE, NoOperation)
          PROVE  reply' \in ReplySet
      BY <3>1, AnswerIsReply
    <3>2. QED
      BY <2>3, <2>4, <3>1
  <2>6. QED
    BY <2>1, <2>2, <2>5, RequestKeepsIInv DEF RunningHasTarget
<1>16. QED
  BY <1>1, <1>2, <1>3, <1>4, <1>5, <1>6, <1>7, <1>8, <1>9, <1>10, <1>11, <1>12, <1>13,
     <1>14, <1>15 DEF CreateOrUpdate

(* The steps of Delete.                                                    *)
LEMMA DeleteKeepsIInv ==
  ASSUME IInv, Delete, UNCHANGED disturbances
  PROVE  IInv'
<1> USE DefinitionsAssumption, OperationsAssumption
    DEF IInv, TypeOK, RbacTypeOK, CustomResourceTypeOK, HandlerTypeOK,
        DefinitionResolved, RequestDeclared, DeleteIsLast,
        AnsweredOperationIsReal, NothingRecorded, PolledOutcome, PairInProgress,
        RecordedOperationIsReal, RbacTornDown,
        ObserveSteps, MutateSteps, DeleteSteps, Dispatched, MutatingVerbs, Verdicts,
        Return, Continue, Conclude, ConcludeUntouched
<1>1. CASE DeleteBegin
  <2>1. /\ pc \in {"idle"} \cup Dispatched
        /\ crPhase = "deleting"
        /\ verb' = "delete"
        /\ UNCHANGED <<apiVars, rbacVars, desiredVars, statusVars, handleVars, reply,
                       seen, faults, cutShort, leaked>>
    BY <1>1 DEF DeleteBegin
  <2>2. CASE def = NoDefinition
    <3>1. pc' = "dropBinding" /\ verdict' \in Verdicts /\ UNCHANGED <<info, mg>>
      BY <1>1, <2>2 DEF DeleteBegin
    <3>2. QED
      BY <2>1, <3>1 DEF ExternalTypeOK, RunningHasTarget
  <2>3. CASE def # NoDefinition
    <3>1. def \in Definitions /\ Resolve(def) /\ verdict' \in Verdicts
      BY <1>1, <2>3 DEF DeleteBegin
    <3>2. \/ pc' \in {"dropBinding", "action"}
          \/ pc' \in {"ensureRole", "request"} /\ def.delete \notin {"absent", "restaction"}
      BY <1>1, <2>3 DEF DeleteBegin
    <3>3. def.delete \in Modes
      BY <3>1 DEF DefinitionSet
    <3>4. QED
      BY <2>1, <3>1, <3>2, <3>3 DEF Resolve, Copy, Modes, ExternalTypeOK, RunningHasTarget
  <2>4. QED
    BY <2>2, <2>3
<1>2. CASE DeleteUnaddressable
  BY <1>2 DEF DeleteUnaddressable, ExternalTypeOK, RunningHasTarget
<1>3. CASE DeleteNotFound
  BY <1>3 DEF DeleteNotFound, ExternalTypeOK, RunningHasTarget
<1>4. CASE DeleteRequest
  <2>1. /\ pc = "request" /\ verb = "delete"
        /\ UNCHANGED <<rbacVars, desiredVars, statusVars, handleVars, verb, info, mg,
                       seen, faults, cutShort, leaked>>
    BY <1>4 DEF DeleteRequest
  <2>2. PICK r \in Reached(statusId) :
          \/ /\ DeleteNow(r)
             /\ Conclude("deleted")
             /\ UNCHANGED reply
          \/ /\ \E o \in FreeOperations :
                  /\ Accept(o, "delete", r, mg.generation)
                  /\ reply' = [NoReply EXCEPT !.op = o, !.pending = TRUE]
             /\ \/ pc' = "wait" /\ UNCHANGED verdict
                \/ Conclude("deleted")
    BY <1>4 DEF DeleteRequest
  <2>3. r \in Resources
    BY <2>2 DEF Reached, ExternalTypeOK
  <2>4. CASE DeleteNow(r) /\ Conclude("deleted") /\ UNCHANGED reply
    <3>1. ExternalTypeOK' /\ RunningHasTarget' /\ UNCHANGED ops
      BY <2>3, <2>4 DEF DeleteNow, ExternalTypeOK, RunningHasTarget
    <3>2. QED
      BY <2>1, <2>4, <3>1
  <2>5. ASSUME NEW o \in FreeOperations,
               Accept(o, "delete", r, mg.generation),
               reply' = [NoReply EXCEPT !.op = o, !.pending = TRUE],
               (pc' = "wait" /\ UNCHANGED verdict) \/ Conclude("deleted")
        PROVE  IInv'
    <3>1. /\ ExternalTypeOK' /\ RunningHasTarget'
          /\ o \in Operations /\ o # opId
          /\ \A p \in Operations : p # o => ops'[p] = ops[p]
      BY <2>3, <2>5, AcceptKeepsOperations
    <3>2. reply' \in ReplySet
      BY <2>5, <3>1 DEF NoReply, ReplySet
    <3>3. pc' \in {"wait", "dropBinding"} /\ verdict' \in Verdicts
      BY <2>5
    <3>4. QED
      BY <2>1, <3>1, <3>2, <3>3
  <2>6. QED
    BY <2>2, <2>4, <2>5
<1>5. CASE DeleteRejected
  BY <1>5 DEF DeleteRejected, ExternalTypeOK, RunningHasTarget
<1>6. CASE DeleteWait
  BY <1>6 DEF DeleteWait, ExternalTypeOK, RunningHasTarget
<1>7. CASE DeleteViaRestAction
  BY <1>7 DEF DeleteViaRestAction, DeleteNow, ExternalTypeOK, RunningHasTarget
<1>8. CASE VerifyGone
  BY <1>8 DEF VerifyGone, ExternalTypeOK, RunningHasTarget
<1>9. CASE DropBinding
  BY <1>9 DEF DropBinding, RemoveRbac, ExternalTypeOK, RunningHasTarget
<1>10. CASE DropRole
  <2>1. rbac' \subseteq RbacPair /\ rbac' = {} /\ pc' = "release"
    BY <1>10 DEF DropRole, RemoveRbac, RbacPair
  <2>2. QED
    BY <1>10, <2>1 DEF DropRole, RemoveRbac, ExternalTypeOK, RunningHasTarget
<1>11. CASE TeardownFailureIgnored
  BY <1>11 DEF TeardownFailureIgnored, ExternalTypeOK, RunningHasTarget
<1>12. CASE Release
  BY <1>12 DEF Release, ExternalTypeOK, RunningHasTarget
<1>13. QED
  BY <1>1, <1>2, <1>3, <1>4, <1>5, <1>6, <1>7, <1>8, <1>9, <1>10, <1>11, <1>12 DEF Delete

(* What the service does by itself keeps the record of every operation.    *)
LEMMA ServiceKeepsOperations ==
  ASSUME IInv, NEW o \in Operations,
         OperationSucceeds(o) \/ OperationFails(o) \/ OperationObsolete(o)
  PROVE  /\ ExternalTypeOK'
         /\ RunningHasTarget'
         /\ \A p \in Operations : /\ ops'[p].action = ops[p].action
                                  /\ ops[p].state # "unused" => ops'[p].state # "unused"
                                  /\ ops[p].state # "running" => ops'[p].state = ops[p].state
<1> USE DEF IInv, TypeOK, ExternalTypeOK, RunningHasTarget, OperationRecord, OperationStates
<1>1. PICK outcome \in {"succeeded", "failed"} :
        ops[o].state = "running" /\ ops' = [ops EXCEPT ![o].state = outcome]
  BY DEF OperationSucceeds, OperationFails, OperationObsolete
<1>2. ops' \in [Operations -> OperationRecord]
  BY <1>1
<1>3. live' \subseteq Resources /\ issued' \subseteq Resources /\ remote' \in [Resources -> Nat]
  BY DEF OperationSucceeds, OperationFails, OperationObsolete, MutatingVerbs
<1>4. QED
  BY <1>1, <1>2, <1>3

(* Everybody else's steps.                                                 *)
LEMMA EnvironmentKeepsIInv ==
  ASSUME IInv, User \/ Service \/ Disturb
  PROVE  IInv'
<1> USE DefinitionsAssumption, OperationsAssumption
    DEF IInv, TypeOK, RbacTypeOK, CustomResourceTypeOK, HandlerTypeOK,
        DefinitionResolved, RequestDeclared, DeleteIsLast,
        AnsweredOperationIsReal, NothingRecorded, PolledOutcome, PairInProgress,
        RecordedOperationIsReal, RbacTornDown,
        ObserveSteps, MutateSteps, DeleteSteps, Dispatched, MutatingVerbs,
        workerVars, crVars
<1>1. ASSUME NEW o \in Operations,
             OperationSucceeds(o) \/ OperationFails(o) \/ OperationObsolete(o),
             UNCHANGED <<rbacVars, crVars, workerVars>>, disturbances' \in Nat
      PROVE  IInv'
  BY <1>1, ServiceKeepsOperations
<1>2. ASSUME NEW r \in Resources, DeletedOutOfBand(r) \/ ChangedOutOfBand(r),
             UNCHANGED <<rbacVars, crVars, workerVars>>, disturbances' \in Nat
      PROVE  IInv'
  BY <1>2 DEF DeletedOutOfBand, ChangedOutOfBand, DeleteNow, UpdateNow, ForeignState,
     ExternalTypeOK, RunningHasTarget
<1>3. CASE EditSpec /\ UNCHANGED <<apiVars, rbacVars, workerVars, disturbances>>
  BY <1>3 DEF EditSpec, ExternalTypeOK, RunningHasTarget
<1>4. CASE UserDeletes /\ UNCHANGED <<apiVars, rbacVars, workerVars, disturbances>>
  BY <1>4 DEF UserDeletes, ExternalTypeOK, RunningHasTarget
<1>5. CASE RoleRemovedOutOfBand /\ UNCHANGED <<apiVars, crVars, workerVars>>
           /\ disturbances' \in Nat
  BY <1>5 DEF RoleRemovedOutOfBand, ExternalTypeOK, RunningHasTarget
<1>6. ASSUME NEW d \in Definitions \cup {NoDefinition}, EditDefinition(d),
             UNCHANGED <<apiVars, rbacVars, workerVars>>, disturbances' \in Nat
      PROVE  IInv'
  BY <1>6 DEF EditDefinition, ExternalTypeOK, RunningHasTarget
<1>7. Disturb => disturbances' \in Nat
  BY DEF Disturb
<1>8. CASE User
  BY <1>3, <1>4, <1>8 DEF User
<1>9. CASE Service
  BY <1>1, <1>9 DEF Service
<1>10. CASE Disturb
  BY <1>1, <1>2, <1>5, <1>6, <1>7, <1>10 DEF Disturb
<1>11. QED
  BY <1>8, <1>9, <1>10

(* A handler that goes no further.                                         *)
LEMMA InterruptKeepsIInv ==
  ASSUME IInv, Interrupt
  PROVE  IInv'
BY DEF Interrupt, Abandon, IInv, TypeOK, ExternalTypeOK, RbacTypeOK,
   CustomResourceTypeOK, HandlerTypeOK, RunningHasTarget, DefinitionResolved,
   RequestDeclared, DeleteIsLast, AnsweredOperationIsReal, NothingRecorded,
   PolledOutcome, PairInProgress, RecordedOperationIsReal, RbacTornDown,
   ObserveSteps, MutateSteps, DeleteSteps, Dispatched

(* Every step preserves the invariant.                                     *)
LEMMA NextKeepsIInv == IInv /\ [Next]_vars => IInv'
<1> SUFFICES ASSUME IInv, [Next]_vars PROVE IInv'
  OBVIOUS
<1>1. CASE Reconcile
  BY <1>1, ObserveKeepsIInv, CreateOrUpdateKeepsIInv, DeleteKeepsIInv DEF Reconcile
<1>2. CASE User \/ Service \/ Disturb
  BY <1>2, EnvironmentKeepsIInv
<1>3. CASE Interrupt
  BY <1>3, InterruptKeepsIInv
<1>4. CASE UNCHANGED vars
  BY <1>4, StutteringKeepsIInv
<1>5. QED
  BY <1>1, <1>2, <1>3, <1>4 DEF Next, Gone

-----------------------------------------------------------------------------
(* The theorems.                                                           *)

(* The invariant holds in every reachable state.                           *)
THEOREM Invariance == Spec => []IInv
<1>1. IInv /\ [Next]_vars => IInv'
  BY NextKeepsIInv
<1>2. QED
  BY <1>1, InitSatisfiesIInv, PTL DEF Spec

(* Every variable keeps its type: status, annotations and RBAC are written *)
(* with values the next reconcile understands.                             *)
THEOREM TypeCorrect == Spec => []TypeOK
<1>1. IInv => TypeOK
  BY DEF IInv
<1>2. QED
  BY <1>1, Invariance, PTL

(* The annotations of Model B name an operation the service really started *)
(* for a create or an update, whenever the CR is interrupted, edited or    *)
(* deleted and however its RestDefinition changes.                         *)
THEOREM HandleIsReal == Spec => []RecordedOperationIsReal
<1>1. IInv => RecordedOperationIsReal
  BY DEF IInv
<1>2. QED
  BY <1>1, Invariance, PTL

(* The Role and the RoleBinding of a CR do not outlive it, unless their    *)
(* teardown failed and was ignored.                                        *)
THEOREM NoGrantOutlivesTheCR == Spec => []RbacTornDown
<1>1. IInv => RbacTornDown
  BY DEF IInv
<1>2. QED
  BY <1>1, Invariance, PTL

(* Every step that makes the call of a create or update is a RequestSent,  *)
(* the synchronous ones and those that change nothing included.            *)
LEMMA CallsAreSeen ==
  ASSUME IInv, CreateRequest \/ UpdateRequest \/ RequestRejected
               \/ CreateViaRestAction \/ UpdateViaRestAction
  PROVE  RequestSent
<1>1. verb # "delete" /\ pc \in {"request", "action"}
  BY DEF CreateRequest, UpdateRequest, RequestRejected, CreateViaRestAction, UpdateViaRestAction
<1>2. pc = "request" => info[verb] \in {"sync", "accepted", "blocking", "requeue"}
  BY DEF IInv, RequestDeclared
<1>3. CASE CreateRequest
  <2>1. pc' = "persist" \/ (info.create # "sync" /\ pc' = AfterAccepted(info.create))
    BY <1>3 DEF CreateRequest
  <2>2. info.create \in {"sync", "accepted", "blocking", "requeue"}
    BY <1>2, <1>3 DEF CreateRequest
  <2>3. pc' \in {"persist", "wait", "record"}
    BY <2>1, <2>2 DEF AfterAccepted
  <2>4. QED
    BY <1>1, <2>3 DEF RequestSent
<1>4. CASE UpdateRequest
  <2>1. pc' = "persist" \/ (info.update # "sync" /\ pc' = AfterAccepted(info.update))
    BY <1>4 DEF UpdateRequest
  <2>2. info.update \in {"sync", "accepted", "blocking", "requeue"}
    BY <1>2, <1>4 DEF UpdateRequest
  <2>3. pc' \in {"persist", "wait", "record"}
    BY <2>1, <2>2 DEF AfterAccepted
  <2>4. QED
    BY <1>1, <2>3 DEF RequestSent
<1>5. CASE RequestRejected \/ CreateViaRestAction \/ UpdateViaRestAction
  <2>1. pc' = "idle" \/ pc' = "persistAction"
    BY <1>5 DEF RequestRejected, CreateViaRestAction, UpdateViaRestAction, Return, Continue
  <2>2. QED
    BY <1>1, <2>1 DEF RequestSent
<1>6. QED
  BY <1>3, <1>4, <1>5

(* Model B never triggers a create or update while an operation is         *)
(* recorded: Observe polls first and does not fall through before the      *)
(* handle is gone.                                                         *)
THEOREM PollsBeforeTriggering == Spec => NoRequestWhileRecorded
<1>1. IInv /\ [Next]_vars => [RequestSent => opId = NoOperation]_vars
  BY DEF RequestSent, IInv, NothingRecorded, MutateSteps
<1>2. QED
  BY <1>1, Invariance, PTL DEF Spec, NoRequestWhileRecorded

(* A create or update that reads Secrets is sent under the complete pair   *)
(* of Role and RoleBinding, unless somebody else removed the Role.         *)
THEOREM GrantsBeforeSending == Spec => GrantedBeforeRequest
<1>1. IInv /\ [Next]_vars =>
        [RequestSent /\ pc = "request" /\ mg.secretRefs => rbac = RbacPair \/ rbacTouched]_vars
  BY DEF RequestSent, IInv, PairInProgress
<1>2. QED
  BY <1>1, Invariance, PTL DEF Spec, GrantedBeforeRequest

(* The steps that may drop or change a handle: the definition no longer    *)
(* declares the operation, or the poll has found it terminal.              *)
LEMMA HandleDroppedWhenTerminal ==
  ASSUME IInv, [Next]_vars, opId # NoOperation, opId' # opId, AsyncDeclared(info, opAction)
  PROVE  \/ ops[opId].state = "succeeded"
         \/ ops[opId].state = "failed" /\ ready = "Unavailable"
<1>1. ClearSucceeded \/ ClearFailed \/ Poll \/ Record
  <2>1. CASE Observe
    BY <2>1 DEF Observe, ObserveBegin, ObserveViaRestAction, PostGet, MarkFailed,
       LookupUnobservable, LookupNotFound, LookupFound, Project, MarkAvailable,
       UpdateStatus, Continue, Return
  <2>2. CASE CreateOrUpdate
    BY <2>2 DEF CreateOrUpdate, CreateBegin, UpdateBegin, Begin, EnsureRole, EnsureBinding,
       EnsureFailureIgnored, CreateRequest, UpdateRequest, RequestDone, RequestRejected,
       Wait, Reread, Persist, CreateViaRestAction, UpdateViaRestAction, PersistAction,
       UpdateStatus, Continue, Return
  <2>3. CASE Delete
    BY <2>3 DEF Delete, DeleteBegin, DeleteUnaddressable, DeleteNotFound, DeleteRequest,
       DeleteRejected, DeleteWait, DeleteViaRestAction, VerifyGone, DropBinding, DropRole,
       TeardownFailureIgnored, Release, ConcludeUntouched, Continue, Return
  <2>4. CASE User
    BY <2>4 DEF User, EditSpec, UserDeletes
  <2>5. CASE Service
    BY <2>5 DEF Service, crVars
  <2>6. CASE Disturb
    BY <2>6 DEF Disturb, crVars, EditDefinition
  <2>7. CASE Interrupt
    BY <2>7 DEF Interrupt, Abandon
  <2>8. CASE UNCHANGED vars
    BY <2>8 DEF vars, crVars
  <2>9. QED
    BY <2>1, <2>2, <2>3, <2>4, <2>5, <2>6, <2>7, <2>8 DEF Next, Reconcile, Gone
<1>2. ~Poll
  BY DEF Poll, Continue, Return
<1>3. ~Record
  <2>1. SUFFICES ASSUME Record PROVE FALSE
    OBVIOUS
  <2>2. pc = "record" /\ verb \in {"create", "update"}
    BY <2>1 DEF Record, IInv, AnsweredOperationIsReal
  <2>3. QED
    BY <2>2 DEF IInv, NothingRecorded, MutateSteps
<1>4. QED
  BY <1>1, <1>2, <1>3 DEF ClearSucceeded, ClearFailed, IInv, PolledOutcome

(* A handle a definition still declares is dropped only once the service   *)
(* has finished the operation: the controller forgets nothing in flight.   *)
THEOREM OnlyTerminalHandlesAreDropped == Spec => HandleKeptUntilTerminal
<1>1. IInv /\ [Next]_vars =>
        [/\ opId # NoOperation /\ opId' # opId
         /\ AsyncDeclared(info, opAction)
         => ops[opId].state \in {"succeeded", "failed"}]_vars
  BY HandleDroppedWhenTerminal
<1>2. QED
  BY <1>1, Invariance, PTL DEF Spec, HandleKeptUntilTerminal

(* Ready leaves Pending before the handle of a failed operation goes, so   *)
(* that the next Observe does not take its absence for creation under way. *)
THEOREM FailureIsReportedFirst == Spec => FailureOutlivesPending
<1>1. IInv /\ [Next]_vars =>
        [/\ opId # NoOperation /\ opId' = NoOperation
         /\ ops[opId].state = "failed"
         /\ AsyncDeclared(info, opAction)
         => ready # "Pending"]_vars
  BY HandleDroppedWhenTerminal
<1>2. QED
  BY <1>1, Invariance, PTL DEF Spec, FailureOutlivesPending
=============================================================================
