-------------------------- MODULE CreateUpdateHandler --------------------------
(***************************************************************************)
(* handler.Create and handler.Update (restResources.go), with the RBAC     *)
(* they provision (secretrbac_integration.go), the two async drivers       *)
(* (driveAsync, recordAsyncOperation) and the delegated forms              *)
(* (mutate_restaction.go). The two handlers have one shape and differ in   *)
(* what they expect of the Role, in how the answer reaches status, and in  *)
(* the condition a RESTAction leaves.                                      *)
(***************************************************************************)
EXTENDS Handler

(* The first call of a handler that sends the request of verb v under d.   *)
FirstCall(d, v) ==
  CASE d[v] = "absent"     -> "idle"
    [] d[v] = "restaction" -> "action"
    [] OTHER               -> IF secretRefs THEN "ensureRole" ELSE "request"

Begin(v) ==
  /\ crPhase = "live"
  /\ IF def = NoDefinition
     THEN pc' = "idle" /\ UNCHANGED <<info, mg>>
     ELSE pc' = FirstCall(def, v) /\ Resolve(def)
  /\ verb' = v
  /\ UNCHANGED <<apiVars, rbacVars, desiredVars, statusVars, handleVars, reply,
                 seen, faults, auditVars>>

CreateBegin == pc = "createNext" /\ Begin("create")
UpdateBegin == pc = "updateNext" /\ Begin("update")

-----------------------------------------------------------------------------
(* ensureSecretRefRBACAndResolve: update alone insists on finding the Role *)
(* in place; delete alone goes on when provisioning fails.                 *)

(* Mutant of EnsureRole: the RoleBinding is forgotten.                     *)
EnsureRoleAlone ==
  /\ pc = "ensureRole"
  /\ IF RoleAcceptable(verb = "update")
     THEN ApplyRbac("role") /\ pc' = "request"
     ELSE pc' = "idle" /\ UNCHANGED rbacVars
  /\ UNCHANGED <<apiVars, desiredVars, statusVars, handleVars, localVars, faults,
                 auditVars>>

EnsureRole ==
  /\ pc = "ensureRole"
  /\ IF RoleAcceptable(verb = "update")
     THEN ApplyRbac("role") /\ pc' = "ensureBinding"
     ELSE pc' = "idle" /\ UNCHANGED rbacVars
  /\ UNCHANGED <<apiVars, desiredVars, statusVars, handleVars, localVars, faults,
                 auditVars>>

EnsureBinding ==
  /\ pc = "ensureBinding"
  /\ ApplyRbac("binding")
  /\ pc' = "request"
  /\ UNCHANGED <<apiVars, desiredVars, statusVars, handleVars, localVars, faults,
                 auditVars>>

EnsureFailureIgnored ==
  /\ pc \in {"ensureRole", "ensureBinding"}
  /\ verb = "delete"
  /\ faults < MaxFaults
  /\ faults' = faults + 1
  /\ pc' = "request"
  /\ UNCHANGED <<apiVars, rbacVars, desiredVars, statusVars, handleVars,
                 localVars, auditVars>>

-----------------------------------------------------------------------------
(* The mutating request. An answer counts as pending when its status is    *)
(* 202; one that carries a handle may also be a 200 or 201.                *)

Answer(kind, r, pending, o) ==
  [id |-> IF kind = "identified" THEN r ELSE NoResource,
   body |-> kind # "empty", pending |-> pending, op |-> o]

AfterAccepted(mode) ==
  CASE mode = "accepted" -> "persist"
    [] mode = "blocking" -> "wait"
    [] mode = "requeue"  -> "record"

RequestDone == UNCHANGED <<rbacVars, desiredVars, statusVars, handleVars, verb,
                           info, mg, seen, faults, auditVars>>

CreateRequest ==
  /\ pc = "request"
  /\ verb = "create"
  /\ \E r \in Assignable :
       \/ /\ info.create = "sync"
          /\ CreateNow(r, mg.generation)
          /\ reply' = Answer(info.created, r, FALSE, NoOperation)
          /\ pc' = "persist"
       \/ /\ info.create # "sync"
          /\ \E o \in FreeOperations, pending \in BOOLEAN :
               /\ info.create = "accepted" => pending
               /\ Accept(o, "create", r, mg.generation)
               /\ reply' = Answer(info.created, r, pending, o)
          /\ pc' = AfterAccepted(info.create)
  /\ RequestDone

UpdateRequest ==
  /\ pc = "request"
  /\ verb = "update"
  /\ Addressable
  /\ \E r \in Reached(statusId) :
       \/ /\ info.update = "sync"
          /\ UpdateNow(r, mg.generation)
          /\ reply' = Answer(info.updated, r, FALSE, NoOperation)
          /\ pc' = "persist"
       \/ /\ info.update # "sync"
          /\ \E o \in FreeOperations, pending \in BOOLEAN :
               /\ info.update = "accepted" => pending
               /\ Accept(o, "update", r, mg.generation)
               /\ reply' = Answer(info.updated, r, pending, o)
          /\ pc' = AfterAccepted(info.update)
  /\ RequestDone

(* The request cannot be built (missing path parameter), finds nothing     *)
(* (404), or is turned down because the service is out of identifiers or   *)
(* operations, which is where the model's bounds end.                      *)
RequestRejected ==
  /\ pc = "request"
  /\ \/ verb = "create" /\ Assignable = {}
     \/ verb = "update" /\ (~Addressable \/ Reached(statusId) = {})
     \/ verb # "delete" /\ info[verb] # "sync" /\ FreeOperations = {}
  /\ Return

-----------------------------------------------------------------------------
(* Mutant of Record: the action is always create.                          *)
RecordAsCreate ==
  /\ pc = "record"
  /\ PatchHandle(reply.op, "create", "persist")

(* Model B: the handle is stored after the request was sent.               *)
Record ==
  /\ pc = "record"
  /\ PatchHandle(reply.op, verb, "persist")

(* Model A: the worker waits. A create or update that asks for postGet     *)
(* takes the get's answer for its own.                                     *)
Wait ==
  /\ pc = "wait"
  /\ verb # "delete"
  /\ \/ ops[reply.op].state = "succeeded" /\ info.postGet /\ Continue("reread")
     \/ ops[reply.op].state = "succeeded" /\ ~info.postGet /\ Continue("persist")
     \/ ops[reply.op].state = "failed" /\ Return

Reread ==
  /\ pc = "reread"
  /\ \/ /\ info.get /\ Addressable
        /\ \E r \in GetHits(info) :
             /\ reply' = [reply EXCEPT !.id = r, !.body = TRUE, !.pending = FALSE]
             /\ pc' = "persist"
             /\ UNCHANGED <<apiVars, rbacVars, desiredVars, statusVars, handleVars,
                            verb, info, mg, seen, faults, auditVars>>
     \/ /\ ~info.get \/ ~Addressable \/ GetHits(info) = {}
        /\ Return

(* Create always starts status over; update keeps it when there is no body.*)
IdentifierAfter == IF verb = "create" \/ reply.body THEN reply.id ELSE statusId

(* Mutant of ReasonAfter: an accepted create counts as done.               *)
ReasonAfterIgnoresPending == IF info[verb] = "requeue" THEN "Pending" ELSE "Creating"

ReasonAfter ==
  IF reply.pending \/ info[verb] = "requeue" THEN "Pending" ELSE "Creating"

(* Mutant of Persist: an update leaves a reason nobody else knows.         *)
PersistAsUpdating ==
  /\ pc = "persist"
  /\ UpdateStatus(IdentifierAfter, IF verb = "update" THEN "Updating" ELSE "Creating", "idle")
  /\ cutShort' = (cutShort \/ (verb = "create" /\ ~Fresh))

(* The answer reaches status, unless the CR changed meanwhile.             *)
Persist ==
  /\ pc = "persist"
  /\ UpdateStatus(IdentifierAfter, ReasonAfter, "idle")
  /\ cutShort' = (cutShort \/ (verb = "create" /\ ~Fresh))

-----------------------------------------------------------------------------
(* The delegated forms. A RESTAction is idempotent, and answers 200        *)
(* whether or not all of its stages did their work.                        *)

CreateViaRestAction ==
  /\ pc = "action"
  /\ verb = "create"
  /\ \/ live = {} /\ \E r \in Assignable :
          CreateNow(r, mg.generation) /\ reply' = Answer(info.created, r, FALSE, NoOperation)
     \/ \E r \in live :
          UNCHANGED apiVars /\ reply' = Answer(info.created, r, FALSE, NoOperation)
     \/ UNCHANGED apiVars /\ reply' = NoReply
  /\ pc' = "persistAction"
  /\ RequestDone

UpdateViaRestAction ==
  /\ pc = "action"
  /\ verb = "update"
  /\ \/ \E r \in live :
          UpdateNow(r, mg.generation) /\ reply' = Answer(info.updated, r, FALSE, NoOperation)
     \/ UNCHANGED apiVars /\ reply' = NoReply
  /\ pc' = "persistAction"
  /\ RequestDone

(* An empty result leaves status as it is.                                 *)
PersistAction ==
  /\ pc = "persistAction"
  /\ UpdateStatus(IF reply.body THEN reply.id ELSE statusId,
                  IF verb = "create" THEN "Creating" ELSE "Available", "idle")
  /\ cutShort' = (cutShort \/ (verb = "create" /\ ~Fresh))

CreateOrUpdate ==
  \/ CreateBegin \/ UpdateBegin
  \/ EnsureRole \/ EnsureBinding \/ EnsureFailureIgnored
  \/ CreateRequest \/ UpdateRequest \/ RequestRejected
  \/ Record \/ Wait \/ Reread \/ Persist
  \/ CreateViaRestAction \/ UpdateViaRestAction \/ PersistAction
=============================================================================
