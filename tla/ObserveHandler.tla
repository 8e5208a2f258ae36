----------------------------- MODULE ObserveHandler ----------------------------
(***************************************************************************)
(* handler.Observe (restResources.go), with the Model B driver it calls    *)
(* (async_requeue.go) and the delegated observe (observe_restaction.go).   *)
(* Observe ends a reconcile ("idle") or has the runtime dispatch Create    *)
(* ("createNext", the resource does not exist) or Update ("updateNext").   *)
(***************************************************************************)
EXTENDS Handler

(* Mutant of ObserveBegin: goes straight to the existence check.           *)
ObserveBeginWithoutPoll ==
  /\ pc = "idle"
  /\ crPhase = "live"
  /\ def # NoDefinition
  /\ Resolve(def)
  /\ pc' = IF def.observe = "verbs" THEN "lookup" ELSE "observeAction"
  /\ UNCHANGED <<apiVars, rbacVars, desiredVars, statusVars, handleVars, verb,
                 reply, seen, faults, auditVars>>

(* An operation in flight is polled before anything else; it also takes    *)
(* precedence over the delegated observe.                                  *)
ObserveBegin ==
  /\ pc = "idle"
  /\ crPhase = "live"
  /\ def # NoDefinition
  /\ Resolve(def)
  /\ pc' = CASE opId # NoOperation    -> "poll"
             [] opId = NoOperation /\ def.observe = "verbs" -> "lookup"
             [] OTHER                 -> "observeAction"
  /\ UNCHANGED <<apiVars, rbacVars, desiredVars, statusVars, handleVars, verb,
                 reply, seen, faults, auditVars>>

(* The RESTAction reports the resource absent or drifted only through its  *)
(* notFoundExpr and upToDateExpr. Whatever it composed is merged into      *)
(* status, and the Ready condition is written in the same update.          *)
ObserveViaRestAction ==
  /\ pc = "observeAction"
  /\ \/ /\ live = {}
        /\ info.observe = "predicates"
        /\ Continue("createNext")
     \/ /\ live = {}
        /\ info.observe = "restaction"
        /\ UpdateStatus(statusId, "Available", "idle")
        /\ UNCHANGED cutShort
     \/ \E r \in live :
          /\ IF info.observe = "restaction" \/ remote[r] = mg.generation
             THEN UpdateStatus(r, "Available", "idle")
             ELSE UpdateStatus(r, "Unavailable", "updateNext")
          /\ UNCHANGED cutShort

-----------------------------------------------------------------------------
(* Mutant of Poll: drops the handle of a failed operation while Pending.   *)
PollDropsFailedFirst ==
  /\ pc = "poll"
  /\ \/ /\ ~AsyncDeclared(info, opAction)
        /\ PatchHandle(NoOperation, "none", "lookup")
     \/ /\ AsyncDeclared(info, opAction)
        /\ \/ ops[opId].state = "running" /\ Return
           \/ ops[opId].state = "succeeded" /\ Continue("clearOp")
           \/ ops[opId].state = "failed" /\ Continue("clearFailed")

(* Mutant of Poll: takes every status it does not know for a success.      *)
PollTreatsRunningAsDone ==
  /\ pc = "poll"
  /\ \/ /\ ~AsyncDeclared(info, opAction)
        /\ PatchHandle(NoOperation, "none", "lookup")
     \/ /\ AsyncDeclared(info, opAction)
        /\ \/ ops[opId].state # "failed" /\ Continue("clearOp")
           \/ ops[opId].state = "failed" /\ Continue("failOp")

(* driveAsyncRequeue: one poll per reconcile.                              *)
Poll ==
  /\ pc = "poll"
  /\ \/ /\ ~AsyncDeclared(info, opAction)
        /\ PatchHandle(NoOperation, "none", "lookup")
     \/ /\ AsyncDeclared(info, opAction)
        /\ \/ ops[opId].state = "running" /\ Return
           \/ ops[opId].state = "succeeded" /\ info.postGet /\ Continue("postGet")
           \/ ops[opId].state = "succeeded" /\ ~info.postGet /\ Continue("clearOp")
           \/ ops[opId].state = "failed" /\ Continue("failOp")

(* reReadStatusOnAsyncSuccess: any failure of the get, a 404 included,     *)
(* keeps the handle for the next reconcile.                                *)
PostGet ==
  /\ pc = "postGet"
  /\ \/ ~info.get /\ Continue("clearOp")
     \/ info.get /\ ~Addressable /\ Return
     \/ /\ info.get
        /\ Addressable
        /\ GetHits(info) = {}
        /\ IF "get" \in info.tolerate THEN Continue("clearOp") ELSE Return
     \/ /\ info.get
        /\ Addressable
        /\ \E r \in GetHits(info) : UpdateStatus(r, ready, "clearOp")
        /\ UNCHANGED cutShort

(* Mutant of ClearSucceeded: the patch leaves the annotations in place.    *)
ClearSucceededIsNoOp == pc = "clearOp" /\ PatchHandle(opId, opAction, "lookup")

ClearSucceeded == pc = "clearOp" /\ PatchHandle(NoOperation, "none", "lookup")

(* A failed operation: leave Pending first, drop the handle second.        *)
MarkFailed ==
  /\ pc = "failOp"
  /\ UpdateStatus(statusId, "Unavailable", "clearFailed")
  /\ UNCHANGED cutShort

ClearFailed == pc = "clearFailed" /\ PatchHandle(NoOperation, "none", "idle")

-----------------------------------------------------------------------------
(* The existence check by get or findby, and what follows from it.         *)

Known == info.get /\ Addressable

(* Mutant of Observable: findby is no fallback for a missing identifier.   *)
ObservableByGetOnly == Known

Observable == Known \/ info.findby

(* The resources the observe call can be answered with.                    *)
Candidates == IF Known THEN GetHits(info) ELSE Visible(info)

LookupUnobservable ==
  /\ pc = "lookup"
  /\ ~Observable
  /\ IF ready \in {"Creating", "Available"} THEN Continue("available")
                                            ELSE Continue("createNext")

(* Mutant of LookupNotFound: Pending makes no difference.                  *)
LookupNotFoundIgnoresPending ==
  /\ pc = "lookup"
  /\ Observable
  /\ Candidates = {}
  /\ Continue(IF Known /\ "get" \in info.tolerate THEN "available" ELSE "createNext")

LookupNotFound ==
  /\ pc = "lookup"
  /\ Observable
  /\ Candidates = {}
  /\ CASE Known /\ "get" \in info.tolerate -> Continue("available")
       [] ~(Known /\ "get" \in info.tolerate) /\ ready = "Pending" -> Return
       [] OTHER -> Continue("createNext")

(* Mutant of LookupFound: the comparison finds no difference.              *)
LookupFoundNeverDrifts ==
  /\ pc = "lookup"
  /\ Observable
  /\ \E r \in Candidates :
       \/ r \notin live /\ ready # "Pending" /\ Continue("createNext")
       \/ /\ r \in live \/ ready = "Pending"
          /\ seen' = [id |-> r, matches |-> TRUE]
          /\ pc' = "project"
          /\ UNCHANGED <<apiVars, rbacVars, desiredVars, statusVars, handleVars,
                         verb, info, mg, reply, faults, auditVars>>

(* The body of a resource that is not live satisfies notFoundBody. The     *)
(* predicate is not consulted while Pending, and what the comparison then  *)
(* makes of such a body is open.                                           *)
LookupFound ==
  /\ pc = "lookup"
  /\ Observable
  /\ \E r \in Candidates :
       \/ r \notin live /\ ready # "Pending" /\ Continue("createNext")
       \/ /\ r \in live \/ ready = "Pending"
          /\ \E matches \in BOOLEAN :
               /\ r \in live => matches = (remote[r] = mg.generation)
               /\ seen' = [id |-> r, matches |-> matches]
          /\ pc' = "project"
          /\ UNCHANGED <<apiVars, rbacVars, desiredVars, statusVars, handleVars,
                         verb, info, mg, reply, faults, auditVars>>

(* populateStatusFields and its update; a drift is then returned without   *)
(* storing the Unavailable condition.                                      *)
Project ==
  /\ pc = "project"
  /\ UpdateStatus(seen.id, ready, IF seen.matches THEN "available" ELSE "updateNext")
  /\ UNCHANGED cutShort

MarkAvailable ==
  /\ pc = "available"
  /\ UpdateStatus(statusId, "Available", "idle")
  /\ UNCHANGED cutShort

Observe ==
  \/ ObserveBegin \/ ObserveViaRestAction
  \/ Poll \/ PostGet \/ ClearSucceeded \/ MarkFailed \/ ClearFailed
  \/ LookupUnobservable \/ LookupNotFound \/ LookupFound
  \/ Project \/ MarkAvailable
=============================================================================
