----------------------------- MODULE RestResources -----------------------------
(***************************************************************************)
(* The controller at work on one CR: the four handlers, the runtime that   *)
(* dispatches them, and everybody else. The runtime (unstructured-runtime, *)
(* an external library) never runs two handlers of the same CR at once,    *)
(* starts every reconcile of a live CR with Observe, dispatches Create or  *)
(* Update on its answer and Delete once the CR is being deleted, brings a  *)
(* CR back after an error and at every resync, and releases the finalizer  *)
(* when Delete returns nil.                                                *)
(***************************************************************************)
EXTENDS ObserveHandler, CreateUpdateHandler, DeleteHandler, FiniteSets

CONSTANTS MaxDisturbances, \* bound on what goes wrong outside the controller
          Disturbances     \* the kinds of it that may happen

DisturbanceKinds == {"delete", "lateDelete", "change", "fail", "role", "definition"}

ASSUME DisturbancesAssumption ==
  /\ MaxDisturbances \in Nat
  /\ Disturbances \subseteq DisturbanceKinds

VARIABLE disturbances

crVars == <<desiredVars, statusVars, handleVars>>
workerVars == <<pc, localVars, faults, auditVars>>
vars == <<apiVars, rbacVars, crVars, workerVars, disturbances>>

TypeOK ==
  /\ ExternalTypeOK
  /\ RbacTypeOK
  /\ CustomResourceTypeOK
  /\ HandlerTypeOK
  /\ disturbances \in Nat

Init ==
  /\ ExternalInit
  /\ RbacInit
  /\ CustomResourceInit
  /\ HandlerInit
  /\ disturbances = 0

-----------------------------------------------------------------------------

Reconcile == (Observe \/ CreateOrUpdate \/ Delete) /\ UNCHANGED disturbances

(* Users and the service doing their ordinary work.                        *)
User == (EditSpec \/ UserDeletes) /\ UNCHANGED <<apiVars, rbacVars, workerVars, disturbances>>

Service ==
  /\ \E o \in Operations : OperationSucceeds(o) \/ OperationObsolete(o)
  /\ UNCHANGED <<rbacVars, crVars, workerVars, disturbances>>

(* What others may do to the CR's resources behind the controller's back.  *)
Happens(kind) == kind \in Disturbances

(* Every operation of the CR is over, and its outcome has been observed.   *)
Followed == FreeOperations = Operations /\ ready # "Pending"

Disturb ==
  /\ disturbances < MaxDisturbances
  /\ disturbances' = disturbances + 1
  /\ UNCHANGED workerVars
  /\ \/ /\ Happens("delete") \/ (Happens("lateDelete") /\ Followed)
        /\ \E r \in Resources : DeletedOutOfBand(r)
        /\ UNCHANGED <<rbacVars, crVars>>
     \/ /\ Happens("change") /\ \E r \in Resources : ChangedOutOfBand(r)
        /\ UNCHANGED <<rbacVars, crVars>>
     \/ /\ Happens("fail") /\ \E o \in Operations : OperationFails(o)
        /\ UNCHANGED <<rbacVars, crVars>>
     \/ /\ Happens("role") /\ RoleRemovedOutOfBand
        /\ UNCHANGED <<apiVars, crVars>>
     \/ /\ Happens("definition")
        /\ \E d \in Definitions \cup {NoDefinition} : EditDefinition(d)
        /\ UNCHANGED <<apiVars, rbacVars>>

Interrupt == Abandon /\ UNCHANGED disturbances

(* Nothing is left to do for a CR that is gone.                            *)
Gone == crPhase = "gone" /\ UNCHANGED vars

Next == Reconcile \/ User \/ Service \/ Disturb \/ Interrupt \/ Gone

(* The runtime keeps bringing the CR back, and a handler that is not       *)
(* interrupted makes its next call; the service finishes what it accepted. *)
(* Nobody is obliged to disturb, edit or delete anything.                  *)
Fairness == WF_vars(Reconcile) /\ WF_vars(Service)

Spec == Init /\ [][Next]_vars /\ Fairness

-----------------------------------------------------------------------------
(* Safety.                                                                 *)

(* The annotation is the only thing a later reconcile knows an operation   *)
(* by: it names an operation the service really started, for the verb and  *)
(* nothing else, whatever happened between the request and the patch.      *)
RecordedOperationIsReal ==
  /\ opId = NoOperation <=> opAction = "none"
  /\ opId # NoOperation => /\ ops[opId].state # "unused"
                           /\ ops[opId].action = opAction
                           /\ opAction \in {"create", "update"}

(* A create or update request leaves: the handler makes the call, its own  *)
(* or a RESTAction's, whether or not it changes anything at the service. A *)
(* call that is turned down or lost on the way counts, too.                *)
RequestSent == verb # "delete" /\ pc \in {"request", "action"} /\ pc' # pc

(* Model B polls an operation to completion without triggering the verb    *)
(* again: no create or update request leaves while a handle is recorded,   *)
(* be it synchronous, asynchronous or delegated.                           *)
NoRequestWhileRecorded == [][RequestSent => opId = NoOperation]_vars

(* A failed operation's handle goes only after Pending went: otherwise the *)
(* 404-while-Pending rule reports a resource that does not exist as fine.  *)
FailureOutlivesPending ==
  [][/\ opId # NoOperation /\ opId' = NoOperation
     /\ ops[opId].state = "failed"
     /\ AsyncDeclared(info, opAction)
     => ready # "Pending"]_vars

(* A handle is dropped only when the operation is over.                    *)
HandleKeptUntilTerminal ==
  [][/\ opId # NoOperation /\ opId' # opId
     /\ AsyncDeclared(info, opAction)
     => ops[opId].state \in {"succeeded", "failed"}]_vars

(* The resources of this CR that exist or are being created.               *)
Owned == live \cup Targets("create")

(* The CR never gets a second resource, unless a create was cut short      *)
(* before its answer was stored.                                           *)
NoDuplicate == cutShort \/ Cardinality(Owned) <= 1

(* With a findby to fall back on it never does while nobody else touches   *)
(* the resource and every request is carried out before it is answered: an *)
(* interrupted create is found again, not repeated.                        *)
NoDuplicateEver ==
  (disturbances = 0 /\ \A o \in Operations : ops[o].state = "unused") => Cardinality(Owned) <= 1

(* A finalizer released because the resource was deleted, or because it    *)
(* cannot be addressed, leaves nothing of the CR behind: no resource, and  *)
(* none still being created.                                               *)
ReleasedMeansGone ==
  crPhase = "gone" /\ verdict \in {"deleted", "unaddressable"} /\ ~cutShort => Owned = {}

(* A deletion that was carried out, or that there was no way to carry out; *)
(* anything else is taken on trust.                                        *)
Shown == verdict \in {"deleted", "unaddressable"}

Life == INSTANCE ResourceLife WITH
  phase <- crPhase, owned <- Owned, others <- disturbances, forgotten <- cutShort, shown <- Shown

(* The handlers keep what a CR promises of its resource, step by step: one *)
(* is created only where none is, it is given up only in a deletion unless *)
(* others interfere, and the CR goes only when nothing is left - whatever  *)
(* the interleaving of handlers, operations, edits and interruptions.      *)
ImplementsResourceLife == Life!Spec

(* The definitions a CR may meet in one life: the one it is created under, *)
(* or all of them, when the RestDefinition is edited meanwhile.            *)
Lives == IF "definition" \in Disturbances THEN {Definitions}
                                          ELSE {{d} : d \in Definitions}

(* Some create may still be under way when its answer has been stored.     *)
Deferred(D) == \E d \in D : d.create \in {"accepted", "requeue"}

(* Status names the resource once an answer has been stored.               *)
Identified(D) ==
  /\ Adoptable = {}
  /\ \A d \in D : d.created = "identified" /\ d.updated # "anonymous"

(* What NoDuplicate needs of the definitions: absence can be told, and is  *)
(* not told too early of a resource that is still being created; a service *)
(* that assigns identifiers says which, or its resources can be found.     *)
CreatesOnce(D) ==
  /\ \A d \in D : d.get \/ d.findby
  /\ Deferred(D) => \A d \in D : /\ d.observe = "verbs"
                                 /\ ~d.notFoundBody
                                 /\ "get" \notin d.tolerate
  /\ ServerAssignsIds => \A d \in D :
       /\ d.create = "blocking" => ~d.postGet
       /\ d.create = "restaction" => d.created # "empty"
       /\ d.notFoundBody => d.get
       /\ Identified(D) \/ (d.findby /\ ~d.notFoundBody)

(* What ReleasedMeansGone needs on top: the identifier is in status, and   *)
(* a delete that succeeds means that nothing is or will be there.          *)
LeavesNothing(D) ==
  /\ ServerAssignsIds => Identified(D)
  /\ \A d \in D : d.delete # "accepted"
  /\ Deferred(D) => \A d \in D :
       /\ d.delete # "restaction"
       /\ "delete" \in d.tolerate => AsyncDeclared(d, "delete")

(* What NoDuplicateEver needs: a lost identifier can be searched for.      *)
FindsAgain(D) == \A d \in D : d.observe = "verbs" => d.findby

(* The controller leaves no Role of its own behind.                        *)
RbacTornDown == crPhase = "gone" => rbac = {} \/ leaked

(* A create or update the controller itself sends, and that reads Secrets, *)
(* goes out under the complete pair, unless others took the Role away. A   *)
(* RESTAction reads its Secrets itself.                                    *)
GrantedBeforeRequest ==
  [][RequestSent /\ pc = "request" /\ mg.secretRefs => rbac = RbacPair \/ rbacTouched]_vars

-----------------------------------------------------------------------------
(* Liveness.                                                               *)

(* A live CR settles on one resource that matches its spec, knows its      *)
(* identifier, and says so.                                                *)
Settled ==
  /\ ready = "Available"
  /\ opId = NoOperation
  /\ \E r \in live : /\ remote[r] = generation
                     /\ statusId = r

Converges == <>[](crPhase = "live" => Settled)

(* A CR whose deletion was asked for goes away.                            *)
DeletionCompletes == crPhase = "deleting" ~> crPhase = "gone"

(* An operation in flight does not stay recorded for ever.                 *)
HandleEventuallyCleared ==
  opId # NoOperation ~> (opId = NoOperation \/ crPhase # "live")
=============================================================================
