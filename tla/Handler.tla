-------------------------------- MODULE Handler --------------------------------
(***************************************************************************)
(* What the four handlers of internal/controllers share: the position of   *)
(* the worker that reconciles the CR, what it has read, and the writes of  *)
(* status and annotations. A handler is a sequence of calls to the         *)
(* Kubernetes API and to the external service; pc names the call it makes  *)
(* next, so everybody else can act between any two of them.                *)
(*                                                                         *)
(*   pc        the next call, "idle" between two reconciles                *)
(*   verb      the handler that runs: create, update or delete             *)
(*   info      the definition it resolved (getter.Info)                    *)
(*   mg        the generation and secret references of its copy of the CR  *)
(*   reply     what the service answered to the mutating request           *)
(*   seen      what observe found: the resource, and whether it matches    *)
(*   faults    interruptions so far (bound: MaxFaults)                     *)
(* History variables no step reads:                                        *)
(*   verdict   why the finalizer may go                                    *)
(*   cutShort  a create was interrupted between its request and the write  *)
(*             of its answer                                               *)
(*   leaked    a teardown of the RBAC pair failed                          *)
(***************************************************************************)
EXTENDS CustomResource

CONSTANT MaxFaults   \* bound on crashes and failing calls

ASSUME FaultsAssumption == MaxFaults \in Nat

VARIABLES pc, verb, info, mg, reply, seen, faults, verdict, cutShort, leaked

localVars == <<verb, info, mg, reply, seen>>
auditVars == <<verdict, cutShort, leaked>>

ObserveSteps == {"observeAction", "poll", "postGet", "clearOp", "failOp",
                 "clearFailed", "lookup", "project", "available"}
MutateSteps == {"ensureRole", "ensureBinding", "request", "record", "wait",
                "reread", "persist", "action", "persistAction"}
DeleteSteps == {"verifyGone", "dropBinding", "dropRole", "release"}
Dispatched  == {"createNext", "updateNext"}

Verdicts == {"held", "deleted", "trusted", "unaddressable", "noVerb", "noDefinition"}

ReplySet == [id : Resources \cup {NoResource}, body : BOOLEAN,
             pending : BOOLEAN, op : Operations \cup {NoOperation}]

NoReply == [id |-> NoResource, body |-> FALSE, pending |-> FALSE, op |-> NoOperation]

HandlerTypeOK ==
  /\ pc \in {"idle"} \cup Dispatched \cup ObserveSteps \cup MutateSteps \cup DeleteSteps
  /\ verb \in MutatingVerbs
  /\ info \in Definitions \cup {NoDefinition}
  /\ mg \in [generation : Nat, secretRefs : BOOLEAN]
  /\ reply \in ReplySet
  /\ seen \in [id : Resources \cup {NoResource}, matches : BOOLEAN]
  /\ faults \in Nat
  /\ verdict \in Verdicts
  /\ cutShort \in BOOLEAN
  /\ leaked \in BOOLEAN

HandlerInit ==
  /\ pc = "idle"
  /\ verb = "create"
  /\ info = NoDefinition
  /\ mg = [generation |-> 0, secretRefs |-> FALSE]
  /\ reply = NoReply
  /\ seen = [id |-> NoResource, matches |-> FALSE]
  /\ faults = 0
  /\ verdict = "held"
  /\ cutShort = FALSE
  /\ leaked = FALSE

(* The service names every operation anew. A handle that neither the CR    *)
(* nor the worker holds serves as a new one once its operation is over, so *)
(* that the bound on Operations limits what runs at once and nothing else. *)
FreeOperations ==
  {o \in Operations \ {opId, reply.op} : ops[o].state # "running"}

(* The copy of the CR a handler starts from, or holds after a patch.       *)
Copy == [generation |-> generation, secretRefs |-> secretRefs]

(* A handler gets the CR as it is stored and resolves the definition.      *)
Resolve(d) == info' = d /\ mg' = Copy

(* Nobody changed the CR since the handler's copy was taken: only then is  *)
(* an update that carries the copy's resourceVersion accepted.             *)
Fresh == mg.generation = generation

(* tools.UpdateStatus: on a conflict the handler returns the error.        *)
UpdateStatus(id, reason, next) ==
  /\ IF Fresh THEN statusId' = id /\ ready' = reason /\ pc' = next
              ELSE pc' = "idle" /\ UNCHANGED statusVars
  /\ UNCHANGED <<apiVars, rbacVars, desiredVars, handleVars, localVars, faults,
                 verdict, leaked>>

(* patchAnnotations: a merge patch never conflicts and refreshes the copy. *)
PatchHandle(o, action, next) ==
  /\ opId' = o
  /\ opAction' = action
  /\ mg' = Copy
  /\ pc' = next
  /\ UNCHANGED <<apiVars, rbacVars, desiredVars, statusVars, verb, info, reply,
                 seen, faults, auditVars>>

(* The next call depends on what was read only; nothing is written.        *)
Continue(next) ==
  /\ pc' = next
  /\ UNCHANGED <<apiVars, rbacVars, desiredVars, statusVars, handleVars,
                 localVars, faults, auditVars>>

(* The handler returns, with or without an error: the CR comes back with   *)
(* the next retry or resync.                                               *)
Return == Continue("idle")

AfterRequest == {"record", "wait", "reread", "persist", "persistAction"}

(* The handler goes no further: the process dies, a call fails, a response *)
(* is lost or a poll gives up. What was done before stays done.            *)
Abandon ==
  /\ pc # "idle"
  /\ faults < MaxFaults
  /\ faults' = faults + 1
  /\ pc' = "idle"
  /\ cutShort' = (cutShort \/ (verb = "create" /\ pc \in AfterRequest))
  /\ UNCHANGED <<apiVars, rbacVars, desiredVars, statusVars, handleVars,
                 localVars, verdict, leaked>>
=============================================================================
