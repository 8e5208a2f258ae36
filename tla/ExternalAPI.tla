------------------------------ MODULE ExternalAPI ------------------------------
(***************************************************************************)
(* The REST service the controller manages, as src/ uses it: a collection  *)
(* of resources addressed by an identifier, and an operations endpoint     *)
(* that reports the status of work the service does in the background.     *)
(* Only the resources that belong to ONE custom resource are modelled.     *)
(* The service is external: every definition says what a call does to it   *)
(* and what it answers, never how.                                         *)
(*                                                                         *)
(*   live    resources that exist now                                      *)
(*   issued  identifiers ever handed out; an identifier the service        *)
(*           assigns itself is never handed out again                      *)
(*   remote  the generation of the CR's spec each resource reflects, or    *)
(*           ForeignState after somebody else changed it                   *)
(*   ops     the long-running operations and the request each stands for   *)
(***************************************************************************)
EXTENDS Naturals

CONSTANTS Resources, NoResource,   \* identifiers of external resources
          Operations, NoOperation, \* handles of long-running operations
          ServerAssignsIds,        \* POST answers with a new identifier; when FALSE
                                   \* the identifier is a field of the CR's spec
          Adoptable                \* resources that may exist before the CR does

ASSUME ResourcesAssumption == NoResource \notin Resources
ASSUME OperationsAssumption == NoOperation \notin Operations
ASSUME NamingAssumption ==
  /\ ServerAssignsIds \in BOOLEAN
  /\ ~ServerAssignsIds => \A r, s \in Resources : r = s
  /\ Adoptable \subseteq Resources

VARIABLES live, issued, remote, ops

apiVars == <<live, issued, remote, ops>>

ForeignState == 0

OperationStates == {"unused", "running", "succeeded", "failed"}

MutatingVerbs == {"create", "update", "delete"}

OperationRecord ==
  [state : OperationStates, action : MutatingVerbs,
   target : Resources \cup {NoResource}, generation : Nat]

ExternalTypeOK ==
  /\ live \in SUBSET Resources
  /\ issued \in SUBSET Resources
  /\ remote \in [Resources -> Nat]
  /\ ops \in [Operations -> OperationRecord]

ExternalInit ==
  /\ live \in {{}} \cup {{r} : r \in Adoptable}
  /\ issued = live
  /\ remote = [r \in Resources |-> ForeignState]
  /\ ops = [o \in Operations |-> [state |-> "unused", action |-> "create",
                                  target |-> NoResource, generation |-> 0]]

(* The identifiers a POST may answer with. A service that takes the name   *)
(* from the spec has only one, and a second POST overwrites it.            *)
Assignable == IF ServerAssignsIds THEN Resources \ issued ELSE Resources

(* The resources a request that carries identifier id gets to.             *)
Reached(id) == IF ServerAssignsIds THEN live \cap {id} ELSE live

(* Resources some running operation of the given action will produce.      *)
Targets(action) ==
  {ops[o].target : o \in {p \in Operations : ops[p].state = "running" /\ ops[p].action = action}}

-----------------------------------------------------------------------------
(* Requests the service completes before it answers.                       *)

CreateNow(r, g) ==
  /\ live' = live \cup {r}
  /\ issued' = issued \cup {r}
  /\ remote' = [remote EXCEPT ![r] = g]
  /\ UNCHANGED ops

UpdateNow(r, g) ==
  /\ remote' = [remote EXCEPT ![r] = g]
  /\ UNCHANGED <<live, issued, ops>>

DeleteNow(r) ==
  /\ live' = live \ {r}
  /\ UNCHANGED <<issued, remote, ops>>

(* A request the service only accepts: it answers at once and does the     *)
(* work in the background. Identifiers are assigned when it is accepted.   *)
Accept(o, action, r, g) ==
  /\ ops' = [ops EXCEPT ![o] = [state |-> "running", action |-> action,
                                target |-> r, generation |-> g]]
  /\ issued' = issued \cup {r}
  /\ UNCHANGED <<live, remote>>

-----------------------------------------------------------------------------
(* What the service does on its own, and what others do to it.             *)

OperationSucceeds(o) ==
  LET op == ops[o] IN
  /\ op.state = "running"
  /\ op.action = "update" => op.target \in live
  /\ live' = CASE op.action = "create" -> live \cup {op.target}
               [] op.action = "update" -> live
               [] op.action = "delete" -> live \ {op.target}
  /\ remote' = IF op.action = "delete" THEN remote
               ELSE [remote EXCEPT ![op.target] = op.generation]
  /\ ops' = [ops EXCEPT ![o].state = "succeeded"]
  /\ UNCHANGED issued

OperationFails(o) ==
  /\ ops[o].state = "running"
  /\ ops' = [ops EXCEPT ![o].state = "failed"]
  /\ UNCHANGED <<live, issued, remote>>

(* An update whose resource is gone by the time it runs can only fail.     *)
OperationObsolete(o) ==
  /\ ops[o].action = "update"
  /\ ops[o].target \notin live
  /\ OperationFails(o)

DeletedOutOfBand(r) == r \in live /\ DeleteNow(r)

ChangedOutOfBand(r) ==
  /\ r \in live
  /\ remote[r] # ForeignState
  /\ UpdateNow(r, ForeignState)
=============================================================================
