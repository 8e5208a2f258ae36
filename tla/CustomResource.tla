---------------------------- MODULE CustomResource -----------------------------
(***************************************************************************)
(* The custom resource (CR) a controller instance reconciles and the       *)
(* RestDefinition it is reconciled under, as stored in the Kubernetes API. *)
(*                                                                         *)
(*   crPhase     live, deleting (deletionTimestamp set, finalizer held),   *)
(*               or gone (the finalizer was released)                      *)
(*   generation  bumped by every change of the spec and by the deletion    *)
(*   secretRefs  some field mapping of the spec names a Secret             *)
(*   statusId    the identifier in status, NoResource when absent          *)
(*   ready       reason of the Ready condition, "None" when absent         *)
(*   opId, opAction  the krateo.io/async-operation-id and -action          *)
(*               annotations; NoOperation and "none" when absent           *)
(*   def         the RestDefinition that matches the CR's kind             *)
(***************************************************************************)
EXTENDS ExternalAPI, SecretRbac

CONSTANTS Definitions, NoDefinition, \* the contents the RestDefinition may have
          UsesSecrets,               \* the CR's spec may name Secrets
          MaxGeneration              \* bound on the edits of the spec

(* How a mutating verb is carried out: not at all, by one request that is  *)
(* complete (sync) or merely accepted (202) when answered, by a request    *)
(* with an async block (Model A blocking, Model B requeue), or by a        *)
(* RESTAction.                                                             *)
Modes == {"absent", "sync", "accepted", "blocking", "requeue", "restaction"}

(* What the body of an answer to create or update holds: the identifiers,  *)
(* other fields only, or there is no body.                                 *)
Replies == {"identified", "anonymous", "empty"}

DefinitionSet ==
  [get : BOOLEAN, findby : BOOLEAN,
   observe : {"verbs", "restaction", "predicates"},
   create : Modes, update : Modes, delete : Modes,
   postGet : BOOLEAN, created : Replies, updated : Replies,
   notFoundBody : BOOLEAN, tolerate : SUBSET {"get", "delete"}]

ASSUME DefinitionsAssumption ==
  /\ Definitions \subseteq DefinitionSet
  /\ NoDefinition \notin DefinitionSet
  /\ UsesSecrets \in BOOLEAN
  /\ MaxGeneration \in Nat

VARIABLES crPhase, generation, secretRefs, statusId, ready, opId, opAction, def

desiredVars == <<crPhase, generation, secretRefs, def>>
statusVars  == <<statusId, ready>>
handleVars  == <<opId, opAction>>

ReadyReasons == {"None", "Creating", "Available", "Pending", "Unavailable"}

CustomResourceTypeOK ==
  /\ crPhase \in {"live", "deleting", "gone"}
  /\ generation \in Nat
  /\ secretRefs \in BOOLEAN
  /\ statusId \in Resources \cup {NoResource}
  /\ ready \in ReadyReasons
  /\ opId \in Operations \cup {NoOperation}
  /\ opAction \in MutatingVerbs \cup {"none"}
  /\ def \in Definitions \cup {NoDefinition}

CustomResourceInit ==
  /\ crPhase = "live"
  /\ generation = 1
  /\ secretRefs \in {FALSE, UsesSecrets}
  /\ statusId = NoResource
  /\ ready = "None"
  /\ opId = NoOperation
  /\ opAction = "none"
  /\ def \in Definitions

(* The async block of a verb (asyncConfigForAction is non-nil).            *)
AsyncDeclared(d, action) == d[action] \in {"blocking", "requeue"}

(* Every path parameter of get, update and delete has a value.             *)
Addressable == ServerAssignsIds => statusId # NoResource

(* What a GET can be answered with: an API that signals absence in the     *)
(* body answers 200 for every identifier it ever issued.                   *)
Visible(d) == IF d.notFoundBody THEN issued ELSE live

GetHits(d) == IF ServerAssignsIds THEN Visible(d) \cap {statusId} ELSE Visible(d)

-----------------------------------------------------------------------------
(* The writers of the CR and of the RestDefinition other than the          *)
(* controller: users and their tools.                                      *)

EditSpec ==
  /\ crPhase = "live"
  /\ generation < MaxGeneration
  /\ generation' = generation + 1
  /\ secretRefs' \in {secretRefs, UsesSecrets}
  /\ UNCHANGED <<crPhase, def, statusVars, handleVars>>

UserDeletes ==
  /\ crPhase = "live"
  /\ crPhase' = "deleting"
  /\ generation' = generation + 1
  /\ UNCHANGED <<secretRefs, def, statusVars, handleVars>>

EditDefinition(d) ==
  /\ crPhase # "gone"
  /\ d # def
  /\ def' = d
  /\ UNCHANGED <<crPhase, generation, secretRefs, statusVars, handleVars>>
=============================================================================
