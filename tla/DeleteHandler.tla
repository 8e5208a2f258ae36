----------------------------- MODULE DeleteHandler -----------------------------
(***************************************************************************)
(* handler.Delete (restResources.go), with driveAsync for a delete that    *)
(* declares one and externalResourceStillExists for a delegated one. The   *)
(* runtime releases the finalizer when Delete returns nil. Its RBAC step   *)
(* is EnsureRole and EnsureBinding of CreateUpdateHandler.                 *)
(***************************************************************************)
EXTENDS Handler

(* All paths that return nil go through the teardown of the RBAC pair.     *)
Conclude(why) == pc' = "dropBinding" /\ verdict' = why

ConcludeUntouched(why) ==
  /\ Conclude(why)
  /\ UNCHANGED <<apiVars, rbacVars, desiredVars, statusVars, handleVars, localVars,
                 faults, cutShort, leaked>>

(* Mutant of DeleteBegin: without a definition there is no teardown.       *)
DeleteBeginSkipsTeardown ==
  /\ pc \in {"idle"} \cup Dispatched
  /\ crPhase = "deleting"
  /\ verb' = "delete"
  /\ IF def = NoDefinition
     THEN pc' = "release" /\ verdict' = "noDefinition" /\ UNCHANGED <<info, mg>>
     ELSE /\ Resolve(def)
          /\ pc' = IF secretRefs THEN "ensureRole" ELSE "request"
          /\ verdict' = "held"
  /\ UNCHANGED <<apiVars, rbacVars, desiredVars, statusVars, handleVars, reply,
                 seen, faults, cutShort, leaked>>

DeleteBegin ==
  /\ pc \in {"idle"} \cup Dispatched
  /\ crPhase = "deleting"
  /\ verb' = "delete"
  /\ CASE def = NoDefinition -> Conclude("noDefinition") /\ UNCHANGED <<info, mg>>
       [] def # NoDefinition ->
            /\ Resolve(def)
            /\ CASE def.delete = "absent" -> Conclude("noVerb")
                 [] def.delete = "restaction" -> pc' = "action" /\ verdict' = "held"
                 [] OTHER ->
                      /\ pc' = IF secretRefs THEN "ensureRole" ELSE "request"
                      /\ verdict' = "held"
  /\ UNCHANGED <<apiVars, rbacVars, desiredVars, statusVars, handleVars, reply,
                 seen, faults, cutShort, leaked>>

(* Path parameters without a value: release without calling the API.       *)
DeleteUnaddressable ==
  /\ pc = "request"
  /\ verb = "delete"
  /\ ~Addressable
  /\ ConcludeUntouched("unaddressable")

(* Mutant of DeleteNotFound: tolerateCodes does not reach the delete.      *)
DeleteNotFoundAlwaysFails ==
  /\ pc = "request"
  /\ verb = "delete"
  /\ Addressable
  /\ Reached(statusId) = {}
  /\ Return

(* An answer of 404 is an error like any other, unless it is tolerated;    *)
(* without a body there is no handle to wait for.                          *)
DeleteNotFound ==
  /\ pc = "request"
  /\ verb = "delete"
  /\ Addressable
  /\ Reached(statusId) = {}
  /\ IF "delete" \in info.tolerate /\ ~AsyncDeclared(info, "delete")
     THEN ConcludeUntouched("deleted")
     ELSE Return

(* Both async modes wait inline: a delete never records a handle.          *)
DeleteRequest ==
  /\ pc = "request"
  /\ verb = "delete"
  /\ Addressable
  /\ \E r \in Reached(statusId) :
       \/ /\ info.delete = "sync"
          /\ DeleteNow(r)
          /\ Conclude("deleted")
          /\ UNCHANGED reply
       \/ /\ info.delete # "sync"
          /\ \E o \in FreeOperations :
               /\ Accept(o, "delete", r, mg.generation)
               /\ reply' = [NoReply EXCEPT !.op = o, !.pending = TRUE]
          /\ IF AsyncDeclared(info, "delete")
             THEN pc' = "wait" /\ UNCHANGED verdict
             ELSE Conclude("deleted")
  /\ UNCHANGED <<rbacVars, desiredVars, statusVars, handleVars, verb, info, mg,
                 seen, faults, cutShort, leaked>>

DeleteRejected ==
  /\ pc = "request"
  /\ verb = "delete"
  /\ Addressable
  /\ Reached(statusId) # {}
  /\ info.delete # "sync"
  /\ FreeOperations = {}
  /\ Return

DeleteWait ==
  /\ pc = "wait"
  /\ verb = "delete"
  /\ \/ ops[reply.op].state = "succeeded" /\ ConcludeUntouched("deleted")
     \/ ops[reply.op].state = "failed" /\ Return

-----------------------------------------------------------------------------
(* The delegated delete, which is verified.                                *)

DeleteViaRestAction ==
  /\ pc = "action"
  /\ verb = "delete"
  /\ \/ \E r \in live : DeleteNow(r)
     \/ UNCHANGED apiVars
  /\ pc' = "verifyGone"
  /\ UNCHANGED <<rbacVars, desiredVars, statusVars, handleVars, localVars, faults,
                 auditVars>>

(* Mutant of VerifyGone: a 200 of the RESTAction is proof enough.          *)
VerifyGoneTrustsTheAction ==
  /\ pc = "verifyGone"
  /\ ConcludeUntouched("deleted")

(* A get that cannot be built, or is answered at all, holds the finalizer. *)
VerifyGone ==
  /\ pc = "verifyGone"
  /\ \/ ~info.get /\ ConcludeUntouched("trusted")
     \/ /\ info.get
        /\ Addressable /\ GetHits(info) = {} /\ "get" \notin info.tolerate
        /\ ConcludeUntouched("deleted")
     \/ /\ info.get
        /\ ~Addressable \/ GetHits(info) # {} \/ "get" \in info.tolerate
        /\ Return

-----------------------------------------------------------------------------
(* DeleteSecretRole: binding, then role. A failure is a warning: the       *)
(* finalizer goes nevertheless.                                            *)

DropBinding ==
  /\ pc = "dropBinding"
  /\ RemoveRbac("binding")
  /\ pc' = "dropRole"
  /\ UNCHANGED <<apiVars, desiredVars, statusVars, handleVars, localVars, faults,
                 auditVars>>

DropRole ==
  /\ pc = "dropRole"
  /\ RemoveRbac("role")
  /\ pc' = "release"
  /\ UNCHANGED <<apiVars, desiredVars, statusVars, handleVars, localVars, faults,
                 auditVars>>

TeardownFailureIgnored ==
  /\ pc \in {"dropBinding", "dropRole"}
  /\ faults < MaxFaults
  /\ faults' = faults + 1
  /\ leaked' = TRUE
  /\ pc' = "release"
  /\ UNCHANGED <<apiVars, rbacVars, desiredVars, statusVars, handleVars,
                 localVars, verdict, cutShort>>

Release ==
  /\ pc = "release"
  /\ crPhase' = "gone"
  /\ pc' = "idle"
  /\ UNCHANGED <<apiVars, rbacVars, generation, secretRefs, def, statusVars,
                 handleVars, localVars, faults, auditVars>>

Delete ==
  \/ DeleteBegin \/ DeleteUnaddressable \/ DeleteNotFound \/ DeleteRequest
  \/ DeleteRejected \/ DeleteWait \/ DeleteViaRestAction \/ VerifyGone
  \/ DropBinding \/ DropRole \/ TeardownFailureIgnored \/ Release
=============================================================================
