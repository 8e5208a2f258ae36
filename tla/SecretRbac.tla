------------------------------- MODULE SecretRbac ------------------------------
(***************************************************************************)
(* internal/tools/secretrbac: the Role and the RoleBinding the controller  *)
(* grants itself, per CR instance, to read the Secrets the CR's field      *)
(* mappings refer to. Role and binding are two API objects, written and    *)
(* removed by two calls; a handler can be cut short between them.          *)
(*                                                                         *)
(*   rbac         which of the two objects exist                           *)
(*   rbacTouched  somebody other than the controller removed the Role      *)
(***************************************************************************)
VARIABLES rbac, rbacTouched

rbacVars == <<rbac, rbacTouched>>

RbacPair == {"role", "binding"}

RbacTypeOK == rbac \in SUBSET RbacPair /\ rbacTouched \in BOOLEAN

RbacInit == rbac = {} /\ rbacTouched = FALSE

(* A verb that expects the Role to be there already must not re-create it. *)
RoleAcceptable(expectExisting) == expectExisting => "role" \in rbac

ApplyRbac(object) ==
  /\ rbac' = rbac \cup {object}
  /\ UNCHANGED rbacTouched

RemoveRbac(object) ==
  /\ rbac' = rbac \ {object}
  /\ UNCHANGED rbacTouched

RoleRemovedOutOfBand ==
  /\ "role" \in rbac
  /\ rbac' = rbac \ {"role"}
  /\ rbacTouched' = TRUE
=============================================================================
