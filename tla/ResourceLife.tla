------------------------------ MODULE ResourceLife ------------------------------
(***************************************************************************)
(* What a custom resource promises of the external resource it stands for, *)
(* without any handler, status, operation or definition: it takes one only *)
(* when it has none, gives it up only when its deletion was asked for, and *)
(* goes only when it has none left.                                        *)
(*                                                                         *)
(* The promise has two exceptions, which the state shows: a create may be  *)
(* forgotten on the way, and a deletion may rest on nothing that was shown *)
(* (no delete verb, no get to verify it by, no definition any more).       *)
(***************************************************************************)
EXTENDS Naturals

CONSTANT Resources

VARIABLES
  phase,      \* of the CR: live, deleting or gone
  owned,      \* the resources of the CR that exist or are being created
  others,     \* how often somebody else interfered
  forgotten,  \* a create was cut short
  shown       \* the deletion was shown to be complete

vars == <<phase, owned, others, forgotten, shown>>

Init ==
  /\ phase = "live"
  /\ owned \in {{}} \cup {{r} : r \in Resources}
  /\ others = 0
  /\ forgotten = FALSE
  /\ shown = FALSE

(* A resource is requested when there is none.                             *)
Acquire ==
  /\ phase # "gone"
  /\ owned = {} \/ forgotten
  /\ \E r \in Resources : owned' = owned \cup {r}
  /\ UNCHANGED <<phase, others, forgotten, shown>>

(* Others delete it, or what was requested fails.                          *)
Interfere ==
  /\ others' = others + 1
  /\ owned' \subseteq owned
  /\ UNCHANGED <<phase, forgotten, shown>>

AskDeletion ==
  /\ phase = "live"
  /\ phase' = "deleting"
  /\ UNCHANGED <<owned, others, forgotten, shown>>

(* The resource goes, and that it is gone is shown or not.                 *)
Dispose ==
  /\ phase = "deleting"
  /\ owned' \subseteq owned
  /\ shown' \in BOOLEAN
  /\ UNCHANGED <<phase, others, forgotten>>

Release ==
  /\ phase = "deleting"
  /\ shown /\ ~forgotten => owned = {}
  /\ phase' = "gone"
  /\ UNCHANGED <<owned, others, forgotten, shown>>

(* A deletion that was only accepted takes effect when the CR is gone.     *)
Linger ==
  /\ phase = "gone"
  /\ owned' \subseteq owned
  /\ UNCHANGED <<phase, others, forgotten, shown>>

Forget ==
  /\ phase # "gone"
  /\ forgotten' = TRUE
  /\ UNCHANGED <<phase, owned, others, shown>>

Next == Acquire \/ Interfere \/ AskDeletion \/ Dispose \/ Release \/ Linger \/ Forget

Spec == Init /\ [][Next]_vars
=============================================================================
