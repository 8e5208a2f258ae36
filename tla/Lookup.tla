--------------------------------- MODULE Lookup --------------------------------
(***************************************************************************)
(* What Observe relies on when it looks a resource up by its identifiers:  *)
(* an item that is found was there at some time of the search and may be   *)
(* taken for the CR's, and "not found", on which the CR's resource is      *)
(* created, is only answered when no item that is certainly the CR's was   *)
(* there all the time. An error promises nothing.                          *)
(***************************************************************************)
EXTENDS Collection

VARIABLES may,      \* the items that may be taken for the CR's
          must,     \* the items that must be
          verdict,  \* what the search ended with
          hit       \* the item it found, 0 for none

vars == <<collectionVars, may, must, verdict, hit>>

Init ==
  /\ CollectionInit
  /\ may \subseteq Items
  /\ must \subseteq Items
  /\ verdict = "none"
  /\ hit = 0

(* A search may be refused at once.                                        *)
Start ==
  /\ verdict # "searching"
  /\ SearchBegins
  /\ verdict' \in {"searching", "error"}
  /\ hit' = 0
  /\ UNCHANGED <<may, must>>

Answer ==
  /\ verdict = "searching"
  /\ \/ verdict' = "found" /\ hit' \in ever \cap may
     \/ verdict' = "absent" /\ hit' = 0 /\ always \cap must = {}
     \/ verdict' = "error" /\ hit' = 0
  /\ UNCHANGED <<collectionVars, may, must>>

Change == CollectionChanges /\ UNCHANGED <<may, must, verdict, hit>>

Next == Start \/ Answer \/ Change

Spec == Init /\ [][Next]_vars
=============================================================================
