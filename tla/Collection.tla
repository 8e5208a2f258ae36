------------------------------- MODULE Collection ------------------------------
(***************************************************************************)
(* The collection a findby verb lists, as the service keeps it: items in a *)
(* fixed order (their position is the service's sort key), which come and  *)
(* go while a search is under way. External code.                          *)
(***************************************************************************)
EXTENDS Naturals

CONSTANT Size      \* the positions an item may have

ASSUME SizeAssumption == Size \in Nat \ {0}

Items == 1..Size

VARIABLES collection, \* the items there are
          ever,       \* history: those there were at some time of the search
          always      \* history: those there were all the time

collectionVars == <<collection, ever, always>>

CollectionTypeOK ==
  /\ collection \subseteq Items
  /\ ever \subseteq Items
  /\ always \subseteq Items

CollectionInit ==
  /\ collection \in SUBSET Items
  /\ ever = collection
  /\ always = collection

(* A search sees what is there when it begins ...                          *)
SearchBegins ==
  /\ ever' = collection
  /\ always' = collection
  /\ UNCHANGED collection

(* ... and may see, or miss, what others add and remove under way.         *)
CollectionChanges ==
  \E i \in Items :
    /\ collection' \in {collection \cup {i}, collection \ {i}}
    /\ ever' = ever \cup collection'
    /\ always' = always \cap collection'
=============================================================================
