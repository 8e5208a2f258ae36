------------------------------- MODULE Comparison -------------------------------
(***************************************************************************)
(* The comparison of the spec with the observed body (tools/comparison and *)
(* isCRUpdated).                                                           *)
(***************************************************************************)
EXTENDS Documents

CONSTANTS
  Inferred,   \* the texts whose typed value prints otherwise, and that value
  Unequal     \* typed values that do not equal themselves (NaN)

(* InferType: a scalar by its typed value, so that 3, 3.0 and "3" are one. *)
InferType(text) == IF text \in DOMAIN Inferred THEN Inferred[text] ELSE text

(* CompareAny, for two values of which the first is a scalar.              *)
CompareAny(a, b) ==
  /\ b \notin Containers
  /\ InferType(a) = InferType(b)
  /\ InferType(a) \notin Unequal

(* CompareExisting and compareSlices: what comparing the spec with the     *)
(* body can answer.  Only what both have is compared; the first difference *)
(* or error met ends the comparison, and the fields of an object are       *)
(* visited in any order.                                                   *)
CompareExisting(spec, body) ==
  LET Both == DOMAIN spec \cap DOMAIN body
      Outcomes[p \in Both] ==
        LET children == {c \in Both : Len(c) = Len(p) + 1 /\ IsPrefix(p, c)}
            failing  == {c \in children : Outcomes[c] # {"equal"}}
            first    == CHOOSE c \in failing : \A d \in failing :
                          IndexOf[Last(c)] <= IndexOf[Last(d)]
        IN  CASE spec[p] = "null" \/ body[p] = "null" ->
                   {IF spec[p] = body[p] THEN "equal" ELSE "differs"}
              [] spec[p] \in Containers /\ spec[p] # body[p] -> {"error"}
              [] spec[p] = "list" /\ Cardinality(Elements(spec, p)) > Cardinality(Elements(body, p)) ->
                   {"differs"}
              [] spec[p] \in Containers /\ failing = {} -> {"equal"}
              [] spec[p] = "list" /\ failing # {} -> Outcomes[first]
              [] spec[p] = "map" /\ failing # {} -> UNION {Outcomes[c] : c \in failing}
              [] OTHER -> {IF CompareAny(spec[p], body[p]) THEN "equal" ELSE "differs"}
  IN  Outcomes[<<>>]

(* Mutant of ProjectSpecFields: what the scope leaves out stays in.        *)
ProjectNothing(spec, paths) == spec

(* projectSpecFields: the named fields the spec has, and what is in them.  *)
ProjectSpecFields(spec, paths) ==
  LET kept == {p \in paths : p # <<>> /\ FoundInMaps(spec, p)}
  IN  [q \in {q \in DOMAIN spec : \/ q = <<>>
                                  \/ \E p \in kept : IsPrefix(p, q) \/ IsPrefix(q, p)} |-> spec[q]]

(* isCRUpdated.                                                            *)
IsCRUpdated(spec, body, scope, scopeFields) ==
  CompareExisting(IF scope = "fullSpec" THEN spec ELSE ProjectSpecFields(spec, scopeFields), body)
=============================================================================
