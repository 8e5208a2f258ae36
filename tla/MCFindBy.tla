-------------------------------- MODULE MCFindBy -------------------------------
(* The findby verbs and the items FindBy is checked with.                  *)
EXTENDS FindBy

Usual == [k \in Identifiers |-> "comparable"]

Whole(policy, paths, empty) ==
  [paginator |-> "none", requestTokenIn |-> "query", responseTokenIn |-> "header",
   policy |-> policy, paths |-> paths, empty |-> empty, twoLists |-> FALSE]

Paged(policy, paths, empty) ==
  [Whole(policy, paths, empty) EXCEPT !.paginator = "continuationToken"]

Paths ==
  {[k \in {} |-> "comparable"], Usual, [Usual EXCEPT ![1] = "incomparable"],
   [Usual EXCEPT ![1] = "unparsable"]}

(* Every way to say that there is nothing, where the search understands it. *)
SupportedSearches ==
  {Whole(policy, Usual, empty) : policy \in {"or", "and"}, empty \in EmptyAnswers}
  \cup {Whole(policy, paths, "list") : policy \in {"or", "and"}, paths \in Paths}
  \cup {Paged(policy, paths, "list") : policy \in {"or", "and"}, paths \in Paths}
  \cup {Paged("or", Usual, "notFound"),
        [Paged("or", Usual, "list") EXCEPT !.requestTokenIn = "unsupported"],
        [Paged("or", Usual, "list") EXCEPT !.responseTokenIn = "unsupported"],
        [Paged("or", Usual, "list") EXCEPT !.paginator = "unsupported"]}

(* A paged list whose emptiness is a status named by notFoundCodes.        *)
RemappedSearches == {Paged("or", Usual, "remapped")}

Kinds ==
  {[k \in Identifiers |-> "equal"], [k \in Identifiers |-> "different"],
   [k \in Identifiers |-> IF k = 1 THEN "different" ELSE "equal"],
   [k \in Identifiers |-> IF k = 1 THEN "missing" ELSE "equal"]}

AllContents == [Items -> Kinds]

OnlyStrangers == [Items -> {[k \in Identifiers |-> "different"]}]
=============================================================================
