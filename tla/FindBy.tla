--------------------------------- MODULE FindBy --------------------------------
(***************************************************************************)
(* UnstructuredClient.FindBy: the search for the CR's resource in the list *)
(* a findby verb returns, whole or page by page (restclient.go), with the  *)
(* continuation-token paginator (pagination) and the comparison of an item *)
(* with the CR (isItemMatch, isInResource). A step is one request together *)
(* with everything done with its answer; the collection may change between *)
(* two of them.                                                            *)
(***************************************************************************)
EXTENDS Collection, FiniteSets

CONSTANTS PageSize,    \* the service's limit on the items of a page
          Identifiers, \* the identifiers a definition can name, in their order
          Searches,    \* the findby verbs to search by
          Contents     \* what the items can hold, compared with the CR

(* How the service says that there is nothing to list: a body without      *)
(* items, no body at all, a 404, or a status that notFoundCodes or         *)
(* tolerateCodes of the verb name.                                         *)
EmptyAnswers == {"list", "nobody", "notFound", "remapped", "tolerated"}

(* The paths of the identifiers: one cannot be parsed, another leads       *)
(* through a field of the CR that is no object.                            *)
PathKinds == {"comparable", "incomparable", "unparsable"}

SearchSet ==
  [paginator       : {"none", "continuationToken", "unsupported"},
   requestTokenIn  : {"query", "header", "unsupported"},
   responseTokenIn : {"header", "body", "unsupported"},
   policy          : {"or", "and"},
   paths           : UNION {[ids -> PathKinds] : ids \in SUBSET Identifiers},
   empty           : EmptyAnswers,
   twoLists        : BOOLEAN]      \* the body holds another list beside the items

Comparisons == {"equal", "different", "missing"}

ASSUME FindByAssumption ==
  /\ PageSize \in Nat \ {0}
  /\ Identifiers \subseteq Nat
  /\ Searches \subseteq SearchSet
  /\ Contents \subseteq [Items -> [Identifiers -> Comparisons]]

VARIABLES search,      \* the verb searched by
          content,     \* what each item holds
          pc,          \* the request that comes next
          nextToken,   \* the paginator's token: the last position it has seen, 0 for none
          isFirstCall, \* the paginator has not been used yet
          verdict,     \* what the search ended with
          hit,         \* the item it found, 0 for none
          excused      \* history: the service failed, or the verb is not supported

setting == <<search, content>>
paginatorVars == <<nextToken, isFirstCall>>
vars == <<collectionVars, setting, pc, paginatorVars, verdict, hit, excused>>

TypeOK ==
  /\ CollectionTypeOK
  /\ search \in Searches
  /\ content \in Contents
  /\ pc \in {"idle", "single", "page"}
  /\ nextToken \in 0..Size
  /\ isFirstCall \in BOOLEAN
  /\ verdict \in {"none", "searching", "found", "absent", "error"}
  /\ hit \in 0..Size
  /\ excused \in BOOLEAN
  /\ verdict = "searching" <=> pc # "idle"
  /\ verdict = "found" <=> hit # 0

Init ==
  /\ CollectionInit
  /\ search \in Searches
  /\ content \in Contents
  /\ pc = "idle"
  /\ nextToken = 0
  /\ isFirstCall = FALSE
  /\ verdict = "none"
  /\ hit = 0
  /\ excused = FALSE

-----------------------------------------------------------------------------
(* The comparison of an item with the CR.                                  *)

Used == DOMAIN search.paths

(* isInResource fails when the CR's own field cannot be reached, which it  *)
(* only finds out for an item that has the identifier.                     *)
Compared(i, k) ==
  CASE search.paths[k] = "unparsable"   -> "skipped"
    [] search.paths[k] # "unparsable" /\ content[i][k] = "missing" -> "missing"
    [] search.paths[k] = "incomparable" /\ content[i][k] # "missing" -> "fails"
    [] OTHER                            -> content[i][k]

MatchesAll(i) ==
  /\ Used # {}
  /\ \A k \in Used : Compared(i, k) \in {"equal", "skipped"}

(* The first identifier that fails to compare ends the comparison.         *)
MatchesAny(i) ==
  \E k \in Used :
    /\ Compared(i, k) = "equal"
    /\ \A j \in Used : j < k => Compared(i, j) # "fails"

IsItemMatch(i) == IF search.policy = "and" THEN MatchesAll(i) ELSE MatchesAny(i)

(* findItemInList: the first match of the list, if there is one.           *)
Matches(list) == {i \in list : IsItemMatch(i)}

FirstMatches(list) == {i \in Matches(list) : \A j \in Matches(list) : i <= j}

(* ExtractItemsFromResponse: a map is searched for a list in no particular *)
(* order. An array, a wrapped one, a bare object and an empty body all     *)
(* come down to the items listed.                                          *)
ItemLists(list) == IF search.twoLists THEN {list, {}} ELSE {list}

-----------------------------------------------------------------------------
(* How a search ends.                                                      *)

Conclude(result, item) ==
  /\ pc' = "idle"
  /\ verdict' = result
  /\ hit' = item

Absent == Conclude("absent", 0)

(* Mutant of Fail: the error is noted and the loop goes on.                *)
FailWithoutReturn == UNCHANGED pc /\ verdict' = "error" /\ hit' = 0

Fail == Conclude("error", 0)

(* What Call makes of an answer. "nil" is a successful response without a  *)
(* body.                                                                   *)
CallOutcome ==
  [list |-> "items", nobody |-> "nil", notFound |-> "absent",
   remapped |-> "absent", tolerated |-> "nil", failure |-> "error"]

(* CallForPagination knows successCodes only: any other status the verb    *)
(* declares is an invalid one.                                             *)
CallForPaginationOutcome ==
  [CallOutcome EXCEPT !["remapped"] = "error", !["tolerated"] = "error"]

(* The answers to a request for what follows a position.                   *)
Rest(position) == {i \in collection : i > position}

AnswersFor(position) ==
  {"failure"} \cup {IF Rest(position) = {} THEN search.empty ELSE "list"}

-----------------------------------------------------------------------------
(* What the definition paginates by, if it does. A type the factory does    *)
(* not know ends the search at once.                                       *)
NewPaginator ==
  \/ /\ search.paginator = "none"
     /\ pc' = "single"
     /\ verdict' = "searching"
     /\ UNCHANGED paginatorVars
  \/ /\ search.paginator = "continuationToken"
     /\ pc' = "page"
     /\ verdict' = "searching"
     /\ nextToken' = 0
     /\ isFirstCall' = TRUE
  \/ /\ search.paginator = "unsupported"
     /\ verdict' = "error"
     /\ UNCHANGED <<pc, paginatorVars>>

(* FindBy, up to its first request.                                        *)
Begin ==
  /\ pc = "idle"
  /\ SearchBegins
  /\ NewPaginator
  /\ hit' = 0
  /\ excused' = (search.paginator = "unsupported")
  /\ UNCHANGED setting

(* Mutant of SingleCall: extracts the items of a body that is not there.   *)
SingleCallWithoutNilCheck ==
  /\ pc = "single"
  /\ \E answer \in AnswersFor(0) :
       /\ excused' = (answer = "failure")
       /\ \/ CallOutcome[answer] = "absent" /\ Absent
          \/ CallOutcome[answer] \in {"error", "nil"} /\ Fail
          \/ /\ CallOutcome[answer] = "items"
             /\ \E list \in ItemLists(collection) :
                  \/ \E i \in FirstMatches(list) : Conclude("found", i)
                  \/ Matches(list) = {} /\ Absent
  /\ UNCHANGED <<collectionVars, setting, paginatorVars>>

SingleCall ==
  /\ pc = "single"
  /\ \E answer \in AnswersFor(0) :
       /\ excused' = (answer = "failure")
       /\ \/ CallOutcome[answer] \in {"absent", "nil"} /\ Absent
          \/ CallOutcome[answer] = "error" /\ Fail
          \/ /\ CallOutcome[answer] = "items"
             /\ \E list \in ItemLists(collection) :
                  \/ \E i \in FirstMatches(list) : Conclude("found", i)
                  \/ Matches(list) = {} /\ Absent
  /\ UNCHANGED <<collectionVars, setting, paginatorVars>>

(* Mutant of Cursor: the paginator never leaves its first call.            *)
CursorOfFirstCall == 0

(* The position the page asked for begins after (UpdateRequest).           *)
Cursor == IF isFirstCall THEN 0 ELSE nextToken

TokenRefused ==
  /\ ~isFirstCall
  /\ nextToken # 0
  /\ search.requestTokenIn = "unsupported"

(* Mutant of ShouldContinue: the next page begins one item too late.       *)
ShouldContinueOneLater(more, last) ==
  \/ /\ search.responseTokenIn = "header" /\ more
     /\ nextToken' = last + 1
     /\ UNCHANGED <<pc, verdict, hit>>
  \/ search.responseTokenIn = "header" /\ ~more /\ Absent /\ nextToken' = 0
  \/ search.responseTokenIn = "body" /\ Absent /\ nextToken' = 0
  \/ search.responseTokenIn = "unsupported" /\ Fail /\ UNCHANGED nextToken

(* ShouldContinue: a token in the answer's header asks for the next page;  *)
(* one in the body is not read.                                            *)
ShouldContinue(more, last) ==
  \/ /\ search.responseTokenIn = "header" /\ more
     /\ nextToken' = last
     /\ UNCHANGED <<pc, verdict, hit>>
  \/ search.responseTokenIn = "header" /\ ~more /\ Absent /\ nextToken' = 0
  \/ search.responseTokenIn = "body" /\ Absent /\ nextToken' = 0
  \/ search.responseTokenIn = "unsupported" /\ Fail /\ UNCHANGED nextToken

(* A page holds what there is up to some position, which its token stands  *)
(* for. There is a token when more items follow, and perhaps when none do. *)
Listed(last) == {i \in Rest(Cursor) : i <= last}

PageCall ==
  /\ pc = "page"
  /\ ~TokenRefused
  /\ \E answer \in AnswersFor(Cursor) :
       \/ CallForPaginationOutcome[answer] = "absent" /\ Absent
          /\ UNCHANGED <<nextToken, excused>>
       \/ CallForPaginationOutcome[answer] \in {"error", "nil"} /\ Fail
          /\ excused' = (answer = "failure")
          /\ UNCHANGED nextToken
       \/ /\ CallForPaginationOutcome[answer] = "items"
          /\ \E last \in (Cursor + 1)..Size, more \in BOOLEAN :
               /\ Cardinality(Listed(last)) <= PageSize
               /\ last = Size => ~more
               /\ Rest(last) # {} => more
               /\ \E list \in ItemLists(Listed(last)) :
                    \/ /\ \E i \in FirstMatches(list) : Conclude("found", i)
                       /\ UNCHANGED <<nextToken, excused>>
                    \/ /\ Matches(list) = {}
                       /\ ShouldContinue(more, last)
                       /\ excused' = (search.responseTokenIn = "unsupported")
  /\ isFirstCall' = FALSE
  /\ UNCHANGED <<collectionVars, setting>>

PageRefused ==
  /\ pc = "page"
  /\ TokenRefused
  /\ Fail
  /\ excused' = TRUE
  /\ UNCHANGED <<collectionVars, setting, paginatorVars>>

Search == SingleCall \/ PageCall \/ PageRefused

Change ==
  /\ CollectionChanges
  /\ UNCHANGED <<setting, pc, paginatorVars, verdict, hit, excused>>

Next == Begin \/ Search \/ Change

(* A handler makes its next request: each is bounded by its context.       *)
Spec == Init /\ [][Next]_vars /\ WF_vars(Search)

-----------------------------------------------------------------------------
(* What the policy of the definition says about an item, whatever the      *)
(* order of the identifiers.                                               *)

Agrees(i, k) == search.paths[k] = "comparable" /\ content[i][k] = "equal"

MayMatch ==
  {i \in Items : IF search.policy = "and"
                 THEN \A k \in Used : search.paths[k] = "unparsable" \/ Agrees(i, k)
                 ELSE \E k \in Used : Agrees(i, k)}

(* An identifier that cannot be compared with the CR makes a match by any  *)
(* of the others uncertain.                                                *)
MustMatch ==
  {i \in MayMatch : IF search.policy = "and"
                    THEN Used # {}
                    ELSE \A k \in Used : search.paths[k] # "incomparable"}

L == INSTANCE Lookup WITH may <- MayMatch, must <- MustMatch

(* The search keeps what Observe relies on, however the collection changes *)
(* from one page to the next.                                              *)
ImplementsLookup == L!Spec

(* An empty answer, in whatever way the service and the definition express *)
(* it, is absence and not an error: the CR's resource can be created.      *)
AbsenceIsNoError == verdict = "error" => excused

(* A search ends: the pages advance.                                       *)
SearchEnds == (verdict = "searching") ~> (verdict # "searching")
=============================================================================
