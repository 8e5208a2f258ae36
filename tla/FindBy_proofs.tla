----------------------------- MODULE FindBy_proofs -----------------------------
(***************************************************************************)
(* FindBy keeps the promise of Lookup for collections, pages and verbs of  *)
(* any size, provided the verb is one the code supports.                   *)
(***************************************************************************)
EXTENDS FindBy, TLAPS

(* Bodies with one list, and page tokens in a header.                      *)
Supported ==
  \A s \in Searches :
    /\ ~s.twoLists
    /\ s.paginator = "continuationToken" => s.responseTokenIn # "body"

(* A paged list whose emptiness is a list or a 404.                        *)
EmptyUnderstood ==
  \A s \in Searches :
    s.paginator = "continuationToken" => s.empty \in {"list", "notFound"}

(* What there was all the time is there now, what is there now was there   *)
(* at some time.                                                           *)
HistoryBounds == always \subseteq collection /\ collection \subseteq ever

(* Only the verbs that page reach the page loop.                           *)
PagingVerb == pc = "page" => search.paginator = "continuationToken"

(* The pages read so far hold no match that was there all the time.        *)
ReadInVain ==
  pc = "page" => \A i \in always : i <= Cursor => ~IsItemMatch(i)

IInv ==
  /\ TypeOK
  /\ HistoryBounds
  /\ PagingVerb
  /\ ReadInVain

-----------------------------------------------------------------------------
(* The comparison of the code lies between the two bounds of the policy,   *)
(* in whatever order the identifiers come.                                 *)
LEMMA MatchBounds ==
  ASSUME TypeOK, NEW i \in Items
  PROVE  /\ i \in MustMatch => IsItemMatch(i)
         /\ IsItemMatch(i) => i \in MayMatch
<1>1. /\ search.policy \in {"or", "and"}
      /\ search.paths \in UNION {[ids -> PathKinds] : ids \in SUBSET Identifiers}
  BY FindByAssumption DEF TypeOK, SearchSet
<1>2. PICK ids \in SUBSET Identifiers : search.paths \in [ids -> PathKinds]
  BY <1>1
<1>3. Used = ids
  BY <1>2 DEF Used
<1>4. \A k \in Used : /\ k \in Nat
                      /\ search.paths[k] \in PathKinds
                      /\ content[i][k] \in Comparisons
  BY <1>2, <1>3, FindByAssumption DEF TypeOK
<1>5. \A k \in Used : /\ Compared(i, k) = "equal" <=> Agrees(i, k)
                      /\ Compared(i, k) = "skipped" <=> search.paths[k] = "unparsable"
                      /\ Compared(i, k) = "fails" => search.paths[k] = "incomparable"
  BY <1>4 DEF Compared, Agrees, PathKinds, Comparisons
<1>6. CASE search.policy = "and"
  BY <1>5, <1>6 DEF MustMatch, MayMatch, IsItemMatch, MatchesAll
<1>7. CASE search.policy = "or"
  BY <1>5, <1>7 DEF MustMatch, MayMatch, IsItemMatch, MatchesAny
<1>8. QED
  BY <1>1, <1>6, <1>7

(* The initial states.                                                     *)
LEMMA InitSatisfiesIInv == Init => IInv
<1> SUFFICES ASSUME Init PROVE IInv
  OBVIOUS
<1>1. 0 \in 0..Size
  BY SizeAssumption
<1>2. CollectionTypeOK
  BY DEF Init, CollectionInit, CollectionTypeOK
<1>3. TypeOK
  BY <1>1, <1>2 DEF Init, TypeOK
<1>4. QED
  BY <1>3 DEF Init, IInv, HistoryBounds, PagingVerb, ReadInVain, CollectionInit

(* What a search sees, and what changes under it, stays within its bounds. *)
LEMMA HistoryKept ==
  ASSUME IInv, SearchBegins \/ CollectionChanges \/ UNCHANGED collectionVars
  PROVE  /\ CollectionTypeOK' /\ HistoryBounds'
         /\ ~SearchBegins => always' \subseteq always
<1> USE DEF IInv, TypeOK, CollectionTypeOK, HistoryBounds
<1>1. CASE SearchBegins
  BY <1>1 DEF SearchBegins
<1>2. CASE CollectionChanges
  <2>1. PICK i \in Items : collection' \in {collection \cup {i}, collection \ {i}}
    BY <1>2 DEF CollectionChanges
  <2>2. QED
    BY <1>2, <2>1 DEF CollectionChanges
<1>3. CASE UNCHANGED collectionVars
  BY <1>3 DEF collectionVars
<1>4. QED
  BY <1>1, <1>2, <1>3

(* The steps of a search under way leave the collection and the verb       *)
(* alone, so that a match stays a match.                                   *)
LEMMA SettingKept ==
  ASSUME UNCHANGED setting
  PROVE  /\ UNCHANGED <<MayMatch, MustMatch>>
         /\ \A i : IsItemMatch(i)' <=> IsItemMatch(i)
BY DEF setting, MayMatch, MustMatch, Used, Agrees, IsItemMatch, MatchesAll, MatchesAny,
   Compared

-----------------------------------------------------------------------------
(* One request for a page: the search ends with an item that is there and  *)
(* matches, or with an error, or in vain - and then either no page is left *)
(* or it goes on behind this one.                                          *)
PageEffect ==
  \/ /\ verdict' = "found" /\ pc' = "idle"
     /\ hit' \in collection /\ hit' \in Items /\ IsItemMatch(hit')
     /\ UNCHANGED nextToken
  \/ verdict' = "error" /\ pc' = "idle" /\ hit' = 0 /\ UNCHANGED nextToken
  \/ /\ verdict' = "absent" /\ pc' = "idle" /\ hit' = 0
     /\ nextToken' \in 0..Size
     /\ \A i \in always : ~IsItemMatch(i)
  \/ /\ UNCHANGED <<verdict, pc, hit>>
     /\ nextToken' \in 0..Size
     /\ \A i \in always : i <= nextToken' => ~IsItemMatch(i)

LEMMA PageCallEffect ==
  ASSUME Supported, IInv, PageCall
  PROVE  PageEffect
<1>1. /\ pc = "page" /\ verdict = "searching"
      /\ search \in Searches
      /\ ~search.twoLists
      /\ search.responseTokenIn # "body"
      /\ Size \in Nat
      /\ Cursor \in 0..Size
      /\ collection \subseteq Items /\ always \subseteq collection
      /\ Items \subseteq Nat /\ 0 \notin Items
      /\ \A i \in Items : i <= Size
  BY SizeAssumption DEF PageCall, IInv, TypeOK, CollectionTypeOK, PagingVerb, HistoryBounds,
     Supported, Cursor, Items
<1>2. \A i \in always : i <= Cursor => ~IsItemMatch(i)
  BY <1>1 DEF IInv, ReadInVain
<1>3. PICK answer \in AnswersFor(Cursor) :
        \/ CallForPaginationOutcome[answer] = "absent" /\ Absent
           /\ UNCHANGED <<nextToken, excused>>
        \/ CallForPaginationOutcome[answer] \in {"error", "nil"} /\ Fail
           /\ excused' = (answer = "failure")
           /\ UNCHANGED nextToken
        \/ /\ CallForPaginationOutcome[answer] = "items"
           /\ \E last \in (Cursor + 1)..Size, more \in BOOLEAN :
                /\ Cardinality(Listed(last)) <= PageSize
                /\ last = Size => ~more
                /\ Rest(last) # {} => more
                /\ \E list \in ItemLists(Listed(last)) :
                     \/ /\ \E i \in FirstMatches(list) : Conclude("found", i)
                        /\ UNCHANGED <<nextToken, excused>>
                     \/ /\ Matches(list) = {}
                        /\ ShouldContinue(more, last)
                        /\ excused' = (search.responseTokenIn = "unsupported")
  BY DEF PageCall
<1>4. CASE CallForPaginationOutcome[answer] = "absent" /\ Absent /\ UNCHANGED nextToken
  <2>1. answer # "list" /\ answer # "failure"
    BY <1>4 DEF CallForPaginationOutcome, CallOutcome
  <2>2. Rest(Cursor) = {}
    BY <2>1, <1>3 DEF AnswersFor
  <2>3. \A i \in always : i <= Cursor
    BY <1>1, <2>2 DEF Rest
  <2>4. QED
    BY <1>1, <1>2, <1>4, <2>3 DEF PageEffect, Absent, Conclude, IInv, TypeOK
<1>5. CASE Fail /\ UNCHANGED nextToken
  BY <1>5 DEF PageEffect, Fail, Conclude
<1>6. ASSUME NEW last \in (Cursor + 1)..Size, NEW more \in BOOLEAN,
             Rest(last) # {} => more,
             NEW list \in ItemLists(Listed(last)),
             \/ /\ \E i \in FirstMatches(list) : Conclude("found", i)
                /\ UNCHANGED <<nextToken, excused>>
             \/ /\ Matches(list) = {}
                /\ ShouldContinue(more, last)
      PROVE  PageEffect
  <2>1. list = {i \in collection : Cursor < i /\ i <= last} /\ last \in 0..Size
    BY <1>1, <1>6 DEF ItemLists, Listed, Rest
  <2>2. ASSUME NEW i \in FirstMatches(list), Conclude("found", i), UNCHANGED nextToken
        PROVE  PageEffect
    BY <1>1, <2>1, <2>2 DEF PageEffect, Conclude, FirstMatches, Matches
  <2>3. CASE Matches(list) = {} /\ ShouldContinue(more, last)
    <3>1. \A i \in always : i <= last => ~IsItemMatch(i)
      <4> SUFFICES ASSUME NEW i \in always, i <= last PROVE ~IsItemMatch(i)
        OBVIOUS
      <4>1. CASE i <= Cursor
        BY <4>1, <1>2
      <4>2. CASE ~(i <= Cursor)
        BY <4>2, <1>1, <2>1, <2>3 DEF Matches
      <4>3. QED
        BY <4>1, <4>2
    <3>2. CASE more /\ nextToken' = last /\ UNCHANGED <<pc, verdict, hit>>
      BY <2>1, <3>1, <3>2 DEF PageEffect
    <3>3. CASE ~more /\ Absent /\ nextToken' = 0
      <4>1. \A i \in always : i <= last
        BY <1>1, <1>6, <2>1, <3>3 DEF Rest
      <4>2. QED
        BY <1>1, <3>1, <3>3, <4>1 DEF PageEffect, Absent, Conclude
    <3>4. QED
      BY <1>1, <1>5, <2>3, <3>2, <3>3 DEF ShouldContinue
  <2>4. QED
    BY <1>6, <2>2, <2>3
<1>7. QED
  BY <1>3, <1>4, <1>5, <1>6

(* Every step preserves the invariant.                                     *)
LEMMA NextKeepsIInv == Supported /\ IInv /\ [Next]_vars => IInv'
<1> SUFFICES ASSUME Supported, IInv, [Next]_vars PROVE IInv'
  OBVIOUS
<1> USE DEF IInv
<1>1. UNCHANGED setting
  BY DEF Next, Begin, Search, SingleCall, PageCall, PageRefused, Change, vars, setting
<1>2. CASE Begin
  <2>1. SearchBegins
    BY <1>2 DEF Begin
  <2>2. CollectionTypeOK' /\ HistoryBounds'
    BY <2>1, HistoryKept
  <2>3. TypeOK'
    <3>1. 0 \in 0..Size /\ excused' \in BOOLEAN
      BY <1>2, SizeAssumption DEF Begin, NewPaginator
    <3>2. nextToken' \in 0..Size /\ isFirstCall' \in BOOLEAN
      BY <1>2, <3>1 DEF Begin, NewPaginator, TypeOK, paginatorVars
    <3>3. pc' \in {"idle", "single", "page"} /\ hit' = 0
          /\ verdict' \in {"searching", "error"} /\ (verdict' = "searching" <=> pc' # "idle")
      BY <1>2 DEF Begin, NewPaginator, TypeOK
    <3>4. QED
      BY <1>1, <2>2, <3>1, <3>2, <3>3 DEF TypeOK, setting
  <2>4. PagingVerb' /\ ReadInVain'
    <3>1. pc' = "page" => search.paginator = "continuationToken" /\ isFirstCall' = TRUE
      BY <1>2 DEF Begin, NewPaginator, TypeOK
    <3>2. \A i \in Items : ~(i <= 0)
      BY SizeAssumption DEF Items
    <3>3. always' \subseteq Items
      BY <2>2 DEF CollectionTypeOK
    <3>4. QED
      BY <1>1, <3>1, <3>2, <3>3 DEF PagingVerb, ReadInVain, Cursor, setting
  <2>5. QED
    BY <2>2, <2>3, <2>4
<1>3. CASE SingleCall
  <2>1. UNCHANGED collectionVars /\ UNCHANGED paginatorVars
    BY <1>3 DEF SingleCall
  <2>2. CollectionTypeOK' /\ HistoryBounds'
    BY <2>1, HistoryKept
  <2>3. pc' = "idle" /\ excused' \in BOOLEAN
        /\ \/ verdict' \in {"absent", "error"} /\ hit' = 0
           \/ verdict' = "found" /\ hit' \in 1..Size
    <3>1. PICK answer \in AnswersFor(0) :
            /\ excused' = (answer = "failure")
            /\ \/ CallOutcome[answer] \in {"absent", "nil"} /\ Absent
               \/ CallOutcome[answer] = "error" /\ Fail
               \/ \E list \in ItemLists(collection) :
                    \/ \E i \in FirstMatches(list) : Conclude("found", i)
                    \/ Matches(list) = {} /\ Absent
      BY <1>3 DEF SingleCall
    <3>2. ASSUME NEW list \in ItemLists(collection), NEW i \in FirstMatches(list),
                 Conclude("found", i)
          PROVE  pc' = "idle" /\ verdict' = "found" /\ hit' \in 1..Size
      BY <3>2 DEF ItemLists, FirstMatches, Matches, Conclude, TypeOK, CollectionTypeOK, Items
    <3>3. Absent => pc' = "idle" /\ verdict' = "absent" /\ hit' = 0
      BY DEF Absent, Conclude
    <3>4. Fail => pc' = "idle" /\ verdict' = "error" /\ hit' = 0
      BY DEF Fail, Conclude
    <3>5. excused' \in BOOLEAN
      BY <3>1
    <3>6. QED
      BY <3>1, <3>2, <3>3, <3>4, <3>5
  <2>4. 0 \in 0..Size /\ 1..Size \subseteq 0..Size /\ 0 \notin 1..Size
    BY SizeAssumption
  <2>5. TypeOK'
    BY <1>1, <2>1, <2>2, <2>3, <2>4 DEF TypeOK, setting, paginatorVars
  <2>6. QED
    BY <2>2, <2>3, <2>5 DEF PagingVerb, ReadInVain
<1>4. CASE PageCall
  <2>1. UNCHANGED collectionVars /\ pc = "page" /\ isFirstCall' = FALSE
    BY <1>4 DEF PageCall
  <2>2. CollectionTypeOK' /\ HistoryBounds'
    BY <2>1, HistoryKept
  <2>3. PageEffect
    BY <1>4, PageCallEffect
  <2>4. 0 \in 0..Size /\ Items \subseteq 0..Size /\ 0 \notin Items
    BY SizeAssumption DEF Items
  <2>5. excused' \in BOOLEAN
    BY <1>4 DEF PageCall, TypeOK
  <2>6. TypeOK'
    BY <1>1, <2>1, <2>2, <2>3, <2>4, <2>5 DEF TypeOK, PageEffect, setting
  <2>7. PagingVerb'
    BY <1>1, <2>1 DEF PagingVerb, setting
  <2>8. ReadInVain'
    <3>1. pc' = "page" => \A i \in always : i <= nextToken' => ~IsItemMatch(i)
      BY <2>3 DEF PageEffect
    <3>2. \A i : IsItemMatch(i)' <=> IsItemMatch(i)
      BY <1>1, SettingKept
    <3>3. QED
      BY <2>1, <3>1, <3>2 DEF ReadInVain, Cursor, collectionVars
  <2>9. QED
    BY <2>2, <2>6, <2>7, <2>8
<1>5. CASE PageRefused
  <2>1. UNCHANGED collectionVars /\ UNCHANGED paginatorVars
    BY <1>5 DEF PageRefused
  <2>2. CollectionTypeOK' /\ HistoryBounds'
    BY <2>1, HistoryKept
  <2>3. QED
    BY <1>1, <1>5, <2>1, <2>2, SizeAssumption
    DEF PageRefused, Fail, Conclude, TypeOK, PagingVerb, ReadInVain, setting, paginatorVars
<1>6. CASE Change
  <2>1. CollectionTypeOK' /\ HistoryBounds'
    BY <1>6, HistoryKept DEF Change
  <2>2. always' \subseteq always
    BY <1>6 DEF Change, CollectionChanges
  <2>3. \A i : IsItemMatch(i)' <=> IsItemMatch(i)
    BY <1>1, SettingKept
  <2>4. TypeOK' /\ PagingVerb'
    BY <1>6, <2>1 DEF Change, TypeOK, PagingVerb, setting, paginatorVars
  <2>5. ReadInVain'
    BY <1>6, <2>2, <2>3 DEF Change, ReadInVain, Cursor, paginatorVars
  <2>6. QED
    BY <2>1, <2>4, <2>5
<1>7. CASE UNCHANGED vars
  <2>1. CollectionTypeOK' /\ HistoryBounds'
    BY <1>7, HistoryKept DEF vars
  <2>2. \A i : IsItemMatch(i)' <=> IsItemMatch(i)
    BY <1>1, SettingKept
  <2>3. TypeOK' /\ PagingVerb'
    BY <1>7, <2>1 DEF vars, TypeOK, PagingVerb, setting, paginatorVars
  <2>4. ReadInVain'
    BY <1>7, <2>2 DEF vars, ReadInVain, Cursor, paginatorVars, collectionVars
  <2>5. QED
    BY <2>1, <2>3, <2>4
<1>8. QED
  BY <1>2, <1>3, <1>4, <1>5, <1>6, <1>7 DEF Next, Search

-----------------------------------------------------------------------------
(* The theorems.                                                           *)

(* The invariant holds in every reachable state.                           *)
THEOREM Invariance ==
  ASSUME Supported
  PROVE  Spec => []IInv
<1>1. IInv /\ [Next]_vars => IInv'
  BY NextKeepsIInv
<1>2. QED
  BY <1>1, InitSatisfiesIInv, PTL DEF Spec

(* FindBy keeps what Observe relies on: what it finds was there and agrees *)
(* with the CR, and it never answers "not found" past a certain match that *)
(* was there all the time, whatever moves between two pages.               *)
THEOREM FindByImplementsLookup ==
  ASSUME Supported
  PROVE  Spec => ImplementsLookup
<1>1. Init => L!Init
  <2> SUFFICES ASSUME Init PROVE L!Init
    OBVIOUS
  <2>1. MayMatch \subseteq Items /\ MustMatch \subseteq Items
    BY DEF MayMatch, MustMatch
  <2>2. QED
    BY <2>1 DEF Init, L!Init, L!CollectionInit, CollectionInit, L!Items, Items
<1>2. IInv /\ [Next]_vars => [L!Next]_L!vars
  <2> SUFFICES ASSUME IInv, [Next]_vars PROVE [L!Next]_L!vars
    OBVIOUS
  <2> USE DEF IInv
  <2>1. UNCHANGED setting
    BY DEF Next, Begin, Search, SingleCall, PageCall, PageRefused, Change, vars, setting
  <2>2. UNCHANGED <<MayMatch, MustMatch>>
    BY <2>1, SettingKept
  <2>3. /\ always \subseteq collection /\ collection \subseteq ever
        /\ collection \subseteq Items
    BY DEF HistoryBounds, TypeOK, CollectionTypeOK
  <2>4. CASE Begin
    <3>1. verdict # "searching" /\ verdict' \in {"searching", "error"} /\ hit' = 0
      BY <2>4 DEF Begin, NewPaginator, TypeOK
    <3>2. L!SearchBegins
      BY <2>4 DEF Begin, NewPaginator, SearchBegins, L!SearchBegins
    <3>3. QED
      BY <2>2, <3>1, <3>2 DEF L!Next, L!Start
  <2>5. ASSUME UNCHANGED collectionVars, verdict = "searching",
               \/ verdict' = "found" /\ hit' \in collection /\ IsItemMatch(hit')
               \/ verdict' = "absent" /\ hit' = 0 /\ \A i \in always : ~IsItemMatch(i)
               \/ verdict' = "error" /\ hit' = 0
        PROVE  L!Next
    <3>1. CASE verdict' = "found" /\ hit' \in collection /\ IsItemMatch(hit')
      <4>1. hit' \in ever \cap MayMatch
        BY <2>3, <3>1, MatchBounds
      <4>2. QED
        BY <2>2, <2>5, <3>1, <4>1 DEF L!Next, L!Answer, L!collectionVars, collectionVars
    <3>2. CASE verdict' = "absent" /\ hit' = 0 /\ \A i \in always : ~IsItemMatch(i)
      <4>1. always \cap MustMatch = {}
        BY <2>3, <3>2, MatchBounds
      <4>2. QED
        BY <2>2, <2>5, <3>2, <4>1 DEF L!Next, L!Answer, L!collectionVars, collectionVars
    <3>3. CASE verdict' = "error" /\ hit' = 0
      BY <2>2, <2>5, <3>3 DEF L!Next, L!Answer, L!collectionVars, collectionVars
    <3>4. QED
      BY <2>5, <3>1, <3>2, <3>3
  <2>6. CASE SingleCall
    <3>1. UNCHANGED collectionVars /\ verdict = "searching"
      BY <2>6 DEF SingleCall, TypeOK
    <3>2. PICK answer \in AnswersFor(0) :
            \/ CallOutcome[answer] \in {"absent", "nil"} /\ Absent
            \/ CallOutcome[answer] = "error" /\ Fail
            \/ /\ CallOutcome[answer] = "items"
               /\ \E list \in ItemLists(collection) :
                    \/ \E i \in FirstMatches(list) : Conclude("found", i)
                    \/ Matches(list) = {} /\ Absent
      BY <2>6 DEF SingleCall
    <3>3. CASE CallOutcome[answer] \in {"absent", "nil"} /\ Absent
      <4>1. answer # "list" /\ answer # "failure"
        BY <3>3 DEF CallOutcome
      <4>2. Rest(0) = {}
        BY <4>1 DEF AnswersFor
      <4>3. collection = {}
        BY <2>3, <4>2, SizeAssumption DEF Rest, Items
      <4>4. QED
        BY <2>3, <2>5, <3>1, <3>3, <4>3 DEF Absent, Conclude
    <3>4. CASE Fail
      BY <2>5, <3>1, <3>4 DEF Fail, Conclude
    <3>5. ASSUME NEW list \in ItemLists(collection),
                 \/ \E i \in FirstMatches(list) : Conclude("found", i)
                 \/ Matches(list) = {} /\ Absent
          PROVE  L!Next
      <4>1. list = collection
        BY <3>5 DEF ItemLists, Supported, TypeOK
      <4>2. ASSUME NEW i \in FirstMatches(list), Conclude("found", i)
            PROVE  L!Next
        BY <2>5, <3>1, <4>1, <4>2 DEF FirstMatches, Matches, Conclude
      <4>3. CASE Matches(list) = {} /\ Absent
        BY <2>3, <2>5, <3>1, <4>1, <4>3 DEF Matches, Absent, Conclude
      <4>4. QED
        BY <3>5, <4>2, <4>3
    <3>6. QED
      BY <3>2, <3>3, <3>4, <3>5
  <2>7. CASE PageCall
    <3>1. UNCHANGED collectionVars /\ verdict = "searching"
      BY <2>7 DEF PageCall, TypeOK
    <3>2. PageEffect
      BY <2>7, PageCallEffect
    <3>3. CASE UNCHANGED <<verdict, pc, hit>>
      BY <2>2, <3>1, <3>3 DEF L!vars, L!collectionVars, collectionVars
    <3>4. CASE ~UNCHANGED <<verdict, pc, hit>>
      BY <2>5, <3>1, <3>2, <3>4 DEF PageEffect
    <3>5. QED
      BY <3>3, <3>4
  <2>8. CASE PageRefused
    BY <2>5, <2>8 DEF PageRefused, Fail, Conclude, TypeOK, collectionVars
  <2>9. CASE Change
    <3>1. L!CollectionChanges
      BY <2>9 DEF Change, CollectionChanges, L!CollectionChanges, Items, L!Items
    <3>2. QED
      BY <2>2, <2>9, <3>1 DEF Change, L!Next, L!Change
  <2>10. CASE UNCHANGED vars
    BY <2>2, <2>10 DEF vars, collectionVars, L!vars, L!collectionVars
  <2>11. QED
    BY <2>4, <2>6, <2>7, <2>8, <2>9, <2>10 DEF Next, Search
<1>3. QED
  BY <1>1, <1>2, Invariance, PTL DEF Spec, ImplementsLookup, L!Spec

(* The type invariant holds in every reachable state.                      *)
THEOREM SearchTypeCorrect ==
  ASSUME Supported
  PROVE  Spec => []TypeOK
<1>1. IInv => TypeOK
  BY DEF IInv
<1>2. QED
  BY <1>1, Invariance, PTL

(* A search that finds nothing does not fail, for every verb but those     *)
(* that page and express emptiness by no body, or by a status of           *)
(* notFoundCodes or tolerateCodes: there the paged call reads an error.    *)
THEOREM AbsenceIsReported ==
  ASSUME Supported, EmptyUnderstood
  PROVE  Spec => []AbsenceIsNoError
<1>1. Init => AbsenceIsNoError
  BY DEF Init, AbsenceIsNoError
<1>2. IInv /\ AbsenceIsNoError /\ [Next]_vars => AbsenceIsNoError'
  <2> SUFFICES ASSUME IInv, AbsenceIsNoError, [Next]_vars PROVE AbsenceIsNoError'
    OBVIOUS
  <2> USE DEF AbsenceIsNoError
  <2>1. CASE Begin
    BY <2>1 DEF Begin, NewPaginator
  <2>2. CASE SingleCall
    <3>1. PICK answer \in AnswersFor(0) :
            /\ excused' = (answer = "failure")
            /\ \/ Absent
               \/ CallOutcome[answer] = "error" /\ Fail
               \/ \E i \in Items \cup collection : Conclude("found", i)
      BY <2>2 DEF SingleCall, ItemLists, FirstMatches, Matches
    <3>2. answer \in EmptyAnswers \cup {"failure"}
      BY FindByAssumption DEF AnswersFor, IInv, TypeOK, SearchSet, EmptyAnswers
    <3>3. CallOutcome[answer] = "error" => answer = "failure"
      BY <3>2 DEF CallOutcome, EmptyAnswers
    <3>4. QED
      BY <3>1, <3>3 DEF Absent, Fail, Conclude
  <2>3. CASE PageCall
    <3>1. search.empty \in {"list", "notFound"}
      BY <2>3 DEF PageCall, IInv, TypeOK, PagingVerb, EmptyUnderstood
    <3>2. \A answer \in AnswersFor(Cursor) :
            CallForPaginationOutcome[answer] \in {"error", "nil"} => answer = "failure"
      BY <3>1 DEF AnswersFor, CallForPaginationOutcome, CallOutcome
    <3>3. PICK answer \in AnswersFor(Cursor) :
            \/ Absent
            \/ CallForPaginationOutcome[answer] \in {"error", "nil"} /\ Fail
               /\ excused' = (answer = "failure")
            \/ \E i \in Items \cup collection : Conclude("found", i)
            \/ \E last, more : /\ ShouldContinue(more, last)
                               /\ excused' = (search.responseTokenIn = "unsupported")
      BY <2>3 DEF PageCall, ItemLists, FirstMatches, Matches, Listed, Rest
    <3>4. verdict = "searching"
      BY <2>3 DEF PageCall, IInv, TypeOK
    <3>5. ASSUME NEW last, NEW more, ShouldContinue(more, last),
                 excused' = (search.responseTokenIn = "unsupported")
          PROVE  AbsenceIsNoError'
      BY <3>4, <3>5 DEF ShouldContinue, Absent, Fail, Conclude
    <3>6. QED
      BY <3>2, <3>3, <3>5 DEF Absent, Fail, Conclude
  <2>4. CASE PageRefused
    BY <2>4 DEF PageRefused
  <2>5. CASE Change \/ UNCHANGED vars
    BY <2>5 DEF Change, vars
  <2>6. QED
    BY <2>1, <2>2, <2>3, <2>4, <2>5 DEF Next, Search
<1>3. QED
  BY <1>1, <1>2, Invariance, PTL DEF Spec
=============================================================================
