------------------------------- MODULE Documents -------------------------------
(***************************************************************************)
(* JSON documents, and the reading, writing and removing of nested fields  *)
(* (pathparsing/nested.go).                                                *)
(*                                                                         *)
(* A document is a function from the paths it has to what is found there:  *)
(* "map", "list", "null", or the text of a scalar.  Its domain is closed   *)
(* under prefixes; the elements of a list are its index segments, without  *)
(* a gap.  A path is what ParsePath makes of its text: a sequence of       *)
(* segments, some of which are array indices and some predicates.          *)
(***************************************************************************)
EXTENDS Naturals, SequencesExt

CONSTANTS
  Text,         \* the segments, and what may be found at a path
  IndexOf,      \* the segments that are array indices, and the index of each
  PredicateOf   \* the segments that are predicates [?key=want], and their parts

(* Every index has one segment (leading zeros are rejected), and so have    *)
(* all the smaller ones.                                                   *)
ASSUME SegmentsAssumption ==
  /\ {"map", "list", "null"} \cup DOMAIN IndexOf \cup DOMAIN PredicateOf \subseteq Text
  /\ \A s \in DOMAIN IndexOf :
       /\ IndexOf[s] \in Nat
       /\ \A t \in DOMAIN IndexOf : IndexOf[s] = IndexOf[t] => s = t
       /\ \A i \in 0..IndexOf[s] : \E t \in DOMAIN IndexOf : IndexOf[t] = i
  /\ DOMAIN IndexOf \cap DOMAIN PredicateOf = {}
  /\ \A s \in DOMAIN PredicateOf : DOMAIN PredicateOf[s] = {"key", "want"}

Leaf(node) == [p \in {<<>>} |-> node]
Containers == {"map", "list"}

Below(doc, path) == {p \in DOMAIN doc : IsPrefix(path, p)}

Sub(doc, path) ==
  LET Rest(p) == SubSeq(p, Len(path) + 1, Len(p))
  IN  [r \in {Rest(p) : p \in Below(doc, path)} |-> doc[path \o r]]

Without(doc, path) == [p \in DOMAIN doc \ Below(doc, path) |-> doc[p]]

(* The document with the whole of value in place of what was at path.      *)
Put(doc, path, value) ==
  LET kept == Without(doc, path)
      new  == {path \o r : r \in DOMAIN value}
  IN  [p \in DOMAIN kept \cup new |->
         IF p \in new THEN value[SubSeq(p, Len(path) + 1, Len(p))] ELSE kept[p]]
-----------------------------------------------------------------------------
Elements(doc, path) == {Append(path, s) : s \in DOMAIN IndexOf} \cap DOMAIN doc

Segment(i) == CHOOSE s \in DOMAIN IndexOf : IndexOf[s] = i

(* matchPredicate: the elements that are objects with the wanted value.    *)
MatchPredicate(doc, path, predicate) ==
  {e \in Elements(doc, path) :
     /\ doc[e] = "map"
     /\ Append(e, predicate.key) \in DOMAIN doc
     /\ doc[Append(e, predicate.key)] = predicate.want}

(* The places a segment names in the container at path, present or not;    *)
(* more than one for an ambiguous predicate.                               *)
Named(doc, path, segment) ==
  IF doc[path] = "list"
  THEN IF segment \in DOMAIN PredicateOf
       THEN MatchPredicate(doc, path, PredicateOf[segment])
       ELSE {Append(path, segment)} \cap {Append(path, s) : s \in DOMAIN IndexOf}
  ELSE {Append(path, segment)}

(* GetNestedField: where path leads, or that it is absent or an error.     *)
GetNestedField(doc, path) ==
  LET Advance(walk, segment, hits) ==
        LET here == doc[walk.at]
        IN  CASE \/ here \notin Containers
                 \/ here = "list" /\ segment \notin DOMAIN IndexOf \cup DOMAIN PredicateOf
                 \/ Cardinality(hits) > 1
                   -> [walk EXCEPT !.is = "error"]
              [] Cardinality(hits) = 1
                   -> [walk EXCEPT !.at = CHOOSE h \in hits : TRUE]
              [] OTHER
                   -> [walk EXCEPT !.is = "absent"]
      Step(walk, segment) ==
        IF walk.is # "found" THEN walk
        ELSE Advance(walk, segment, Named(doc, walk.at, segment) \cap DOMAIN doc)
  IN  FoldLeft(Step, [at |-> <<>>, is |-> "found"], path)

Found(doc, path) == GetNestedField(doc, path).is = "found"
Value(doc, path) == Sub(doc, GetNestedField(doc, path).at)

(* unstructured.NestedFieldNoCopy, which nests through objects only.       *)
FoundInMaps(doc, path) ==
  /\ path \in DOMAIN doc
  /\ \A n \in 0..(Len(path) - 1) : doc[SubSeq(path, 1, n)] = "map"
-----------------------------------------------------------------------------
SegmentWantsArray(segment) == segment \in DOMAIN IndexOf \cup DOMAIN PredicateOf

ContainerFor(segment) == IF SegmentWantsArray(segment) THEN "list" ELSE "map"

(* A list grown with nulls up to the place an index names.                 *)
Grown(doc, path, segment) ==
  IF doc[path] = "list" /\ segment \in DOMAIN IndexOf
  THEN LET missing == {Append(path, Segment(i)) : i \in 0..IndexOf[segment]} \ DOMAIN doc
       IN  [p \in DOMAIN doc \cup missing |-> IF p \in missing THEN "null" ELSE doc[p]]
  ELSE doc

(* SetNestedField: the containers on the way are created, and replaced     *)
(* where they are of the wrong kind for the segment that follows; a        *)
(* predicate has to select one element.                                    *)
SetNestedField(doc, value, path) ==
  LET Enter(grown, place, n) ==
        [ok  |-> TRUE, at |-> place,
         doc |-> IF n = Len(path) THEN Put(grown, place, value)
                 ELSE IF place \in DOMAIN grown /\ grown[place] = ContainerFor(path[n + 1]) THEN grown
                 ELSE Put(grown, place, Leaf(ContainerFor(path[n + 1])))]
      Step(walk, n) ==
        LET named == Named(walk.doc, walk.at, path[n])
        IN  IF ~walk.ok \/ Cardinality(named) # 1
            THEN [walk EXCEPT !.ok = FALSE]
            ELSE Enter(Grown(walk.doc, walk.at, path[n]), CHOOSE p \in named : TRUE, n)
      Outcome(walk) ==
        IF path # <<>> /\ walk.ok THEN [ok |-> TRUE, doc |-> walk.doc]
        ELSE [ok |-> FALSE, doc |-> doc]
  IN  Outcome(FoldLeft(Step, [ok |-> TRUE, at |-> <<>>, doc |-> doc], [n \in 1..Len(path) |-> n]))

(* Mutant of RemoveNestedField: an element leaves a gap in its list.       *)
RemoveLeavingGap(doc, path) ==
  IF path = <<>> \/ ~Found(doc, path) THEN doc ELSE Without(doc, GetNestedField(doc, path).at)

(* What follows an element taken out of a list moves up.                   *)
RemovedAt(doc, at) ==
  LET parent == Front(at)
      n      == Len(at)
      Moves(p, j) == Len(p) >= n /\ IsPrefix(parent, p) /\ IndexOf[p[n]] >= j
      Up(p)   == IF Moves(p, IndexOf[at[n]] + 1)
                 THEN [p EXCEPT ![n] = Segment(IndexOf[@] - 1)] ELSE p
      Down(p) == IF Moves(p, IndexOf[at[n]])
                 THEN [p EXCEPT ![n] = Segment(IndexOf[@] + 1)] ELSE p
      kept    == DOMAIN doc \ Below(doc, at)
  IN  IF doc[parent] = "list" THEN [p \in {Up(q) : q \in kept} |-> doc[Down(p)]]
      ELSE Without(doc, at)

(* RemoveNestedField: nothing happens where nothing is found.              *)
RemoveNestedField(doc, path) ==
  IF path = <<>> \/ ~Found(doc, path) THEN doc
  ELSE RemovedAt(doc, GetNestedField(doc, path).at)
-----------------------------------------------------------------------------
(* Nothing hangs in the air, and no list has a gap.                        *)
WellFormed(doc) ==
  /\ <<>> \in DOMAIN doc
  /\ \A p \in DOMAIN doc \ {<<>>} :
       /\ Front(p) \in DOMAIN doc
       /\ doc[Front(p)] \in Containers
       /\ doc[Front(p)] = "list" =>
            /\ Last(p) \in DOMAIN IndexOf
            /\ \A i \in 0..IndexOf[Last(p)] : Append(Front(p), Segment(i)) \in DOMAIN doc

IsDocument(doc) ==
  /\ doc = [p \in DOMAIN doc |-> doc[p]]
  /\ \A p \in DOMAIN doc : p \in Seq(Text) /\ doc[p] \in Text
  /\ WellFormed(doc)

IsObject(doc) == IsDocument(doc) /\ doc[<<>>] = "map"

(* A path of fields, without an index or a predicate.                      *)
OnlyFields(path) == path # <<>> /\ \A n \in DOMAIN path : ~SegmentWantsArray(path[n])

(* The paths have a way in common, if any, and part at a field.            *)
Part(p, q) ==
  \E n \in 1..Len(p) :
    /\ n <= Len(q) /\ p[n] # q[n] /\ ~SegmentWantsArray(q[n])
    /\ \A k \in 1..(n - 1) : p[k] = q[k]
=============================================================================
