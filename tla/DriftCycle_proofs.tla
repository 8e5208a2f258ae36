---------------------------- MODULE DriftCycle_proofs --------------------------
(***************************************************************************)
(* The CR, the resource and the bodies sent stay documents, whatever the   *)
(* mappings, programs and edits make of them; and Secrets are resolved.    *)
(***************************************************************************)
EXTENDS DriftCycle, Documents_proofs

(* A field at the top of an object.                                        *)
LEMMA TopField ==
  ASSUME NEW s \in Text
  PROVE  /\ <<s>> = Append(<<>>, s) /\ <<s>> \in Paths /\ <<>> \in Paths
         /\ \A doc \in Objects : Hangs(doc, <<>>, s)
<1>1. <<s>> = Append(<<>>, s) /\ <<>> \in Paths
  BY EmptySeq DEF Paths
<1>2. <<s>> \in Paths
  BY <1>1, FrontLastOfAppend
<1>3. \A doc \in Objects : Hangs(doc, <<>>, s)
  BY WellFormedness DEF Objects, Document, Hangs, Containers
<1>4. QED
  BY <1>1, <1>2, <1>3

(* The texts the model itself writes.                                      *)
LEMMA Words ==
  {"map", "list", "null", "spec", "status", "data", SecretValue} \subseteq Text
BY SegmentsAssumption, DefinitionsAssumption

(* Putting a document into an object at its top.                           *)
LEMMA PutAtTop ==
  ASSUME NEW doc \in Objects, NEW s \in Text, NEW value \in Document
  PROVE  Put(doc, <<s>>, value) \in Objects
<1>1. <<s>> = Append(<<>>, s) /\ Hangs(doc, <<>>, s) /\ <<>> \in Paths
  BY TopField
<1>2. doc \in Document /\ doc[<<>>] = "map"
  BY DEF Objects
<1>3. /\ Put(doc, Append(<<>>, s), value) \in Document
      /\ Put(doc, Append(<<>>, s), value)[<<>>] = doc[<<>>]
  BY <1>1, <1>2, PutIsDocument
<1>4. QED
  BY <1>1, <1>2, <1>3 DEF Objects

(* The body a request starts from, {}, is an object.                       *)
LEMMA EmptyObject == Leaf("map") \in Objects
BY Words, LeafIsDocument DEF Objects
-----------------------------------------------------------------------------
(* Programs, aliases and paths of a mapping.                               *)

(* What a jq program makes of a document is a document.                    *)
LEMMA JqMakesDocuments ==
  ASSUME NEW program \in Programs, NEW doc \in Document
  PROVE  /\ RunJq(program, doc) \in [ok : BOOLEAN, value : Document]
         /\ program = "wrap" => RunJq(program, doc).value \in Objects
<1>1. CASE program = "unwrap" /\ <<"data">> \in DOMAIN doc
  BY <1>1, SubIsDocument DEF RunJq
<1>2. CASE program = "unwrap" /\ <<"data">> \notin DOMAIN doc
  BY <1>2, Words, LeafIsDocument DEF RunJq
<1>3. CASE program = "wrap"
  <2>1. Put(Leaf("map"), <<"data">>, doc) \in Objects
    BY Words, EmptyObject, PutAtTop
  <2>2. RunJq(program, doc) = [ok |-> TRUE, value |-> Put(Leaf("map"), <<"data">>, doc)]
    BY <1>3 DEF RunJq
  <2>3. QED
    BY <2>1, <2>2 DEF Objects
<1>4. CASE program = "fails"
  BY <1>4 DEF RunJq
<1>5. QED
  BY <1>1, <1>2, <1>3, <1>4 DEF Programs

(* An alias replaces a scalar.                                             *)
LEMMA AliasMakesDocuments ==
  ASSUME NEW value \in Document, NEW aliases \in Seq([cr : Text, api : Text]),
         NEW from, NEW to \in {"cr", "api"}
  PROVE  ApplyAlias(value, aliases, from, to) \in Document
<1> DEFINE hits == {i \in DOMAIN aliases : value = Leaf(aliases[i][from])}
<1>1. hits \subseteq DOMAIN aliases /\ DOMAIN aliases \subseteq Nat
  BY LenProperties
<1>2. ApplyAlias(value, aliases, from, to) = IF hits = {} THEN value ELSE Leaf(aliases[Min(hits)][to])
  BY DEF ApplyAlias
<1> HIDE DEF hits
<1>3. ASSUME hits # {} PROVE Min(hits) \in hits
  <2>1. PICK n \in hits : \A m \in hits : ~(m < n)
    BY <1>1, <1>3, Least
  <2>2. \A m \in hits : n <= m
    BY <1>1, <2>1
  <2>3. QED
    BY <2>1, <2>2 DEF Min
<1>4. \A i \in DOMAIN aliases : aliases[i][to] \in Text
  <2>1. \A i \in DOMAIN aliases : aliases[i] \in [cr : Text, api : Text]
    BY ElementOfSeq, LenProperties
  <2>2. QED
    BY <2>1
<1>5. QED
  BY <1>1, <1>2, <1>3, <1>4, LeafIsDocument

(* A path without its first word is a path.                                *)
LEMMA BodyRelative ==
  ASSUME NEW path \in Paths
  PROVE  BodyRelativePath(path) \in Paths
BY EmptySeq, HeadTailProperties, LenProperties DEF BodyRelativePath, Paths

(* An entry of a mapping, by the sets it is made of.                       *)
LEMMA EntryIs ==
  ASSUME NEW entry, IsEntry(entry)
  PROVE  /\ entry.inCustomResource \in Paths /\ entry.inResponse \in Paths /\ entry.inBody \in Paths
         /\ entry.aliases \in Seq([cr : Text, api : Text])
         /\ entry.jq \in Programs \cup {"none", "missing"}
         /\ entry.default # NoDefault => entry.default \in Document
         /\ entry.resolver \in BOOLEAN
BY DocumentIs DEF IsEntry, Paths

(* A mapping is a sequence of entries.                                     *)
LEMMA MappingIs ==
  ASSUME NEW mapping, IsMapping(mapping)
  PROVE  /\ Len(mapping) \in Nat /\ DOMAIN mapping = 1..Len(mapping)
         /\ \A i \in DOMAIN mapping : IsEntry(mapping[i])
<1>1. mapping \in Seq(Range(mapping)) /\ \A i \in DOMAIN mapping : mapping[i] \in Range(mapping)
  BY DEF IsMapping, Range
<1>2. QED
  BY <1>1, LenProperties DEF IsMapping
-----------------------------------------------------------------------------
(* Reading an answer.                                                      *)

(* What an entry resolves to: a value with a place to go, or nothing.      *)
Resolutions ==
  [is : {"skip"}] \cup [is : {"error"}]
    \cup [is : {"entry"}, src : Paths, dst : Paths, val : Document]

(* Resolving an entry of a mapping comes to one of these.                  *)
LEMMA EntryResolves ==
  ASSUME NEW entry, IsEntry(entry), NEW body \in Document
  PROVE  ResolveResponseEntry(entry, body) \in Resolutions
<1> DEFINE Reads(src, dst, val) == [is |-> "entry", src |-> src, dst |-> dst, val |-> val]
           dst  == BodyRelativePath(entry.inCustomResource)
           walk == GetNestedField(body, entry.inResponse)
           value == Sub(body, walk.at)
           alias == ApplyAlias(value, entry.aliases, "api", "cr")
           out   == RunJq(entry.jq, value)
<1>1. /\ entry.inCustomResource \in Paths /\ entry.inResponse \in Paths
      /\ entry.aliases \in Seq([cr : Text, api : Text])
      /\ entry.jq \in Programs \cup {"none", "missing"}
      /\ entry.default # NoDefault => entry.default \in Document
  BY EntryIs
<1>2. dst \in Paths
  BY <1>1, BodyRelative
<1>3. walk \in [at : DOMAIN body, is : {"found", "error", "absent"}]
  BY <1>1, ReadWithinDocument
<1>4. value \in Document
  BY <1>3, SubIsDocument
<1>5. alias \in Document
  BY <1>1, <1>4, AliasMakesDocuments
<1>6. entry.jq \in Programs => out \in [ok : BOOLEAN, value : Document]
  BY <1>4, JqMakesDocuments
<1>7. \/ ResolveResponseEntry(entry, body) = [is |-> "skip"]
      \/ ResolveResponseEntry(entry, body) = [is |-> "error"]
      \/ /\ entry.default # NoDefault
         /\ ResolveResponseEntry(entry, body) = Reads(dst, dst, entry.default)
      \/ ResolveResponseEntry(entry, body) = Reads(entry.inResponse, dst, alias)
      \/ /\ entry.jq \in Programs
         /\ ResolveResponseEntry(entry, body) = Reads(entry.inResponse, dst, out.value)
  <2> HIDE DEF value, alias, out
  <2>1. walk.is \in {"found", "error", "absent"} /\ entry.jq \in Programs \cup {"none", "missing"}
    BY <1>1, <1>3
  <2>2. QED
    BY <2>1 DEF ResolveResponseEntry, value, alias, out
<1> HIDE DEF dst, walk, value, alias, out
<1>8. QED
  BY <1>1, <1>2, <1>4, <1>5, <1>6, <1>7 DEF Resolutions

(* Writing and removing keep an object an object.                          *)
LEMMA SetKeepsObjects ==
  ASSUME NEW doc \in Objects, NEW value \in Document, NEW path \in Paths
  PROVE  SetNestedField(doc, value, path) \in [ok : BOOLEAN, doc : Objects]
<1>1. doc \in Document /\ doc[<<>>] \in Containers
  BY DEF Objects, Containers
<1>2. QED
  BY <1>1, WritingKeepsDocument DEF Objects

(* Removing a field of an object leaves an object.                         *)
LEMMA RemovalKeepsObjects ==
  ASSUME NEW doc \in Objects, NEW path \in Paths
  PROVE  RemoveNestedField(doc, path) \in Objects
BY RemovalKeepsDocument DEF Objects

(* What is written into an object leaves it one.                           *)
LEMMA Writes ==
  ASSUME NEW body \in Objects, NEW resolved, Len(resolved) \in Nat, DOMAIN resolved = 1..Len(resolved),
         \A i \in DOMAIN resolved : resolved[i] \in Resolutions
  PROVE  Written(body, resolved) \in [ok : BOOLEAN, doc : Objects]
<1> DEFINE Step(w, r) ==
             IF w.ok /\ r.is = "entry" THEN SetNestedField(w.doc, r.val, r.dst) ELSE w
           base  == [ok |-> TRUE, doc |-> body]
           P(it) == it = [s \in SUBSET DOMAIN resolved |->
                            IF s = {} THEN base ELSE Step(it[s \ {Max(s)}], resolved[Max(s)])]
           ch == CHOOSE it : P(it)
           N  == Len(resolved)
           D  == [ok : BOOLEAN, doc : Objects]
           op == [pair \in D \X (1..N) |-> Step(pair[1], resolved[pair[2]])]
<1>1. Written(body, resolved) = ch[DOMAIN resolved]
  BY Zenon DEF Written, FoldLeft, MapThenFoldSet
<1>2. N \in Nat /\ DOMAIN resolved = 1..N
  OBVIOUS
<1>3. ASSUME NEW w \in D, NEW n \in 1..N
      PROVE  Step(w, resolved[n]) \in D
  <2> DEFINE r == resolved[n]
  <2>1. r \in Resolutions
    BY <1>2
  <2> HIDE DEF r
  <2>2. r.is = "entry" => r.val \in Document /\ r.dst \in Paths
    BY <2>1 DEF Resolutions
  <2>3. r.is = "entry" => SetNestedField(w.doc, r.val, r.dst) \in D
    BY <2>2, SetKeepsObjects
  <2>4. QED
    BY <2>3 DEF r
<1>4. base \in D
  OBVIOUS
<1> HIDE DEF Step, base, D
<1>5. op \in [D \X (1..N) -> D]
  BY <1>3
<1>6. \A d \in D, n \in 1..N : op[<<d, n>>] = Step(d, resolved[n])
  OBVIOUS
<1> HIDE DEF op, N
<1>7. PICK g \in [SUBSET (1..N) -> D] : Folds(g, N, base, op)
  BY <1>2, <1>4, <1>5, Folding, Zenon
<1>8. \A s \in SUBSET (1..N) : s # {} => Max(s) \in s /\ Max(s) \in 1..N
  <2>1. \A s \in SUBSET (1..N) : s # {} => Max(s) \in s
    BY <1>2, <1>4, <1>5, Folding, Zenon
  <2>2. QED
    BY <2>1
<1>9. P(g)
  <2>1. ASSUME NEW s \in SUBSET (1..N), s # {}
        PROVE  g[s] = Step(g[s \ {Max(s)}], resolved[Max(s)])
    <3>1. g[s \ {Max(s)}] \in D /\ Max(s) \in 1..N
      BY <1>8, <2>1
    <3>2. g[s] = op[<<g[s \ {Max(s)}], Max(s)>>]
      BY <1>7, <2>1 DEF Folds
    <3>3. QED
      BY <1>6, <3>1, <3>2
  <2>2. g[{}] = base
    BY <1>7 DEF Folds
  <2>3. QED
    BY <1>2, <2>1, <2>2
<1> HIDE DEF P
<1>10. P(ch)
  BY <1>9, Zenon
<1>11. ch[{}] = base /\ \A s \in SUBSET (1..N) : s # {} => ch[s] = Step(ch[s \ {Max(s)}], resolved[Max(s)])
  BY <1>2, <1>10 DEF P
<1> HIDE DEF ch
<1>12. FoldsWithin(ch, N, D, base, op)
  BY <1>6, <1>8, <1>11 DEF FoldsWithin
<1>13. ch[1..N] \in D
  BY <1>2, <1>4, <1>5, <1>12, FoldStays, Zenon
<1>14. QED
  BY <1>1, <1>2, <1>13 DEF D

(* What is lifted out of an object leaves it one.                          *)
LEMMA Lifts ==
  ASSUME NEW body \in Objects, NEW resolved, Len(resolved) \in Nat, DOMAIN resolved = 1..Len(resolved),
         \A i \in DOMAIN resolved : resolved[i] \in Resolutions
  PROVE  Lifted(body, resolved) \in Objects
<1> DEFINE Step(doc, r) ==
             IF r.is # "entry" \/ r.src \in Destinations(resolved) THEN doc
             ELSE RemoveNestedField(doc, r.src)
           base  == body
           P(it) == it = [s \in SUBSET DOMAIN resolved |->
                            IF s = {} THEN base ELSE Step(it[s \ {Max(s)}], resolved[Max(s)])]
           ch == CHOOSE it : P(it)
           N  == Len(resolved)
           D  == Objects
           op == [pair \in D \X (1..N) |-> Step(pair[1], resolved[pair[2]])]
<1>1. Lifted(body, resolved) = ch[DOMAIN resolved]
  BY Zenon DEF Lifted, FoldLeft, MapThenFoldSet
<1>2. N \in Nat /\ DOMAIN resolved = 1..N
  OBVIOUS
<1>3. ASSUME NEW doc \in D, NEW n \in 1..N
      PROVE  Step(doc, resolved[n]) \in D
  <2> DEFINE r == resolved[n]
  <2>1. r \in Resolutions
    BY <1>2
  <2> HIDE DEF r
  <2>2. r.is = "entry" => r.src \in Paths
    BY <2>1 DEF Resolutions
  <2>3. r.is = "entry" => RemoveNestedField(doc, r.src) \in D
    BY <2>2, RemovalKeepsObjects
  <2>4. QED
    BY <2>3 DEF r
<1>4. base \in D
  OBVIOUS
<1> HIDE DEF Step, base, D
<1>5. op \in [D \X (1..N) -> D]
  BY <1>3
<1>6. \A d \in D, n \in 1..N : op[<<d, n>>] = Step(d, resolved[n])
  OBVIOUS
<1> HIDE DEF op, N
<1>7. PICK g \in [SUBSET (1..N) -> D] : Folds(g, N, base, op)
  BY <1>2, <1>4, <1>5, Folding, Zenon
<1>8. \A s \in SUBSET (1..N) : s # {} => Max(s) \in s /\ Max(s) \in 1..N
  <2>1. \A s \in SUBSET (1..N) : s # {} => Max(s) \in s
    BY <1>2, <1>4, <1>5, Folding, Zenon
  <2>2. QED
    BY <2>1
<1>9. P(g)
  <2>1. ASSUME NEW s \in SUBSET (1..N), s # {}
        PROVE  g[s] = Step(g[s \ {Max(s)}], resolved[Max(s)])
    <3>1. g[s \ {Max(s)}] \in D /\ Max(s) \in 1..N
      BY <1>8, <2>1
    <3>2. g[s] = op[<<g[s \ {Max(s)}], Max(s)>>]
      BY <1>7, <2>1 DEF Folds
    <3>3. QED
      BY <1>6, <3>1, <3>2
  <2>2. g[{}] = base
    BY <1>7 DEF Folds
  <2>3. QED
    BY <1>2, <2>1, <2>2
<1> HIDE DEF P
<1>10. P(ch)
  BY <1>9, Zenon
<1>11. ch[{}] = base /\ \A s \in SUBSET (1..N) : s # {} => ch[s] = Step(ch[s \ {Max(s)}], resolved[Max(s)])
  BY <1>2, <1>10 DEF P
<1> HIDE DEF ch
<1>12. FoldsWithin(ch, N, D, base, op)
  BY <1>6, <1>8, <1>11 DEF FoldsWithin
<1>13. ch[1..N] \in D
  BY <1>2, <1>4, <1>5, <1>12, FoldStays, Zenon
<1>14. QED
  BY <1>1, <1>2, <1>13 DEF D

(* NormalizeResponseBody makes an object of an object, or fails.           *)
THEOREM NormalBodies ==
  ASSUME NEW transform \in Programs \cup {"none"}, NEW mapping, IsMapping(mapping), NEW body \in Objects
  PROVE  NormalizeResponseBody(transform, mapping, body) \in [ok : BOOLEAN, body : Objects]
<1> DEFINE start   == ApplyDocumentTransform(transform, body)
           Resolve(i) == IF i \in ResponseEntries(mapping)
                         THEN ResolveResponseEntry(mapping[i], start.body) ELSE [is |-> "skip"]
           resolved == [i \in DOMAIN mapping |-> Resolve(i)]
           written == Written(start.body, resolved)
           lifted  == Lifted(written.doc, resolved)
<1>1. start.ok \in BOOLEAN /\ (start.ok => start.body \in Objects)
  <2>1. CASE transform = "none"
    BY <2>1 DEF ApplyDocumentTransform
  <2>2. CASE transform # "none"
    <3> DEFINE out == RunJq(transform, body)
    <3>1. out \in [ok : BOOLEAN, value : Document]
      BY <2>2, JqMakesDocuments DEF Objects
    <3>2. start = [ok |-> out.ok /\ out.value[<<>>] = "map", body |-> out.value]
      BY <2>2 DEF ApplyDocumentTransform
    <3> HIDE DEF start, out
    <3>3. QED
      BY <3>1, <3>2 DEF Objects
  <2>3. QED
    BY <2>1, <2>2
<1>2. NormalizeResponseBody(transform, mapping, body) =
        IF ~start.ok \/ (\E i \in DOMAIN resolved : resolved[i].is = "error") \/ ~written.ok
        THEN [ok |-> FALSE, body |-> body]
        ELSE [ok |-> TRUE, body |-> lifted]
  BY DEF NormalizeResponseBody
<1> HIDE DEF start
<1>3. CASE start.ok
  <2>1. start.body \in Objects
    BY <1>1, <1>3
  <2>2. Len(mapping) \in Nat /\ DOMAIN mapping = 1..Len(mapping)
    BY MappingIs
  <2>3. \A i \in DOMAIN mapping : Resolve(i) \in Resolutions
    <3>1. [is |-> "skip"] \in Resolutions
      BY DEF Resolutions
    <3>2. \A i \in DOMAIN mapping : IsEntry(mapping[i])
      BY MappingIs
    <3>3. start.body \in Document
      BY <2>1 DEF Objects
    <3>4. QED
      BY <3>1, <3>2, <3>3, EntryResolves
  <2> HIDE DEF Resolve
  <2>4. resolved \in Seq(Resolutions)
    BY <2>2, <2>3
  <2>5. /\ Len(resolved) \in Nat /\ DOMAIN resolved = 1..Len(resolved)
        /\ \A i \in DOMAIN resolved : resolved[i] \in Resolutions
    <3> HIDE DEF resolved
    <3>1. QED
      BY <2>4, LenProperties, ElementOfSeq
  <2> HIDE DEF resolved
  <2>6. written \in [ok : BOOLEAN, doc : Objects]
    BY <2>1, <2>5, Writes
  <2> HIDE DEF written
  <2>7. lifted \in Objects
    BY <2>5, <2>6, Lifts
  <2> HIDE DEF lifted
  <2>8. QED
    BY <1>2, <2>7
<1>4. CASE ~start.ok
  BY <1>2, <1>4
<1>5. QED
  BY <1>1, <1>3, <1>4
-----------------------------------------------------------------------------
(* Mirroring in the status, and building a request.                        *)

(* What is mirrored in the status leaves the CR an object.                 *)
LEMMA Mirrors ==
  ASSUME NEW doc \in Objects, NEW body \in Objects, def.statusFields \in Seq(Paths)
  PROVE  PopulateStatusFields(doc, body) \in [ok : BOOLEAN, doc : Objects]
<1> DEFINE Step(w, path) ==
             LET place == <<"status">> \o path
                 open  == \A n \in 0..Len(path) :
                            SubSeq(place, 1, n) \in DOMAIN w.doc => w.doc[SubSeq(place, 1, n)] = "map"
             IN  CASE ~w.ok \/ ~FoundInMaps(body, path) -> w
                   [] OTHER -> IF open THEN SetNestedField(w.doc, Sub(body, path), place)
                               ELSE [w EXCEPT !.ok = FALSE]
           base  == [ok |-> TRUE, doc |-> doc]
           P(it) == it = [s \in SUBSET DOMAIN def.statusFields |->
                            IF s = {} THEN base ELSE Step(it[s \ {Max(s)}], def.statusFields[Max(s)])]
           ch == CHOOSE it : P(it)
           N  == Len(def.statusFields)
           D  == [ok : BOOLEAN, doc : Objects]
           op == [pair \in D \X (1..N) |-> Step(pair[1], def.statusFields[pair[2]])]
<1>1. PopulateStatusFields(doc, body) = ch[DOMAIN def.statusFields]
  BY Zenon DEF PopulateStatusFields, FoldLeft, MapThenFoldSet
<1>2. N \in Nat /\ DOMAIN def.statusFields = 1..N
  BY LenProperties
<1>3. ASSUME NEW w \in D, NEW n \in 1..N
      PROVE  Step(w, def.statusFields[n]) \in D
  <2> DEFINE path  == def.statusFields[n]
             place == <<"status">> \o path
             set   == SetNestedField(w.doc, Sub(body, path), place)
  <2>1. path \in Paths
    BY <1>2, ElementOfSeq
  <2>2. place \in Paths
    BY <2>1, Words, TopField, PrefixOfConcat
  <2>3. FoundInMaps(body, path) => set \in D
    <3>1. FoundInMaps(body, path) => Sub(body, path) \in Document
      BY SubIsDocument DEF FoundInMaps, Objects
    <3> HIDE DEF path, place
    <3>2. QED
      BY <2>2, <3>1, SetKeepsObjects
  <2>4. \/ Step(w, path) = w
        \/ FoundInMaps(body, path) /\ Step(w, path) = set
        \/ Step(w, path) = [w EXCEPT !.ok = FALSE]
    OBVIOUS
  <2> HIDE DEF Step, path, set
  <2>5. [w EXCEPT !.ok = FALSE] \in D
    OBVIOUS
  <2> HIDE DEF D
  <2>6. QED
    BY <2>3, <2>4, <2>5 DEF path
<1>4. base \in D
  OBVIOUS
<1> HIDE DEF Step, base, D
<1>5. op \in [D \X (1..N) -> D]
  BY <1>3
<1>6. \A d \in D, n \in 1..N : op[<<d, n>>] = Step(d, def.statusFields[n])
  OBVIOUS
<1> HIDE DEF op, N
<1>7. PICK g \in [SUBSET (1..N) -> D] : Folds(g, N, base, op)
  BY <1>2, <1>4, <1>5, Folding, Zenon
<1>8. \A s \in SUBSET (1..N) : s # {} => Max(s) \in s /\ Max(s) \in 1..N
  <2>1. \A s \in SUBSET (1..N) : s # {} => Max(s) \in s
    BY <1>2, <1>4, <1>5, Folding, Zenon
  <2>2. QED
    BY <2>1
<1>9. P(g)
  <2>1. ASSUME NEW s \in SUBSET (1..N), s # {}
        PROVE  g[s] = Step(g[s \ {Max(s)}], def.statusFields[Max(s)])
    <3>1. g[s \ {Max(s)}] \in D /\ Max(s) \in 1..N
      BY <1>8, <2>1
    <3>2. g[s] = op[<<g[s \ {Max(s)}], Max(s)>>]
      BY <1>7, <2>1 DEF Folds
    <3>3. QED
      BY <1>6, <3>1, <3>2
  <2>2. g[{}] = base
    BY <1>7 DEF Folds
  <2>3. QED
    BY <1>2, <2>1, <2>2
<1> HIDE DEF P
<1>10. P(ch)
  BY <1>9, Zenon
<1>11. ch[{}] = base /\ \A s \in SUBSET (1..N) : s # {} => ch[s] = Step(ch[s \ {Max(s)}], def.statusFields[Max(s)])
  BY <1>2, <1>10 DEF P
<1> HIDE DEF ch
<1>12. FoldsWithin(ch, N, D, base, op)
  BY <1>6, <1>8, <1>11 DEF FoldsWithin
<1>13. ch[1..N] \in D
  BY <1>2, <1>4, <1>5, <1>12, FoldStays, Zenon
<1>14. QED
  BY <1>1, <1>2, <1>13 DEF D

(* What ApplyFieldMapping makes of a body with one entry.                  *)
MapEntry(body, doc, entry, resolved) ==
  LET known == IF entry.resolver THEN resolved ELSE Found(doc, entry.inCustomResource)
      value == IF entry.resolver THEN Leaf(SecretValue) ELSE Value(doc, entry.inCustomResource)
  IN  IF entry.inBody = <<>> \/ ~known \/ entry.jq # "none" THEN body
      ELSE SetNestedField(body, ApplyAlias(value, entry.aliases, "cr", "api"), entry.inBody).doc

(* An entry leaves the body an object.                                     *)
LEMMA MapEntryIs ==
  ASSUME NEW body \in Objects, NEW doc \in Document, NEW entry, IsEntry(entry), NEW resolved
  PROVE  MapEntry(body, doc, entry, resolved) \in Objects
<1> DEFINE value == IF entry.resolver THEN Leaf(SecretValue) ELSE Value(doc, entry.inCustomResource)
           alias == ApplyAlias(value, entry.aliases, "cr", "api")
           set   == SetNestedField(body, alias, entry.inBody)
<1>1. /\ entry.inCustomResource \in Paths /\ entry.inBody \in Paths
      /\ entry.aliases \in Seq([cr : Text, api : Text])
  BY EntryIs
<1>2. value \in Document
  BY <1>1, Words, LeafIsDocument, ValueIsDocument
<1> HIDE DEF value
<1>3. alias \in Document
  BY <1>1, <1>2, AliasMakesDocuments
<1> HIDE DEF alias
<1>4. set \in [ok : BOOLEAN, doc : Objects]
  BY <1>1, <1>3, SetKeepsObjects
<1> HIDE DEF set
<1>5. set.doc \in Objects
  BY <1>4
<1>6. MapEntry(body, doc, entry, resolved) = body \/ MapEntry(body, doc, entry, resolved) = set.doc
  BY DEF MapEntry, value, alias, set
<1>7. QED
  BY <1>5, <1>6

(* A way from body to what ApplyFieldMapping makes of it, entry by entry.  *)
MapsAlong(way, body, doc, mapping, resolved) ==
  /\ way[0] = body /\ way[Len(mapping)] = ApplyFieldMapping(body, doc, mapping, resolved)
  /\ \A n \in 1..Len(mapping) : way[n] = MapEntry(way[n - 1], doc, mapping[n], resolved)

(* ApplyFieldMapping goes entry by entry.                                  *)
LEMMA Mapping ==
  ASSUME NEW body \in Objects, NEW doc \in Document, NEW mapping, IsMapping(mapping), NEW resolved
  PROVE  \E way \in [0..Len(mapping) -> Objects] : MapsAlong(way, body, doc, mapping, resolved)
<1> DEFINE Step(d, entry) == MapEntry(d, doc, entry, resolved)
           base  == body
           P(it) == it = [s \in SUBSET DOMAIN mapping |->
                            IF s = {} THEN base ELSE Step(it[s \ {Max(s)}], mapping[Max(s)])]
           ch == CHOOSE it : P(it)
           N  == Len(mapping)
           D  == Objects
           op == [pair \in D \X (1..N) |-> Step(pair[1], mapping[pair[2]])]
<1>1. ApplyFieldMapping(body, doc, mapping, resolved) = ch[DOMAIN mapping]
  BY Zenon DEF ApplyFieldMapping, FoldLeft, MapThenFoldSet, MapEntry
<1>2. N \in Nat /\ DOMAIN mapping = 1..N
  BY MappingIs
<1>3. ASSUME NEW d \in D, NEW n \in 1..N
      PROVE  Step(d, mapping[n]) \in D
  BY <1>2, MappingIs, MapEntryIs
<1>4. base \in D
  OBVIOUS
<1> HIDE DEF Step, base, D
<1>5. op \in [D \X (1..N) -> D]
  BY <1>3
<1>6. \A d \in D, n \in 1..N : op[<<d, n>>] = Step(d, mapping[n])
  OBVIOUS
<1> HIDE DEF op, N
<1>7. PICK g \in [SUBSET (1..N) -> D] : Folds(g, N, base, op)
  BY <1>2, <1>4, <1>5, Folding, Zenon
<1>8. \A s \in SUBSET (1..N) : s # {} => Max(s) \in s /\ Max(s) \in 1..N
  <2>1. \A s \in SUBSET (1..N) : s # {} => Max(s) \in s
    BY <1>2, <1>4, <1>5, Folding, Zenon
  <2>2. QED
    BY <2>1
<1>9. P(g)
  <2>1. ASSUME NEW s \in SUBSET (1..N), s # {}
        PROVE  g[s] = Step(g[s \ {Max(s)}], mapping[Max(s)])
    <3>1. g[s \ {Max(s)}] \in D /\ Max(s) \in 1..N
      BY <1>8, <2>1
    <3>2. g[s] = op[<<g[s \ {Max(s)}], Max(s)>>]
      BY <1>7, <2>1 DEF Folds
    <3>3. QED
      BY <1>6, <3>1, <3>2
  <2>2. g[{}] = base
    BY <1>7 DEF Folds
  <2>3. QED
    BY <1>2, <2>1, <2>2
<1> HIDE DEF P
<1>10. P(ch)
  BY <1>9, Zenon
<1>11. ch[{}] = base /\ \A s \in SUBSET (1..N) : s # {} => ch[s] = Step(ch[s \ {Max(s)}], mapping[Max(s)])
  BY <1>2, <1>10 DEF P
<1> HIDE DEF ch
<1>12. FoldsWithin(ch, N, D, base, op)
  BY <1>6, <1>8, <1>11 DEF FoldsWithin
<1>13. PICK way \in [0..N -> D] : Leads(way, N, base, op, ch[1..N])
  BY <1>2, <1>4, <1>5, <1>12, FoldSteps, Zenon
<1>14. \A n \in 1..N : way[n] = Step(way[n - 1], mapping[n])
  <2>1. \A n \in 1..N : n - 1 \in 0..N
    BY <1>2
  <2>2. QED
    BY <1>6, <1>13, <2>1 DEF Leads
<1>15. way[0] = base /\ way[N] = ch[1..N]
  BY <1>13 DEF Leads
<1>16. ApplyFieldMapping(body, doc, mapping, resolved) = way[N]
  BY <1>1, <1>2, <1>15
<1>17. MapsAlong(way, body, doc, mapping, resolved)
  BY <1>14, <1>15, <1>16 DEF Step, base, N, MapsAlong
<1>18. QED
  BY <1>17 DEF D, N

(* What a mapping writes into a body leaves it an object.                  *)
LEMMA MapsRequest ==
  ASSUME NEW body \in Objects, NEW doc \in Document, NEW mapping, IsMapping(mapping), NEW resolved
  PROVE  ApplyFieldMapping(body, doc, mapping, resolved) \in Objects
<1>1. PICK way \in [0..Len(mapping) -> Objects] :
        MapsAlong(way, body, doc, mapping, resolved)
  BY Mapping
<1>2. Len(mapping) \in 0..Len(mapping)
  BY MappingIs
<1>3. QED
  BY <1>1, <1>2 DEF MapsAlong

(* What StripResolverSources makes of a body with one entry.               *)
StripEntry(body, entry) ==
  IF entry.resolver THEN RemoveNestedField(body, BodyRelativePath(entry.inCustomResource)) ELSE body

(* StripResolverSources goes entry by entry.                               *)
LEMMA Stripping ==
  ASSUME NEW body \in Objects, NEW mapping, IsMapping(mapping)
  PROVE  \E way \in [0..Len(mapping) -> Objects] :
           /\ way[0] = body /\ way[Len(mapping)] = StripResolverSources(body, mapping)
           /\ \A n \in 1..Len(mapping) : way[n] = StripEntry(way[n - 1], mapping[n])
<1> DEFINE Step(d, entry) == StripEntry(d, entry)
           base  == body
           P(it) == it = [s \in SUBSET DOMAIN mapping |->
                            IF s = {} THEN base ELSE Step(it[s \ {Max(s)}], mapping[Max(s)])]
           ch == CHOOSE it : P(it)
           N  == Len(mapping)
           D  == Objects
           op == [pair \in D \X (1..N) |-> Step(pair[1], mapping[pair[2]])]
<1>1. StripResolverSources(body, mapping) = ch[DOMAIN mapping]
  BY Zenon DEF StripResolverSources, FoldLeft, MapThenFoldSet, StripEntry
<1>2. N \in Nat /\ DOMAIN mapping = 1..N
  BY MappingIs
<1>3. ASSUME NEW d \in D, NEW n \in 1..N
      PROVE  Step(d, mapping[n]) \in D
  <2> DEFINE entry == mapping[n]
             path  == BodyRelativePath(entry.inCustomResource)
  <2>1. IsEntry(entry)
    BY <1>2, MappingIs
  <2> HIDE DEF entry
  <2>2. path \in Paths
    BY <2>1, EntryIs, BodyRelative
  <2>3. RemoveNestedField(d, path) \in D
    BY <2>2, RemovalKeepsObjects
  <2>4. QED
    BY <2>3 DEF entry, StripEntry
<1>4. base \in D
  OBVIOUS
<1> HIDE DEF Step, base, D
<1>5. op \in [D \X (1..N) -> D]
  BY <1>3
<1>6. \A d \in D, n \in 1..N : op[<<d, n>>] = Step(d, mapping[n])
  OBVIOUS
<1> HIDE DEF op, N
<1>7. PICK g \in [SUBSET (1..N) -> D] : Folds(g, N, base, op)
  BY <1>2, <1>4, <1>5, Folding, Zenon
<1>8. \A s \in SUBSET (1..N) : s # {} => Max(s) \in s /\ Max(s) \in 1..N
  <2>1. \A s \in SUBSET (1..N) : s # {} => Max(s) \in s
    BY <1>2, <1>4, <1>5, Folding, Zenon
  <2>2. QED
    BY <2>1
<1>9. P(g)
  <2>1. ASSUME NEW s \in SUBSET (1..N), s # {}
        PROVE  g[s] = Step(g[s \ {Max(s)}], mapping[Max(s)])
    <3>1. g[s \ {Max(s)}] \in D /\ Max(s) \in 1..N
      BY <1>8, <2>1
    <3>2. g[s] = op[<<g[s \ {Max(s)}], Max(s)>>]
      BY <1>7, <2>1 DEF Folds
    <3>3. QED
      BY <1>6, <3>1, <3>2
  <2>2. g[{}] = base
    BY <1>7 DEF Folds
  <2>3. QED
    BY <1>2, <2>1, <2>2
<1> HIDE DEF P
<1>10. P(ch)
  BY <1>9, Zenon
<1>11. ch[{}] = base /\ \A s \in SUBSET (1..N) : s # {} => ch[s] = Step(ch[s \ {Max(s)}], mapping[Max(s)])
  BY <1>2, <1>10 DEF P
<1> HIDE DEF ch
<1>12. FoldsWithin(ch, N, D, base, op)
  BY <1>6, <1>8, <1>11 DEF FoldsWithin
<1>13. PICK way \in [0..N -> D] : Leads(way, N, base, op, ch[1..N])
  BY <1>2, <1>4, <1>5, <1>12, FoldSteps, Zenon
<1>14. \A n \in 1..N : way[n] = Step(way[n - 1], mapping[n])
  <2>1. \A n \in 1..N : n - 1 \in 0..N
    BY <1>2
  <2>2. QED
    BY <1>6, <1>13, <2>1 DEF Leads
<1>15. way[0] = base /\ way[N] = ch[1..N]
  BY <1>13 DEF Leads
<1>16. StripResolverSources(body, mapping) = way[N]
  BY <1>1, <1>2, <1>15
<1>17. QED
  BY <1>14, <1>15, <1>16 DEF Step, base, D, N

(* What is stripped from a body leaves it an object.                       *)
LEMMA Strips ==
  ASSUME NEW body \in Objects, NEW mapping, IsMapping(mapping)
  PROVE  StripResolverSources(body, mapping) \in Objects
<1>1. PICK way \in [0..Len(mapping) -> Objects] : way[Len(mapping)] = StripResolverSources(body, mapping)
  BY Stripping
<1>2. Len(mapping) \in 0..Len(mapping)
  BY MappingIs
<1>3. QED
  BY <1>1, <1>2

(* The fields of S are those of a, and the others those of b.              *)
MadeOf(m, a, b, S) ==
  \A p \in Paths \ {<<>>} :
    /\ p[1] \in S => (p \in DOMAIN m <=> p \in DOMAIN a) /\ (p \in DOMAIN a => m[p] = a[p])
    /\ p[1] \notin S => (p \in DOMAIN m <=> p \in DOMAIN b) /\ (p \in DOMAIN b => m[p] = b[p])

(* An object made of the fields of two documents is one.                   *)
LEMMA Spliced ==
  ASSUME NEW a \in Document, NEW b \in Document, NEW S, NEW m \in Trees,
         <<>> \in DOMAIN m, m[<<>>] = "map", MadeOf(m, a, b, S)
  PROVE  m \in Objects
<1>1. ASSUME NEW q \in Paths, NEW s \in Text, Append(q, s) \in DOMAIN m
      PROVE  Hangs(m, q, s)
  <2>1. CASE q = <<>>
    BY <2>1 DEF Hangs, Containers
  <2>2. CASE q # <<>>
    <3>1. \A t \in Text : Append(q, t) \in Paths \ {<<>>} /\ Append(q, t)[1] = q[1]
      <4>1. Len(q) \in Nat \ {0}
        BY <2>2, LenProperties, EmptySeq DEF Paths
      <4>2. QED
        BY <4>1, AppendProperties, FrontLastOfAppend DEF Paths
    <3>2. UpTo(s) \subseteq Text
      BY SegmentOfIndex DEF UpTo
    <3>3. CASE q[1] \in S
      <4>1. Hangs(a, q, s)
        BY <1>1, <3>1, <3>3, WellFormedness DEF Document, MadeOf
      <4>2. q \in DOMAIN m /\ m[q] = a[q]
        BY <2>2, <3>3, <4>1 DEF Hangs, MadeOf
      <4>3. \A t \in Text : Append(q, t) \in DOMAIN a => Append(q, t) \in DOMAIN m
        BY <3>1, <3>3 DEF MadeOf
      <4>4. QED
        BY <3>2, <4>1, <4>2, <4>3 DEF Hangs
    <3>4. CASE q[1] \notin S
      <4>1. Hangs(b, q, s)
        BY <1>1, <3>1, <3>4, WellFormedness DEF Document, MadeOf
      <4>2. q \in DOMAIN m /\ m[q] = b[q]
        BY <2>2, <3>4, <4>1 DEF Hangs, MadeOf
      <4>3. \A t \in Text : Append(q, t) \in DOMAIN b => Append(q, t) \in DOMAIN m
        BY <3>1, <3>4 DEF MadeOf
      <4>4. QED
        BY <3>2, <4>1, <4>2, <4>3 DEF Hangs
    <3>5. QED
      BY <3>3, <3>4
  <2>3. QED
    BY <2>1, <2>2
<1>2. WellFormed(m)
  BY <1>1, WellFormedness
<1>3. QED
  BY <1>2 DEF Objects, Document

(* processFields leaves the body an object.                                *)
LEMMA ProcessedBody ==
  ASSUME NEW body \in Objects, NEW fields \in Document, NEW names
  PROVE  ProcessFields(body, fields, names) \in Objects
<1> DEFINE taken == {f \in names : /\ <<f>> \in DOMAIN fields
                                   /\ <<f>> \notin DOMAIN body \/ body[<<f>>] = "null"}
           Of(doc, S) == {p \in DOMAIN doc : p # <<>> /\ p[1] \in S}
           new  == Of(fields, taken)
           kept == DOMAIN body \ Of(body, taken)
           m    == [p \in kept \cup new |-> IF p \in new THEN fields[p] ELSE body[p]]
<1>1. ProcessFields(body, fields, names) = m
  BY DEF ProcessFields
<1> HIDE DEF taken
<1>2. /\ body \in Document /\ body[<<>>] = "map" /\ <<>> \in DOMAIN body
      /\ DOMAIN body \subseteq Paths /\ \A p \in DOMAIN body : body[p] \in Text
      /\ DOMAIN fields \subseteq Paths /\ \A p \in DOMAIN fields : fields[p] \in Text
  BY WellFormedness DEF Objects, Document, Trees
<1>3. m \in Trees
  <2>1. kept \cup new \in SUBSET Paths
    BY <1>2
  <2>2. m \in [kept \cup new -> Text]
    BY <1>2
  <2> HIDE DEF m, kept, new
  <2>3. QED
    BY <2>1, <2>2 DEF Trees
<1>4. <<>> \in DOMAIN m /\ m[<<>>] = "map"
  BY <1>2
<1>5. MadeOf(m, fields, body, taken)
  BY DEF MadeOf
<1> HIDE DEF m
<1>6. QED
  BY <1>1, <1>2, <1>3, <1>4, <1>5, Spliced

(* The body of an update is an object.                                     *)
THEOREM RequestBodies ==
  ASSUME NEW doc \in Objects, NEW names, NEW mapping, IsMapping(mapping), NEW resolved
  PROVE  BuildBody(doc, names, mapping, resolved) \in Objects
<1>1. doc \in Document
  BY DEF Objects
<1>2. \A part : Fields(doc, part) \in Document
  BY <1>1, EmptyObject, SubIsDocument DEF Fields, Objects
<1>3. ProcessFields(Leaf("map"), Fields(doc, "spec"), names) \in Objects
  BY <1>2, EmptyObject, ProcessedBody
<1>4. ProcessFields(ProcessFields(Leaf("map"), Fields(doc, "spec"), names), Fields(doc, "status"), names) \in Objects
  BY <1>2, <1>3, ProcessedBody
<1>5. QED
  BY <1>1, <1>4, MapsRequest, Strips DEF BuildBody
-----------------------------------------------------------------------------
(* The service.                                                            *)

(* What is sent replaces fields and leaves the resource an object.         *)
LEMMA PatchedResource ==
  ASSUME NEW doc \in Objects, NEW body \in Objects
  PROVE  Patched(doc, body) \in Objects
<1> DEFINE names  == {p[1] : p \in DOMAIN body \ {<<>>}}
           others == {p \in DOMAIN doc : p = <<>> \/ p[1] \notin names}
           m      == [p \in DOMAIN body \cup others |-> IF p \in DOMAIN body THEN body[p] ELSE doc[p]]
<1>1. Patched(doc, body) = m
  BY DEF Patched
<1>2. /\ body \in Document /\ body[<<>>] = "map" /\ <<>> \in DOMAIN body /\ doc \in Document
      /\ DOMAIN body \subseteq Paths /\ \A p \in DOMAIN body : body[p] \in Text
      /\ DOMAIN doc \subseteq Paths /\ \A p \in DOMAIN doc : doc[p] \in Text
  BY WellFormedness DEF Objects, Document, Trees
<1>3. m \in Trees
  <2>1. DOMAIN body \cup others \in SUBSET Paths
    BY <1>2
  <2>2. m \in [DOMAIN body \cup others -> Text]
    BY <1>2
  <2> HIDE DEF m, others
  <2>3. QED
    BY <2>1, <2>2 DEF Trees
<1>4. <<>> \in DOMAIN m /\ m[<<>>] = "map"
  BY <1>2
<1>5. \A p \in DOMAIN body \ {<<>>} : p[1] \in names
  OBVIOUS
<1> HIDE DEF names
<1>6. MadeOf(m, body, doc, names)
  BY <1>5 DEF MadeOf
<1> HIDE DEF m
<1>7. QED
  BY <1>1, <1>2, <1>3, <1>4, <1>6, Spliced

(* The same of an envelope that has nothing in it.                         *)
LEMMA PatchedByNothing ==
  ASSUME NEW doc \in Objects, NEW body, DOMAIN body = {}
  PROVE  Patched(doc, body) \in Objects
<1>1. doc = [p \in DOMAIN doc |-> doc[p]]
  BY DEF Objects, Document, Trees
<1>2. Patched(doc, body) = doc
  BY <1>1 DEF Patched
<1>3. QED
  BY <1>2

(* What the service answers with is an object.                             *)
LEMMA AnsweredObjects ==
  ASSUME IsDefinition(def), NEW doc \in Objects
  PROVE  Answer(doc) \in Objects
<1> DEFINE told == [p \in {q \in DOMAIN doc : ~\E path \in def.writeOnly : IsPrefix(path, q)} |-> doc[p]]
<1>1. /\ doc \in Document /\ doc[<<>>] = "map" /\ <<>> \in DOMAIN doc /\ doc \in Trees
      /\ DOMAIN doc \subseteq Paths /\ \A p \in DOMAIN doc : doc[p] \in Text
  BY WellFormedness DEF Objects, Document, Trees
<1>2. \A path \in def.writeOnly : path \in Paths \ {<<>>} /\ Last(path) \notin DOMAIN IndexOf
  BY DEF IsDefinition, Paths
<1>3. told \in Trees
  <2>1. DOMAIN told \in SUBSET Paths
    BY <1>1
  <2>2. told \in [DOMAIN told -> Text]
    BY <1>1
  <2> HIDE DEF told
  <2>3. QED
    BY <2>1, <2>2 DEF Trees
<1>4. <<>> \in DOMAIN told /\ told[<<>>] = "map"
  BY <1>1, <1>2, PrefixOfEmpty
<1>5. ASSUME NEW q \in Paths, NEW s \in Text, Append(q, s) \in DOMAIN told
      PROVE  Hangs(told, q, s)
  <2>1. Hangs(doc, q, s)
    BY <1>1, <1>5, WellFormedness DEF Document
  <2>2. \A path \in def.writeOnly : ~IsPrefix(path, Append(q, s))
    BY <1>5
  <2>3. \A path \in def.writeOnly : ~IsPrefix(path, q)
    BY <1>2, <2>2, PrefixOfAppend
  <2>4. q \in DOMAIN told /\ told[q] = doc[q]
    BY <2>1, <2>3 DEF Hangs
  <2>5. ASSUME doc[q] = "list", NEW t \in UpTo(s)
        PROVE  Append(q, t) \in DOMAIN told
    <3>1. t \in Text /\ t \in DOMAIN IndexOf /\ Append(q, t) \in DOMAIN doc
      BY <2>1, <2>5, SegmentsAssumption DEF Hangs, UpTo
    <3>2. ASSUME NEW path \in def.writeOnly PROVE ~IsPrefix(path, Append(q, t))
      <4>1. path # Append(q, t)
        <5>1. Last(Append(q, t)) = t
          BY <3>1, FrontLastOfAppend
        <5>2. QED
          BY <1>2, <3>1, <5>1
      <4>2. QED
        BY <1>2, <2>3, <3>1, <4>1, PrefixOfAppend
    <3>3. QED
      BY <3>1, <3>2
  <2> HIDE DEF told
  <2>6. QED
    BY <2>1, <2>4, <2>5 DEF Hangs
<1>6. told \in Objects
  <2> HIDE DEF told
  <2>1. WellFormed(told)
    BY <1>3, <1>4, <1>5, WellFormedness
  <2>2. QED
    BY <1>3, <1>4, <2>1 DEF Objects, Document
<1>7. Answer(doc) = IF def.wraps THEN Put(Leaf("map"), <<"data">>, told) ELSE told
  BY DEF Answer, Envelope
<1> HIDE DEF told
<1>8. Put(Leaf("map"), <<"data">>, told) \in Objects
  <2>1. "data" \in Text /\ Leaf("map") \in Objects /\ told \in Document
    BY <1>6, Words, EmptyObject DEF Objects
  <2>2. QED
    BY <2>1, PutAtTop
<1>9. QED
  BY <1>6, <1>7, <1>8

(* What an update sends, and what the service makes of it.                 *)
LEMMA SentObjects ==
  ASSUME IsDefinition(def), NEW body \in Objects, NEW doc \in Objects,
         ApplyRequestTransform(def.requestTransform, body).ok
  PROVE  /\ ApplyRequestTransform(def.requestTransform, body).value \in Objects
         /\ Patched(doc, Contents(ApplyRequestTransform(def.requestTransform, body).value)) \in Objects
<1> DEFINE program == def.requestTransform
           out == ApplyRequestTransform(program, body)
           inside == Sub(out.value, <<"data">>)
<1>1. program \in {"none", "wrap", "fails"} /\ def.wraps \in BOOLEAN /\ (def.wraps => program # "none")
  BY DEF IsDefinition
<1>2. "data" \in Text /\ <<"data">> \in Paths
  BY Words, TopField
<1>3. CASE program = "none" \/ DOMAIN body = {<<>>}
  <2>1. out.value = body
    BY <1>3 DEF ApplyRequestTransform
  <2>2. ASSUME def.wraps PROVE DOMAIN inside = {}
    <3>1. DOMAIN body = {<<>>} /\ body \in Trees
      BY <1>1, <1>3, <2>2 DEF Objects, Document
    <3>2. \A r \in Paths : IsPrefix(<<"data">>, <<"data">> \o r)
      BY <1>2, PrefixOfConcat
    <3>3. ~IsPrefix(<<"data">>, <<>>)
      BY <1>2, PrefixOfEmpty
    <3>4. inside \in Trees /\ \A r \in Paths : r \in DOMAIN inside <=> <<"data">> \o r \in DOMAIN body
      BY <1>2, <2>1, <3>1, SubIs
    <3>5. DOMAIN inside \subseteq Paths
      BY <3>4 DEF Trees
    <3> HIDE DEF inside, out
    <3>6. QED
      BY <3>1, <3>2, <3>3, <3>4, <3>5
  <2>3. Contents(out.value) = IF def.wraps THEN inside ELSE body
    BY <2>1 DEF Contents
  <2> HIDE DEF inside, out
  <2>4. Patched(doc, Contents(out.value)) \in Objects
    BY <2>2, <2>3, PatchedResource, PatchedByNothing
  <2>5. QED
    BY <2>1, <2>4 DEF out
<1>4. CASE program = "wrap" /\ DOMAIN body # {<<>>}
  <2>1. out = RunJq("wrap", body)
    BY <1>4 DEF ApplyRequestTransform
  <2>2. out.value = Put(Leaf("map"), <<"data">>, body)
    BY <2>1 DEF RunJq
  <2>3. <<"data">> = Append(<<>>, "data") /\ Leaf("map") \in Objects /\ Hangs(Leaf("map"), <<>>, "data") /\ <<>> \in Paths
    BY <1>2, TopField, EmptyObject
  <2>4. body \in Document /\ body[<<>>] = "map" /\ Leaf("map") \in Document /\ Leaf("map")[<<>>] = "map"
    BY <2>3 DEF Objects
  <2> HIDE DEF out
  <2>5. /\ Put(Leaf("map"), Append(<<>>, "data"), body) \in Document
        /\ Put(Leaf("map"), Append(<<>>, "data"), body)[<<>>] = Leaf("map")[<<>>]
        /\ Append(<<>>, "data") \in DOMAIN Put(Leaf("map"), Append(<<>>, "data"), body)
        /\ Put(Leaf("map"), Append(<<>>, "data"), body)[Append(<<>>, "data")] = body[<<>>]
    BY <1>2, <2>3, <2>4, PutIsDocument
  <2>6. /\ out.value \in Document /\ out.value[<<>>] = "map"
        /\ <<"data">> \in DOMAIN out.value /\ out.value[<<"data">>] = "map"
    BY <2>2, <2>3, <2>4, <2>5, Zenon
  <2>7. out.value \in Objects /\ inside \in Objects
    BY <2>6, SubIsDocument DEF Objects
  <2>8. Contents(out.value) \in Objects
    BY <2>7 DEF Contents
  <2>9. Patched(doc, Contents(out.value)) \in Objects
    BY <2>8, PatchedResource
  <2>10. QED
    BY <2>7, <2>9 DEF out
<1>5. CASE program = "fails" /\ DOMAIN body # {<<>>}
  BY <1>5 DEF ApplyRequestTransform, RunJq
<1>6. QED
  BY <1>1, <1>3, <1>4, <1>5
-----------------------------------------------------------------------------
(* What a Secret holds, on its way into the body.                          *)

(* What holds at one of the steps and is kept by the later ones holds at   *)
(* the last.                                                               *)
LEMMA Onwards ==
  ASSUME NEW N \in Nat, NEW i \in 0..N, NEW T \in SUBSET (0..N), i \in T,
         \A n \in 1..N : n > i /\ n - 1 \in T => n \in T
  PROVE  N \in T
<1> DEFINE U == {n \in 0..N : n >= i => n \in T}
<1>1. 0 \in U
  OBVIOUS
<1>2. \A n \in 1..N : n - 1 \in U => n \in U
  <2>1. ASSUME NEW n \in 1..N, n - 1 \in U, n > i
        PROVE  n \in T
    <3>1. n - 1 \in T
      BY <2>1
    <3>2. QED
      BY <2>1, <3>1
  <2>2. QED
    BY <2>1
<1>3. U \in SUBSET (0..N)
  OBVIOUS
<1> HIDE DEF U
<1>4. U = 0..N
  BY <1>1, <1>2, <1>3, UpToN
<1>5. N \in U
  BY <1>4
<1>6. QED
  BY <1>5 DEF U

Holds(body, path) == path \in DOMAIN body /\ body[path] = SecretValue

(* The entry of a Secret writes what the Secret holds.                     *)
LEMMA SecretIsWritten ==
  ASSUME NEW body \in Objects, NEW doc, NEW entry, IsEntry(entry), OnlyFields(entry.inBody),
         entry.resolver, entry.jq = "none", entry.aliases = <<>>
  PROVE  Holds(MapEntry(body, doc, entry, TRUE), entry.inBody)
<1> DEFINE path == entry.inBody
           set  == SetNestedField(body, Leaf(SecretValue), path)
<1>1. path \in Paths /\ path # <<>>
  BY EntryIs DEF OnlyFields
<1>2. ApplyAlias(Leaf(SecretValue), entry.aliases, "cr", "api") = Leaf(SecretValue)
  BY DEF ApplyAlias
<1>3. MapEntry(body, doc, entry, TRUE) = set.doc
  BY <1>1, <1>2 DEF MapEntry
<1>4. Leaf(SecretValue) \in Document /\ Leaf(SecretValue)[<<>>] = SecretValue
  BY Words, LeafIsDocument DEF Leaf
<1>5. path \in DOMAIN set.doc /\ set.doc[path] = Leaf(SecretValue)[<<>>]
  BY <1>1, <1>4, WrittenIsThere
<1>6. QED
  BY <1>3, <1>4, <1>5 DEF Holds

(* An entry that writes elsewhere leaves it there.                         *)
LEMMA SecretIsKept ==
  ASSUME NEW body \in Objects, NEW doc \in Document, NEW entry, IsEntry(entry), NEW resolved,
         NEW path, OnlyFields(path), entry.inBody = <<>> \/ Part(path, entry.inBody),
         Holds(body, path)
  PROVE  Holds(MapEntry(body, doc, entry, resolved), path)
<1> DEFINE value == IF entry.resolver THEN Leaf(SecretValue) ELSE Value(doc, entry.inCustomResource)
           alias == ApplyAlias(value, entry.aliases, "cr", "api")
           set   == SetNestedField(body, alias, entry.inBody)
<1>1. /\ entry.inCustomResource \in Paths /\ entry.inBody \in Paths
      /\ entry.aliases \in Seq([cr : Text, api : Text])
  BY EntryIs
<1>2. value \in Document
  BY <1>1, Words, LeafIsDocument, ValueIsDocument
<1> HIDE DEF value
<1>3. alias \in Document
  BY <1>1, <1>2, AliasMakesDocuments
<1> HIDE DEF alias
<1>4. body \in Document /\ path \in DOMAIN body
  BY DEF Objects, Holds
<1>5. entry.inBody # <<>> => Agree(path, set.doc, body)
  BY <1>1, <1>3, <1>4, WritingLeavesAlone
<1> HIDE DEF set
<1>6. \/ MapEntry(body, doc, entry, resolved) = body
      \/ entry.inBody # <<>> /\ MapEntry(body, doc, entry, resolved) = set.doc
  BY DEF MapEntry, value, alias, set
<1>7. QED
  BY <1>5, <1>6 DEF Agree, Holds

(* The entry that gives a Secret its place.                                *)
GivesPlace(i, secret, mapping) ==
  /\ i \in DOMAIN mapping
  /\ mapping[i].resolver /\ mapping[i].jq = "none" /\ mapping[i].aliases = <<>>
  /\ mapping[i].inBody = secret.value
  /\ BodyRelativePath(mapping[i].inCustomResource) = secret.pointer
  /\ \A j \in DOMAIN mapping \ {i} :
       mapping[j].inBody = <<>> \/ Part(secret.value, mapping[j].inBody)

(* No pointer is taken out above the value.                                *)
PointersApart(secret, mapping) ==
  \A j \in DOMAIN mapping :
    mapping[j].resolver =>
      /\ OnlyFields(BodyRelativePath(mapping[j].inCustomResource))
      /\ Part(secret.value, BodyRelativePath(mapping[j].inCustomResource))

(* HasPlace, by these two.                                                 *)
LEMMA PlaceIs ==
  ASSUME NEW secret, NEW mapping, HasPlace(secret, mapping)
  PROVE  /\ OnlyFields(secret.value) /\ PointersApart(secret, mapping)
         /\ \E i \in DOMAIN mapping : GivesPlace(i, secret, mapping)
BY Zenon DEF HasPlace, PointersApart, GivesPlace

(* ApplyFieldMapping puts the value of a Secret in its place.              *)
LEMMA MappedSecret ==
  ASSUME NEW body \in Objects, NEW doc \in Document, NEW mapping, IsMapping(mapping),
         NEW secret, HasPlace(secret, mapping)
  PROVE  Holds(ApplyFieldMapping(body, doc, mapping, TRUE), secret.value)
<1> DEFINE N == Len(mapping)
<1>1. PICK way \in [0..N -> Objects] :
        /\ way[N] = ApplyFieldMapping(body, doc, mapping, TRUE)
        /\ \A n \in 1..N : way[n] = MapEntry(way[n - 1], doc, mapping[n], TRUE)
  <2>1. PICK way \in [0..Len(mapping) -> Objects] : MapsAlong(way, body, doc, mapping, TRUE)
    BY Mapping, Zenon
  <2>2. QED
    BY <2>1 DEF MapsAlong
<1>2. N \in Nat /\ DOMAIN mapping = 1..N /\ \A n \in 1..N : IsEntry(mapping[n])
  BY MappingIs
<1>3. PICK i \in 1..N : GivesPlace(i, secret, mapping)
  BY <1>2, PlaceIs
<1>4. OnlyFields(secret.value)
  BY PlaceIs
<1> HIDE DEF N
<1>5. \A n \in 1..N : n - 1 \in 0..N /\ way[n - 1] \in Objects
  <2>1. \A n \in 1..N : n - 1 \in 0..N
    BY <1>2
  <2>2. QED
    BY <1>1, <2>1
<1> DEFINE T == {n \in 0..N : Holds(way[n], secret.value)}
<1>6. i \in T
  <2>1. way[i - 1] \in Objects /\ IsEntry(mapping[i]) /\ way[i] = MapEntry(way[i - 1], doc, mapping[i], TRUE)
    BY <1>1, <1>2, <1>5
  <2>2. /\ mapping[i].resolver /\ mapping[i].jq = "none" /\ mapping[i].aliases = <<>>
        /\ mapping[i].inBody = secret.value
    BY <1>3 DEF GivesPlace
  <2>3. Holds(way[i], secret.value)
    BY <1>4, <2>1, <2>2, SecretIsWritten
  <2>4. QED
    BY <1>2, <2>3
<1>7. ASSUME NEW n \in 1..N, n > i, n - 1 \in T
      PROVE  n \in T
  <2>1. /\ way[n - 1] \in Objects /\ IsEntry(mapping[n])
        /\ way[n] = MapEntry(way[n - 1], doc, mapping[n], TRUE)
    BY <1>1, <1>2, <1>5
  <2>2. mapping[n].inBody = <<>> \/ Part(secret.value, mapping[n].inBody)
    BY <1>2, <1>3, <1>7 DEF GivesPlace
  <2>3. Holds(way[n - 1], secret.value)
    BY <1>7
  <2>4. Holds(way[n], secret.value)
    BY <1>4, <2>1, <2>2, <2>3, SecretIsKept
  <2>5. QED
    BY <1>2, <2>4
<1>8. i \in 0..N /\ T \in SUBSET (0..N)
  BY <1>2
<1> HIDE DEF T
<1>9. N \in T
  BY <1>2, <1>6, <1>7, <1>8, Onwards
<1>10. QED
  BY <1>1, <1>9 DEF T

(* StripResolverSources leaves the value in its place.                     *)
LEMMA StrippedSecret ==
  ASSUME NEW body \in Objects, NEW mapping, IsMapping(mapping), NEW secret, HasPlace(secret, mapping),
         Holds(body, secret.value)
  PROVE  Holds(StripResolverSources(body, mapping), secret.value)
<1> DEFINE N == Len(mapping)
<1>1. PICK way \in [0..N -> Objects] :
        /\ way[0] = body /\ way[N] = StripResolverSources(body, mapping)
        /\ \A n \in 1..N : way[n] = StripEntry(way[n - 1], mapping[n])
  BY Stripping
<1>2. N \in Nat /\ DOMAIN mapping = 1..N /\ \A n \in 1..N : IsEntry(mapping[n])
  BY MappingIs
<1>3. OnlyFields(secret.value) /\ PointersApart(secret, mapping)
  BY PlaceIs
<1> HIDE DEF N
<1>4. \A n \in 1..N : n - 1 \in 0..N /\ way[n - 1] \in Objects
  <2>1. \A n \in 1..N : n - 1 \in 0..N
    BY <1>2
  <2>2. QED
    BY <1>1, <2>1
<1> DEFINE T == {n \in 0..N : Holds(way[n], secret.value)}
<1>5. ASSUME NEW n \in 1..N, n - 1 \in T
      PROVE  n \in T
  <2> DEFINE pointer == BodyRelativePath(mapping[n].inCustomResource)
             before  == way[n - 1]
  <2>1. before \in Objects /\ IsEntry(mapping[n]) /\ way[n] = StripEntry(before, mapping[n])
    BY <1>1, <1>2, <1>4
  <2>2. before \in Document /\ secret.value \in DOMAIN before /\ Holds(before, secret.value)
    BY <1>5, <2>1 DEF Objects, Holds
  <2>3. pointer \in Paths
    BY <2>1, EntryIs, BodyRelative
  <2>4. mapping[n].resolver => Part(secret.value, pointer)
    BY <1>2, <1>3 DEF PointersApart
  <2>5. way[n] = IF mapping[n].resolver THEN RemoveNestedField(before, pointer) ELSE before
    BY <2>1 DEF StripEntry
  <2> HIDE DEF pointer, before
  <2>6. mapping[n].resolver => Agree(secret.value, RemoveNestedField(before, pointer), before)
    BY <1>3, <2>2, <2>3, <2>4, RemovalLeavesAlone
  <2>7. Holds(way[n], secret.value)
    BY <2>2, <2>5, <2>6 DEF Agree, Holds
  <2>8. QED
    BY <1>2, <2>7
<1>6. 0 \in T /\ T \in SUBSET (0..N)
  BY <1>1, <1>2
<1> HIDE DEF T
<1>7. T = 0..N
  BY <1>2, <1>5, <1>6, UpToN
<1>8. N \in T
  BY <1>2, <1>7
<1>9. QED
  BY <1>1, <1>8 DEF T

(* StripResolverSources leaves no pointer.                                 *)
LEMMA StrippedPointer ==
  ASSUME NEW body \in Objects, NEW mapping, IsMapping(mapping), NEW secret, HasPlace(secret, mapping)
  PROVE  secret.pointer \notin DOMAIN StripResolverSources(body, mapping)
<1> DEFINE N == Len(mapping)
           pointer(n) == BodyRelativePath(mapping[n].inCustomResource)
<1>1. PICK way \in [0..N -> Objects] :
        /\ way[N] = StripResolverSources(body, mapping)
        /\ \A n \in 1..N : way[n] = StripEntry(way[n - 1], mapping[n])
  BY Stripping
<1>2. N \in Nat /\ DOMAIN mapping = 1..N /\ \A n \in 1..N : IsEntry(mapping[n])
  BY MappingIs
<1>3. PICK i \in 1..N : GivesPlace(i, secret, mapping)
  BY <1>2, PlaceIs
<1>4. PointersApart(secret, mapping)
  BY PlaceIs
<1> HIDE DEF N
<1>5. ASSUME NEW n \in 1..N
      PROVE  /\ DOMAIN way[n] \subseteq DOMAIN way[n - 1]
             /\ mapping[n].resolver => pointer(n) \notin DOMAIN way[n]
  <2>1. n - 1 \in 0..N
    BY <1>2
  <2>2. way[n - 1] \in Objects /\ IsEntry(mapping[n]) /\ way[n] = StripEntry(way[n - 1], mapping[n])
    BY <1>1, <1>2, <2>1
  <2>3. pointer(n) \in Paths
    BY <2>2, EntryIs, BodyRelative
  <2>4. mapping[n].resolver => OnlyFields(pointer(n))
    BY <1>2, <1>4 DEF PointersApart
  <2>5. way[n] = IF mapping[n].resolver THEN RemoveNestedField(way[n - 1], pointer(n)) ELSE way[n - 1]
    BY <2>2 DEF StripEntry
  <2> HIDE DEF pointer
  <2>6. mapping[n].resolver =>
          /\ pointer(n) \notin DOMAIN RemoveNestedField(way[n - 1], pointer(n))
          /\ DOMAIN RemoveNestedField(way[n - 1], pointer(n)) \subseteq DOMAIN way[n - 1]
    BY <2>2, <2>3, <2>4, RemovedIsGone
  <2>7. QED
    BY <2>5, <2>6
<1> DEFINE T == {n \in 0..N : secret.pointer \notin DOMAIN way[n]}
<1>6. i \in T
  BY <1>2, <1>3, <1>5 DEF GivesPlace
<1>7. \A n \in 1..N : n > i /\ n - 1 \in T => n \in T
  BY <1>2, <1>5
<1>8. i \in 0..N /\ T \in SUBSET (0..N)
  BY <1>2
<1> HIDE DEF T
<1>9. N \in T
  BY <1>2, <1>6, <1>7, <1>8, Onwards
<1>10. QED
  BY <1>1, <1>9 DEF T

Resolved(secret, body) == Holds(body, secret.value) /\ secret.pointer \notin DOMAIN body

(* The body of an update has what a Secret holds in its place, and no      *)
(* pointer to it.                                                          *)
LEMMA BodyIsResolved ==
  ASSUME NEW doc \in Objects, NEW names, NEW mapping, IsMapping(mapping),
         NEW secret, HasPlace(secret, mapping)
  PROVE  Resolved(secret, BuildBody(doc, names, mapping, TRUE))
<1> DEFINE ofSpec   == ProcessFields(Leaf("map"), Fields(doc, "spec"), names)
           ofStatus == ProcessFields(ofSpec, Fields(doc, "status"), names)
           mapped   == ApplyFieldMapping(ofStatus, doc, mapping, TRUE)
<1>1. doc \in Document
  BY DEF Objects
<1>2. \A part : Fields(doc, part) \in Document
  BY <1>1, EmptyObject, SubIsDocument DEF Fields, Objects
<1>3. ofSpec \in Objects
  BY <1>2, EmptyObject, ProcessedBody
<1> HIDE DEF ofSpec
<1>4. ofStatus \in Objects
  BY <1>2, <1>3, ProcessedBody
<1>5. BuildBody(doc, names, mapping, TRUE) = StripResolverSources(mapped, mapping)
  BY DEF BuildBody, ofSpec
<1> HIDE DEF ofStatus
<1>6. mapped \in Objects /\ Holds(mapped, secret.value)
  BY <1>1, <1>4, MapsRequest, MappedSecret
<1> HIDE DEF mapped
<1>7. QED
  BY <1>5, <1>6, StrippedSecret, StrippedPointer DEF Resolved
-----------------------------------------------------------------------------
(* The steps.                                                              *)

(* TypeOK by the sets the lemmas speak of.                                 *)
LEMMA TypeOKIs ==
  TypeOK <=> /\ def \in Definitions
             /\ cr \in Objects /\ remote \in Objects /\ sent \in Objects
             /\ verdict \in {"none", "upToDate", "drift", "failed"}
             /\ changes \in 0..MaxChanges
BY DocumentIs DEF TypeOK

(* What a definition of the run is, part by part.                          *)
LEMMA DefinitionIs ==
  ASSUME NEW d \in Definitions
  PROVE  /\ IsDefinition(d)
         /\ d.get.transform \in Programs \cup {"none"} /\ IsMapping(d.get.mapping)
         /\ d.update.transform \in Programs \cup {"none"} /\ IsMapping(d.update.mapping)
         /\ d.statusFields \in Seq(Paths)
         /\ \A spec \in d.specs : spec \in Document
         /\ \A doc \in d.remotes : doc \in Objects
BY DefinitionsAssumption, DocumentIs DEF IsDefinition, Paths

(* A new CR with one of its specs, and a resource as the service has it.   *)
LEMMA InitTypeOK ==
  ASSUME Init
  PROVE  TypeOK
<1>1. PICK spec \in def.specs : cr = WithSpec(spec, Leaf("map"))
  BY DEF Init
<1>2. def \in Definitions /\ spec \in Document /\ remote \in Objects
  BY <1>1, DefinitionIs DEF Init
<1>3. cr \in Objects
  <2>1. Leaf("map") \in Objects /\ Leaf("map") \in Document /\ "spec" \in Text /\ "status" \in Text
    BY EmptyObject, Words DEF Objects
  <2>2. Put(Leaf("map"), <<"spec">>, spec) \in Objects
    BY <1>2, <2>1, PutAtTop
  <2>3. Put(Put(Leaf("map"), <<"spec">>, spec), <<"status">>, Leaf("map")) \in Objects
    BY <2>1, <2>2, PutAtTop
  <2>4. QED
    BY <1>1, <2>3 DEF WithSpec
<1>4. QED
  BY <1>2, <1>3, EmptyObject, DefinitionsAssumption, TypeOKIs DEF Init

(* Observe writes nothing but the status, an object as it was.             *)
LEMMA ObserveKeepsTypeOK ==
  ASSUME TypeOK, Observe
  PROVE  TypeOK'
<1> DEFINE normal   == NormalizeResponseBody(def.get.transform, def.get.mapping, Answer(remote))
           mirrored == PopulateStatusFields(cr, normal.body)
<1>1. /\ def \in Definitions /\ cr \in Objects /\ remote \in Objects /\ sent \in Objects
      /\ changes \in 0..MaxChanges
  BY TypeOKIs
<1>2. Answer(remote) \in Objects
  BY <1>1, DefinitionIs, AnsweredObjects
<1>3. normal \in [ok : BOOLEAN, body : Objects]
  BY <1>1, <1>2, DefinitionIs, NormalBodies
<1>4. UNCHANGED <<def, remote, sent, changes>>
  BY DEF Observe
<1>5. /\ cr' \in {cr, mirrored.doc}
      /\ verdict' \in {"upToDate", "drift", "failed"}
  <2> HIDE DEF normal, mirrored
  <2>1. IF ~normal.ok \/ ~mirrored.ok
        THEN cr' = cr /\ verdict' = "failed"
        ELSE /\ cr' = mirrored.doc
             /\ \E outcome \in IsCRUpdated(Sub(cr, <<"spec">>), normal.body, def.scope, ScopeFields) :
                  verdict' = CASE outcome = "equal"   -> "upToDate"
                               [] outcome = "differs" -> "drift"
                               [] OTHER               -> "failed"
    BY Zenon DEF Observe, normal, mirrored
  <2>2. QED
    BY <2>1
<1> HIDE DEF normal
<1>6. mirrored \in [ok : BOOLEAN, doc : Objects]
  BY <1>1, <1>3, DefinitionIs, Mirrors
<1> HIDE DEF mirrored
<1>7. cr' \in Objects
  BY <1>1, <1>5, <1>6
<1>8. QED
  BY <1>1, <1>4, <1>5, <1>7, DocumentIs DEF TypeOK

(* Update sends an object and leaves objects.                              *)
LEMMA UpdateKeepsTypeOK ==
  ASSUME TypeOK, Update
  PROVE  TypeOK'
<1> DEFINE body     == BuildBody(cr, def.names, def.update.mapping, TRUE)
           out      == ApplyRequestTransform(def.requestTransform, body)
           became   == Patched(remote, Contents(out.value))
           normal   == NormalizeResponseBody(def.update.transform, def.update.mapping, Answer(became))
           mirrored == PopulateStatusFields(Without(cr, <<"status">>), normal.body)
<1>1. /\ def \in Definitions /\ cr \in Objects /\ remote \in Objects /\ sent \in Objects
      /\ changes \in 0..MaxChanges
  BY TypeOKIs
<1>2. UNCHANGED <<def, changes>>
  BY DEF Update
<1>3. /\ verdict' \in {"none", "failed"}
      /\ \/ cr' = cr /\ remote' = remote /\ sent' = sent
         \/ out.ok /\ sent' = out.value /\ remote' = became /\ cr' \in {cr, mirrored.doc}
  <2> HIDE DEF out, became, normal, mirrored
  <2>1. LET read == normal.ok /\ mirrored.ok
        IN  IF ~out.ok
            THEN verdict' = "failed" /\ UNCHANGED <<cr, remote, sent>>
            ELSE /\ sent' = out.value
                 /\ remote' = became
                 /\ cr' = IF read THEN mirrored.doc ELSE cr
                 /\ verdict' = IF read THEN "none" ELSE "failed"
    BY Zenon DEF Update, out, became, normal, mirrored
  <2>2. QED
    BY <2>1
<1>4. ASSUME out.ok
      PROVE  out.value \in Objects /\ became \in Objects /\ mirrored.doc \in Objects
  <2>1. body \in Objects
    BY <1>1, DefinitionIs, RequestBodies
  <2> HIDE DEF body
  <2>2. out.value \in Objects /\ became \in Objects
    BY <1>1, <1>4, <2>1, DefinitionIs, SentObjects
  <2> HIDE DEF out, became
  <2>3. Answer(became) \in Objects
    BY <1>1, <2>2, DefinitionIs, AnsweredObjects
  <2>4. normal \in [ok : BOOLEAN, body : Objects]
    BY <1>1, <2>3, DefinitionIs, NormalBodies
  <2> HIDE DEF normal
  <2>5. Without(cr, <<"status">>) \in Objects
    <3>1. <<"status">> = Append(<<>>, "status") /\ "status" \in Text /\ <<>> \in Paths
      BY Words, TopField
    <3>2. cr \in Document /\ cr[<<>>] = "map"
      BY <1>1 DEF Objects
    <3>3. /\ Without(cr, Append(<<>>, "status")) \in Document
          /\ Without(cr, Append(<<>>, "status"))[<<>>] = cr[<<>>]
      BY <3>1, <3>2, WithoutIsDocument
    <3>4. QED
      BY <3>1, <3>2, <3>3 DEF Objects
  <2>6. mirrored \in [ok : BOOLEAN, doc : Objects]
    BY <1>1, <2>4, <2>5, DefinitionIs, Mirrors
  <2>7. QED
    BY <2>2, <2>6
<1> HIDE DEF out, became, mirrored
<1>5. cr' \in Objects /\ remote' \in Objects /\ sent' \in Objects
  BY <1>1, <1>3, <1>4
<1>6. QED
  BY <1>1, <1>2, <1>3, <1>5, DocumentIs DEF TypeOK

(* Every step leaves objects.                                              *)
LEMMA NextKeepsTypeOK ==
  ASSUME TypeOK, [Next]_vars
  PROVE  TypeOK'
<1>1. /\ def \in Definitions /\ cr \in Objects /\ remote \in Objects /\ sent \in Objects
      /\ verdict \in {"none", "upToDate", "drift", "failed"} /\ changes \in 0..MaxChanges
  BY TypeOKIs
<1>2. CASE Observe
  BY <1>2, ObserveKeepsTypeOK
<1>3. CASE Update
  BY <1>3, UpdateKeepsTypeOK
<1>4. CASE Resync
  BY <1>1, <1>4, DocumentIs DEF Resync, TypeOK
<1>5. CASE Edit
  <2>1. PICK spec \in def.specs : cr' = Put(cr, <<"spec">>, spec)
    BY <1>5 DEF Edit
  <2>2. cr' \in Objects
    BY <1>1, <2>1, DefinitionIs, Words, PutAtTop
  <2>3. changes' \in 0..MaxChanges /\ UNCHANGED <<def, sent, verdict, remote>>
    BY <1>1, <1>5, DefinitionsAssumption DEF Edit, Change
  <2>4. QED
    BY <1>1, <2>2, <2>3, DocumentIs DEF TypeOK
<1>6. CASE Alter
  <2>1. remote' \in Objects
    BY <1>1, <1>6, DefinitionIs DEF Alter
  <2>2. changes' \in 0..MaxChanges /\ UNCHANGED <<def, sent, verdict, cr>>
    BY <1>1, <1>6, DefinitionsAssumption DEF Alter, Change
  <2>3. QED
    BY <1>1, <2>1, <2>2, DocumentIs DEF TypeOK
<1>7. CASE UNCHANGED vars
  BY <1>1, <1>7, DocumentIs DEF vars, TypeOK
<1>8. QED
  BY <1>2, <1>3, <1>4, <1>5, <1>6, <1>7 DEF Next

(* The CR, the resource and every body sent are documents, at any time and *)
(* for any number of fields, edits and entries of a mapping.               *)
THEOREM TypeCorrect == Spec => []TypeOK
<1>1. Init => TypeOK
  BY InitTypeOK
<1>2. TypeOK /\ [Next]_vars => TypeOK'
  BY NextKeepsTypeOK
<1>3. QED
  BY <1>1, <1>2, PTL DEF Spec
-----------------------------------------------------------------------------
(* Secrets.                                                                *)

Secrets == SecretsHavePlaces(def) => SecretsResolved

(* SecretsResolved, secret by secret.                                      *)
LEMMA SecretsResolvedIs ==
  SecretsResolved <=> (sent # Leaf("map") => \A secret \in def.secrets : Resolved(secret, sent))
BY DEF SecretsResolved, Resolved, Holds

(* A body sent without a program around it is the one that was built.      *)
LEMMA SentAsBuilt ==
  ASSUME NEW program \in {"none", "fails"}, NEW body, ApplyRequestTransform(program, body).ok
  PROVE  ApplyRequestTransform(program, body).value = body
BY DEF ApplyRequestTransform, RunJq

(* Update sends what the Secrets hold, and no pointer.                     *)
LEMMA UpdateKeepsSecrets ==
  ASSUME TypeOK, Secrets, Update
  PROVE  Secrets'
<1> DEFINE body     == BuildBody(cr, def.names, def.update.mapping, TRUE)
           out      == ApplyRequestTransform(def.requestTransform, body)
           became   == Patched(remote, Contents(out.value))
           normal   == NormalizeResponseBody(def.update.transform, def.update.mapping, Answer(became))
           mirrored == PopulateStatusFields(Without(cr, <<"status">>), normal.body)
<1>1. def \in Definitions /\ cr \in Objects /\ IsDefinition(def) /\ IsMapping(def.update.mapping)
  BY TypeOKIs, DefinitionIs
<1>2. def' = def
  BY DEF Update
<1>3. (sent' = sent) \/ (out.ok /\ sent' = out.value)
  <2> HIDE DEF out, became, normal, mirrored
  <2>1. LET read == normal.ok /\ mirrored.ok
        IN  IF ~out.ok
            THEN verdict' = "failed" /\ UNCHANGED <<cr, remote, sent>>
            ELSE /\ sent' = out.value
                 /\ remote' = became
                 /\ cr' = IF read THEN mirrored.doc ELSE cr
                 /\ verdict' = IF read THEN "none" ELSE "failed"
    BY Zenon DEF Update, out, became, normal, mirrored
  <2>2. QED
    BY <2>1
<1>4. ASSUME SecretsHavePlaces(def), out.ok
      PROVE  \A secret \in def.secrets : Resolved(secret, out.value)
  <2>1. /\ def.requestTransform \in {"none", "fails"}
        /\ \A secret \in def.secrets : HasPlace(secret, def.update.mapping)
    BY <1>1, <1>4 DEF SecretsHavePlaces, IsDefinition
  <2>2. \A secret \in def.secrets : Resolved(secret, body)
    BY <1>1, <2>1, BodyIsResolved
  <2> HIDE DEF body
  <2>3. out.value = body
    BY <1>4, <2>1, SentAsBuilt
  <2>4. QED
    BY <2>2, <2>3
<1> HIDE DEF out
<1>5. ASSUME SecretsHavePlaces(def), sent' # Leaf("map"), NEW secret \in def.secrets
      PROVE  Resolved(secret, sent')
  <2>1. CASE sent' = sent
    BY <1>5, <2>1, SecretsResolvedIs DEF Secrets
  <2>2. CASE out.ok /\ sent' = out.value
    BY <1>4, <1>5, <2>2
  <2>3. QED
    BY <1>3, <2>1, <2>2
<1>6. QED
  BY <1>2, <1>5 DEF Secrets, SecretsResolved, Resolved, Holds

(* No other step sends anything.                                           *)
LEMMA NextKeepsSecrets ==
  ASSUME TypeOK, Secrets, [Next]_vars
  PROVE  Secrets'
<1>1. CASE Update
  BY <1>1, UpdateKeepsSecrets
<1>2. CASE UNCHANGED <<def, sent>>
  BY <1>2 DEF Secrets, SecretsResolved
<1>3. Update \/ UNCHANGED <<def, sent>>
  BY DEF Next, vars, Observe, Resync, Edit, Alter, Change
<1>4. QED
  BY <1>1, <1>2, <1>3

(* What a Secret holds is sent in its place and the pointer to it is not,  *)
(* whatever the CR says and whatever else the definition maps, where the   *)
(* place is named by fields and has nothing written over it.               *)
THEOREM SecretsAreResolved == Spec => [](SecretsHavePlaces(def) => SecretsResolved)
<1>1. Init => Secrets
  BY DEF Init, Secrets, SecretsResolved
<1>2. TypeOK /\ Secrets /\ [Next]_vars => Secrets'
  BY NextKeepsSecrets
<1>3. Spec => []TypeOK
  BY TypeCorrect
<1>4. Secrets => (SecretsHavePlaces(def) => SecretsResolved)
  BY DEF Secrets
<1>5. QED
  BY <1>1, <1>2, <1>3, <1>4, PTL DEF Spec
=============================================================================
