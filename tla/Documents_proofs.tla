---------------------------- MODULE Documents_proofs ---------------------------
(***************************************************************************)
(* Documents stay documents: reading, writing and removing nested fields   *)
(* leaves nothing hanging in the air and no gap in a list, for documents   *)
(* and paths of any size.  What is written at a path of fields is there,   *)
(* what is removed is gone, and what parts from the path is left alone.    *)
(***************************************************************************)
EXTENDS Documents, SequenceTheorems, FiniteSetTheorems, WellFoundedInduction, TLAPS

Paths == Seq(Text)

(* What the functions on documents are given and return, well-formed or    *)
(* not.                                                                    *)
Trees == UNION {[S -> Text] : S \in SUBSET Paths}

(* JSON documents.                                                         *)
Document == {d \in Trees : WellFormed(d)}
Objects == {d \in Document : d[<<>>] = "map"}
-----------------------------------------------------------------------------
(* Paths.                                                                  *)

(* A path is its front and its last segment.                               *)
LEMMA FrontLast ==
  ASSUME NEW p \in Paths, p # <<>>
  PROVE  /\ Front(p) \in Paths /\ Last(p) \in Text
         /\ p = Append(Front(p), Last(p))
         /\ Len(Front(p)) = Len(p) - 1
<1>1. PICK q \in Paths, s \in Text : p = Append(q, s)
  BY SequenceEmptyOrAppend DEF Paths
<1>2. Len(p) = Len(q) + 1 /\ Len(q) \in Nat /\ p[Len(p)] = s /\ \A i \in 1..Len(q) : p[i] = q[i]
  BY <1>1, AppendProperties, LenProperties DEF Paths
<1>3. SubSeq(p, 1, Len(p) - 1) = Restrict(p, 1..Len(p) - 1)
  <2>1. Len(p) - 1 \in 0..Len(p)
    BY <1>2
  <2>2. QED
    BY <2>1, SubSeqRestrict DEF Paths
<1>4. SubSeq(p, 1, Len(p) - 1) = q
  <2>1. q = [i \in 1..Len(q) |-> q[i]]
    BY LenProperties DEF Paths
  <2>2. QED
    BY <1>2, <1>3, <2>1 DEF Restrict
<1>5. Front(p) = q /\ Last(p) = s
  BY <1>2, <1>4 DEF Front, Last
<1>6. QED
  BY <1>1, <1>2, <1>5

(* And the other way round.                                                *)
LEMMA FrontLastOfAppend ==
  ASSUME NEW q \in Paths, NEW s \in Text
  PROVE  /\ Append(q, s) \in Paths \ {<<>>}
         /\ Front(Append(q, s)) = q
         /\ Last(Append(q, s)) = s
         /\ Len(Append(q, s)) = Len(q) + 1
<1>1. Append(q, s) \in Paths /\ Append(q, s) # <<>> /\ Len(Append(q, s)) = Len(q) + 1
  BY AppendProperties DEF Paths
<1>2. Append(q, s) = Append(Front(Append(q, s)), Last(Append(q, s)))
  BY <1>1, FrontLast
<1>3. Front(Append(q, s)) \in Paths /\ Last(Append(q, s)) \in Text
  BY <1>1, FrontLast
<1>4. QED
  BY <1>1, <1>2, <1>3, AppendInjective DEF Paths

(* The paths below a path are its continuations.                           *)
LEMMA PrefixOfConcat ==
  ASSUME NEW a \in Paths, NEW r \in Paths
  PROVE  /\ a \o r \in Paths
         /\ IsPrefix(a, a \o r)
         /\ SubSeq(a \o r, Len(a) + 1, Len(a \o r)) = r
<1>1. /\ a \o r \in Paths /\ Len(a) \in Nat /\ Len(r) \in Nat
      /\ Len(a \o r) = Len(a) + Len(r)
      /\ \A i \in 1..Len(a) + Len(r) : (a \o r)[i] = IF i <= Len(a) THEN a[i] ELSE r[i - Len(a)]
  BY ConcatProperties, LenProperties DEF Paths
<1>2. SubSeq(a, 1, Len(a)) = SubSeq(a \o r, 1, Len(a))
  <2>1. CASE a = <<>>
    BY <2>1, <1>1, SubSeqEmpty, EmptySeq
  <2>2. CASE a # <<>>
    <3>1. 1 \in 1..Len(a) /\ Len(a) \in 1..Len(a)
      BY <2>2, <1>1, EmptySeq DEF Paths
    <3>2. QED
      BY <3>1, SubSeqOfConcat1 DEF Paths
  <2>3. QED
    BY <2>1, <2>2
<1>3. SubSeq(a \o r, Len(a) + 1, Len(a \o r)) = r
  <2>1. CASE r = <<>>
    BY <2>1, <1>1, SubSeqEmpty, EmptySeq
  <2>2. CASE r # <<>>
    <3>1. Len(a) + 1 \in Len(a) + 1..Len(a) + Len(r) /\ Len(a) + Len(r) \in Len(a) + 1..Len(a) + Len(r)
      BY <2>2, <1>1, EmptySeq DEF Paths
    <3>2. SubSeq(a \o r, Len(a) + 1, Len(a) + Len(r)) = SubSeq(r, Len(a) + 1 - Len(a), Len(a) + Len(r) - Len(a))
      BY <3>1, SubSeqOfConcat2 DEF Paths
    <3>3. Len(a) + 1 - Len(a) = 1 /\ Len(a) + Len(r) - Len(a) = Len(r)
      BY <1>1
    <3>4. QED
      BY <1>1, <3>2, <3>3, SubSeqFull DEF Paths
  <2>3. QED
    BY <2>1, <2>2
<1>4. QED
  BY <1>1, <1>2, <1>3 DEF IsPrefix

(* A path goes on from every path above it.                                *)
LEMMA ConcatOfPrefix ==
  ASSUME NEW a \in Paths, NEW p \in Paths, IsPrefix(a, p)
  PROVE  /\ SubSeq(p, Len(a) + 1, Len(p)) \in Paths
         /\ p = a \o SubSeq(p, Len(a) + 1, Len(p))
<1>1. Len(a) \in Nat /\ Len(p) \in Nat /\ Len(a) <= Len(p) /\ SubSeq(a, 1, Len(a)) = SubSeq(p, 1, Len(a))
  BY LenProperties DEF IsPrefix, Paths
<1>2. SubSeq(p, 1, Len(a)) \o SubSeq(p, Len(a) + 1, Len(p)) = SubSeq(p, 1, Len(p))
  <2>1. 1 \in 1..Len(p) + 1 /\ Len(a) \in 1 - 1..Len(p) /\ Len(p) \in Len(a)..Len(p)
    BY <1>1
  <2>2. QED
    BY <2>1, ConcatAdjacentSubSeq DEF Paths
<1>3. SubSeq(p, Len(a) + 1, Len(p)) \in Paths
  <2>1. \A i \in Len(a) + 1..Len(p) : p[i] \in Text
    BY <1>1, ElementOfSeq DEF Paths
  <2>2. QED
    <3>1. Len(a) + 1 \in Int /\ Len(p) \in Int
      BY <1>1
    <3>2. QED
      BY <2>1, <3>1, SubSeqProperties, Zenon DEF Paths
<1>4. QED
  BY <1>1, <1>2, <1>3, SubSeqFull DEF Paths

(* To append to a continuation is to continue by what was appended.        *)
LEMMA ConcatAppend ==
  ASSUME NEW a \in Paths, NEW r \in Paths, NEW s \in Text
  PROVE  a \o Append(r, s) = Append(a \o r, s)
<1>1. <<s>> \in Paths /\ a \o r \in Paths
  <2>1. <<s>> = Append(<<>>, s) /\ <<>> \in Paths
    BY EmptySeq DEF Paths
  <2>2. QED
    BY <2>1, AppendProperties, ConcatProperties DEF Paths
<1>2. Append(r, s) = r \o <<s>> /\ Append(a \o r, s) = (a \o r) \o <<s>>
  BY <1>1, AppendIsConcat DEF Paths
<1>3. QED
  BY <1>1, <1>2, ConcatAssociative DEF Paths

(* What is above a path: itself and what is above its front.               *)
LEMMA PrefixOfAppend ==
  ASSUME NEW a \in Paths, NEW q \in Paths, NEW s \in Text
  PROVE  IsPrefix(a, Append(q, s)) <=> IsPrefix(a, q) \/ a = Append(q, s)
<1>1. Append(q, s) \in Paths
  BY FrontLastOfAppend
<1>2. ASSUME IsPrefix(a, Append(q, s)), a # Append(q, s)
      PROVE  IsPrefix(a, q)
  <2>1. PICK r \in Paths : Append(q, s) = a \o r
    BY <1>1, <1>2, ConcatOfPrefix
  <2>2. r # <<>>
    BY <1>2, <2>1, ConcatEmptySeq DEF Paths
  <2>3. PICK u \in Paths, t \in Text : r = Append(u, t)
    BY <2>2, SequenceEmptyOrAppend DEF Paths
  <2>4. Append(q, s) = Append(a \o u, t) /\ a \o u \in Paths
    BY <2>1, <2>3, ConcatAppend, PrefixOfConcat
  <2>5. q = a \o u
    <3>1. Front(Append(q, s)) = q /\ Front(Append(a \o u, t)) = a \o u
      BY <2>4, FrontLastOfAppend
    <3>2. QED
      BY <2>4, <3>1, Zenon
  <2>6. QED
    BY <2>5, PrefixOfConcat
<1>3. ASSUME IsPrefix(a, q)
      PROVE  IsPrefix(a, Append(q, s))
  <2>1. PICK r \in Paths : q = a \o r
    BY <1>3, ConcatOfPrefix
  <2>2. Append(q, s) = a \o Append(r, s) /\ Append(r, s) \in Paths
    <3>1. a \o Append(r, s) = Append(a \o r, s)
      BY ConcatAppend
    <3>2. Append(r, s) \in Paths
      BY FrontLastOfAppend
    <3>3. QED
      BY <2>1, <3>1, <3>2, Zenon
  <2>3. QED
    BY <2>2, PrefixOfConcat
<1>4. IsPrefix(Append(q, s), Append(q, s))
  BY <1>1 DEF IsPrefix, Paths
<1>5. QED
  BY <1>2, <1>3, <1>4

(* A path is above itself and below the root, and ends above what is       *)
(* appended to it.                                                         *)
LEMMA PrefixItself ==
  ASSUME NEW p \in Paths
  PROVE  /\ IsPrefix(p, p) /\ IsPrefix(<<>>, p)
         /\ \A s \in Text : ~IsPrefix(Append(p, s), p)
<1>1. IsPrefix(p, p)
  <2>1. Len(p) \in Nat
    BY LenProperties DEF Paths
  <2>2. QED
    BY <2>1 DEF IsPrefix
<1>2. IsPrefix(<<>>, p)
  <2>1. <<>> \in Paths /\ <<>> \o p = p
    BY EmptySeq, ConcatEmptySeq DEF Paths
  <2>2. QED
    BY <2>1, PrefixOfConcat
<1>3. ASSUME NEW s \in Text PROVE ~IsPrefix(Append(p, s), p)
  <2>1. Len(p) \in Nat /\ Len(Append(p, s)) = Len(p) + 1
    BY FrontLastOfAppend, LenProperties DEF Paths
  <2>2. QED
    BY <2>1 DEF IsPrefix
<1>4. QED
  BY <1>1, <1>2, <1>3

(* Only the empty path is above the empty path.                            *)
LEMMA PrefixOfEmpty ==
  ASSUME NEW a \in Paths
  PROVE  IsPrefix(a, <<>>) <=> a = <<>>
<1>1. a # <<>> => Len(a) \in Nat \ {0}
  BY EmptySeq DEF Paths
<1>2. Len(<<>>) = 0 /\ <<>> \in Paths
  BY EmptySeq DEF Paths
<1>3. QED
  BY <1>1, <1>2, PrefixItself DEF IsPrefix
-----------------------------------------------------------------------------
(* Documents, by what hangs where.                                         *)

(* The segments that index the elements up to that of s.                   *)
UpTo(s) == {t \in DOMAIN IndexOf : IndexOf[t] <= IndexOf[s]}

Hangs(doc, q, s) ==
  /\ q \in DOMAIN doc
  /\ doc[q] \in Containers
  /\ doc[q] = "list" =>
       /\ s \in DOMAIN IndexOf
       /\ \A t \in UpTo(s) : Append(q, t) \in DOMAIN doc

(* A segment and its index name each other, and so do the smaller ones.    *)
LEMMA SegmentOfIndex ==
  ASSUME NEW s \in DOMAIN IndexOf
  PROVE  /\ s \in Text
         /\ IndexOf[s] \in Nat
         /\ Segment(IndexOf[s]) = s
         /\ \A i \in 0..IndexOf[s] : Segment(i) \in DOMAIN IndexOf /\ IndexOf[Segment(i)] = i
         /\ UpTo(s) = {Segment(i) : i \in 0..IndexOf[s]}
<1>1. s \in Text /\ IndexOf[s] \in Nat
  BY SegmentsAssumption
<1>2. \A i \in 0..IndexOf[s] : Segment(i) \in DOMAIN IndexOf /\ IndexOf[Segment(i)] = i
  BY <1>1, SegmentsAssumption, Zenon DEF Segment
<1>3. \A t \in DOMAIN IndexOf : Segment(IndexOf[t]) = t
  BY SegmentsAssumption, Zenon DEF Segment
<1>4. \A t \in UpTo(s) : IndexOf[t] \in 0..IndexOf[s]
  BY <1>1, SegmentsAssumption DEF UpTo
<1>5. QED
  BY <1>1, <1>2, <1>3, <1>4 DEF UpTo

(* A tree is a document when it has a root and everything else hangs.      *)
LEMMA WellFormedness ==
  ASSUME NEW doc \in Trees
  PROVE  /\ DOMAIN doc \subseteq Paths
         /\ WellFormed(doc) <=>
              /\ <<>> \in DOMAIN doc
              /\ \A q \in Paths, s \in Text : Append(q, s) \in DOMAIN doc => Hangs(doc, q, s)
<1>1. DOMAIN doc \subseteq Paths
  BY DEF Trees
<1>2. ASSUME NEW q \in Paths, NEW s \in Text
      PROVE  Hangs(doc, q, s) <=>
               /\ q \in DOMAIN doc
               /\ doc[q] \in Containers
               /\ doc[q] = "list" =>
                    /\ s \in DOMAIN IndexOf
                    /\ \A i \in 0..IndexOf[s] : Append(q, Segment(i)) \in DOMAIN doc
  BY SegmentOfIndex DEF Hangs
<1>3. ASSUME WellFormed(doc), NEW q \in Paths, NEW s \in Text, Append(q, s) \in DOMAIN doc
      PROVE  Hangs(doc, q, s)
  <2>1. Append(q, s) \in DOMAIN doc \ {<<>>} /\ Front(Append(q, s)) = q /\ Last(Append(q, s)) = s
    BY <1>3, FrontLastOfAppend
  <2>2. QED
    BY <1>2, <1>3, <2>1 DEF WellFormed
<1>4. ASSUME \A q \in Paths, s \in Text : Append(q, s) \in DOMAIN doc => Hangs(doc, q, s),
             NEW p \in DOMAIN doc \ {<<>>}
      PROVE  /\ Front(p) \in DOMAIN doc
             /\ doc[Front(p)] \in Containers
             /\ doc[Front(p)] = "list" =>
                  /\ Last(p) \in DOMAIN IndexOf
                  /\ \A i \in 0..IndexOf[Last(p)] : Append(Front(p), Segment(i)) \in DOMAIN doc
  <2>1. Front(p) \in Paths /\ Last(p) \in Text /\ p = Append(Front(p), Last(p))
    BY <1>1, FrontLast
  <2>2. Hangs(doc, Front(p), Last(p))
    BY <1>4, <2>1
  <2>3. QED
    BY <1>2, <2>1, <2>2
<1>5. QED
  BY <1>1, <1>3, <1>4 DEF WellFormed

(* The two ways to say what a document is.                                 *)
LEMMA DocumentIs ==
  ASSUME NEW doc
  PROVE  /\ IsDocument(doc) <=> doc \in Document
         /\ IsObject(doc) <=> doc \in Objects
<1>1. ASSUME IsDocument(doc) PROVE doc \in Trees
  <2>1. DOMAIN doc \in SUBSET Paths /\ doc \in [DOMAIN doc -> Text]
    BY <1>1 DEF IsDocument, Paths
  <2>2. QED
    BY <2>1 DEF Trees
<1>2. ASSUME doc \in Trees
      PROVE  doc = [p \in DOMAIN doc |-> doc[p]] /\ \A p \in DOMAIN doc : p \in Seq(Text) /\ doc[p] \in Text
  BY <1>2 DEF Trees, Paths
<1>3. QED
  BY <1>1, <1>2 DEF IsDocument, IsObject, Document, Objects
-----------------------------------------------------------------------------
(* Reading and replacing what is at a path.                                *)

(* What Sub holds: the continuations of the path, and what was there.      *)
LEMMA SubIs ==
  ASSUME NEW doc \in Trees, NEW path \in Paths
  PROVE  /\ Sub(doc, path) \in Trees
         /\ \A r \in Paths :
              /\ r \in DOMAIN Sub(doc, path) <=> path \o r \in DOMAIN doc
              /\ path \o r \in DOMAIN doc => Sub(doc, path)[r] = doc[path \o r]
<1> DEFINE Rest(p) == SubSeq(p, Len(path) + 1, Len(p))
           S == {Rest(p) : p \in Below(doc, path)}
<1>1. Sub(doc, path) = [r \in S |-> doc[path \o r]]
  BY DEF Sub
<1>2. DOMAIN doc \subseteq Paths /\ \A p \in DOMAIN doc : doc[p] \in Text
  BY DEF Trees
<1>3. ASSUME NEW r \in S
      PROVE  r \in Paths /\ path \o r \in DOMAIN doc
  BY <1>2, ConcatOfPrefix DEF Below
<1>4. ASSUME NEW r \in Paths, path \o r \in DOMAIN doc
      PROVE  r \in S
  BY <1>4, PrefixOfConcat DEF Below
<1>5. [r \in S |-> doc[path \o r]] \in [S -> Text] /\ S \in SUBSET Paths
  BY <1>2, <1>3
<1> HIDE DEF S, Rest
<1>6. QED
  BY <1>1, <1>3, <1>4, <1>5 DEF Trees

(* What is at a path of a document is a document.                          *)
LEMMA SubIsDocument ==
  ASSUME NEW doc \in Document, NEW path \in DOMAIN doc
  PROVE  /\ Sub(doc, path) \in Document
         /\ Sub(doc, path)[<<>>] = doc[path]
<1>1. doc \in Trees /\ path \in Paths /\ DOMAIN doc \subseteq Paths
  BY WellFormedness DEF Document
<1>2. path \o <<>> = path /\ <<>> \in Paths
  BY <1>1, ConcatEmptySeq, EmptySeq DEF Paths
<1>3. <<>> \in DOMAIN Sub(doc, path) /\ Sub(doc, path)[<<>>] = doc[path]
  BY <1>1, <1>2, SubIs
<1>4. ASSUME NEW q \in Paths, NEW s \in Text, Append(q, s) \in DOMAIN Sub(doc, path)
      PROVE  Hangs(Sub(doc, path), q, s)
  <2>1. /\ Append(q, s) \in Paths /\ path \o q \in Paths
        /\ path \o Append(q, s) = Append(path \o q, s)
    BY <1>1, FrontLastOfAppend, PrefixOfConcat, ConcatAppend
  <2>2. Append(path \o q, s) \in DOMAIN doc
    BY <1>1, <1>4, <2>1, SubIs
  <2>3. Hangs(doc, path \o q, s)
    BY <2>1, <2>2, WellFormedness DEF Document
  <2>4. q \in DOMAIN Sub(doc, path) /\ Sub(doc, path)[q] = doc[path \o q]
    BY <1>1, <2>3, SubIs DEF Hangs
  <2>5. ASSUME doc[path \o q] = "list", NEW t \in UpTo(s)
        PROVE  Append(q, t) \in DOMAIN Sub(doc, path)
    <3>1. t \in Text /\ Append(path \o q, t) \in DOMAIN doc
      BY <2>3, <2>5, SegmentOfIndex DEF Hangs, UpTo
    <3>2. Append(q, t) \in Paths /\ path \o Append(q, t) = Append(path \o q, t)
      BY <1>1, <3>1, FrontLastOfAppend, ConcatAppend
    <3>3. QED
      BY <1>1, <3>1, <3>2, SubIs
  <2>6. QED
    BY <2>3, <2>4, <2>5 DEF Hangs
<1>5. Sub(doc, path) \in Trees
  BY <1>1, SubIs
<1>6. WellFormed(Sub(doc, path))
  BY <1>3, <1>4, <1>5, WellFormedness
<1>7. QED
  BY <1>3, <1>5, <1>6 DEF Document

(* What Put holds: the value at the path, and all that is not below it.    *)
LEMMA PutIs ==
  ASSUME NEW doc \in Trees, NEW value \in Trees, NEW path \in Paths
  PROVE  /\ Put(doc, path, value) \in Trees
         /\ \A p \in Paths : ~IsPrefix(path, p) =>
              /\ p \in DOMAIN Put(doc, path, value) <=> p \in DOMAIN doc
              /\ p \in DOMAIN doc => Put(doc, path, value)[p] = doc[p]
         /\ \A r \in Paths :
              /\ path \o r \in DOMAIN Put(doc, path, value) <=> r \in DOMAIN value
              /\ r \in DOMAIN value => Put(doc, path, value)[path \o r] = value[r]
<1> DEFINE kept == DOMAIN doc \ Below(doc, path)
           new  == {path \o r : r \in DOMAIN value}
           At(p) == IF p \in new THEN value[SubSeq(p, Len(path) + 1, Len(p))] ELSE doc[p]
<1>1. /\ DOMAIN doc \subseteq Paths /\ \A p \in DOMAIN doc : doc[p] \in Text
      /\ DOMAIN value \subseteq Paths /\ \A r \in DOMAIN value : value[r] \in Text
  BY DEF Trees
<1>2. Put(doc, path, value) = [p \in kept \cup new |-> At(p)]
  BY DEF Put, Without
<1>3. ASSUME NEW r \in Paths
      PROVE  /\ path \o r \in new <=> r \in DOMAIN value
             /\ path \o r \notin kept
             /\ r \in DOMAIN value => At(path \o r) = value[r]
             /\ path \o r \in Paths /\ IsPrefix(path, path \o r)
  <2>1. path \o r \in Paths /\ IsPrefix(path, path \o r) /\ SubSeq(path \o r, Len(path) + 1, Len(path \o r)) = r
    BY PrefixOfConcat
  <2>2. ASSUME NEW u \in DOMAIN value, path \o u = path \o r PROVE u = r
    BY <1>1, <2>1, <2>2, PrefixOfConcat
  <2>3. QED
    BY <2>1, <2>2 DEF Below
<1>4. ASSUME NEW p \in Paths, ~IsPrefix(path, p)
      PROVE  p \notin new /\ (p \in kept <=> p \in DOMAIN doc) /\ At(p) = doc[p]
  BY <1>1, <1>3, <1>4 DEF Below
<1>5. kept \cup new \in SUBSET Paths /\ \A p \in kept \cup new : At(p) \in Text
  BY <1>1, <1>3
<1>6. [p \in kept \cup new |-> At(p)] \in [kept \cup new -> Text]
  BY <1>5
<1> HIDE DEF kept, new, At
<1>7. Put(doc, path, value) \in Trees
  BY <1>2, <1>5, <1>6 DEF Trees
<1>8. QED
  BY <1>2, <1>3, <1>4, <1>7

(* What is written can be read, and writing where something can hang makes *)
(* no gap.                                                                 *)
LEMMA PutIsDocument ==
  ASSUME NEW doc \in Document, NEW value \in Document,
         NEW q \in Paths, NEW s \in Text, Hangs(doc, q, s)
  PROVE  /\ Put(doc, Append(q, s), value) \in Document
         /\ Put(doc, Append(q, s), value)[<<>>] = doc[<<>>]
         /\ Append(q, s) \in DOMAIN Put(doc, Append(q, s), value)
         /\ Put(doc, Append(q, s), value)[Append(q, s)] = value[<<>>]
<1> DEFINE path == Append(q, s)
           put  == Put(doc, path, value)
<1>1. /\ doc \in Trees /\ value \in Trees
      /\ path \in Paths /\ path # <<>> /\ <<>> \in Paths
      /\ DOMAIN doc \subseteq Paths /\ DOMAIN value \subseteq Paths
      /\ <<>> \in DOMAIN doc /\ <<>> \in DOMAIN value
  BY WellFormedness, FrontLastOfAppend, EmptySeq DEF Document, Paths
<1>2. /\ put \in Trees
      /\ \A p \in Paths : ~IsPrefix(path, p) =>
           (p \in DOMAIN put <=> p \in DOMAIN doc) /\ (p \in DOMAIN doc => put[p] = doc[p])
      /\ \A r \in Paths :
           (path \o r \in DOMAIN put <=> r \in DOMAIN value) /\ (r \in DOMAIN value => put[path \o r] = value[r])
  BY <1>1, PutIs
<1> HIDE DEF put
<1>3. ~IsPrefix(path, <<>>) /\ path \o <<>> = path
  BY <1>1, PrefixOfEmpty, ConcatEmptySeq DEF Paths
<1>4. <<>> \in DOMAIN put /\ put[<<>>] = doc[<<>>] /\ path \in DOMAIN put /\ put[path] = value[<<>>]
  BY <1>1, <1>2, <1>3
<1>5. ASSUME NEW u \in Paths, NEW t \in Text, Append(u, t) \in DOMAIN put
      PROVE  Hangs(put, u, t)
  <2>1. Append(u, t) \in Paths
    BY FrontLastOfAppend
  <2>2. CASE IsPrefix(path, u)
    <3>1. PICK r \in Paths : u = path \o r
      BY <1>1, <2>2, ConcatOfPrefix
    <3>2. \A v \in Text : Append(r, v) \in Paths /\ path \o Append(r, v) = Append(u, v)
      <4>1. ASSUME NEW v \in Text
            PROVE  Append(r, v) \in Paths /\ path \o Append(r, v) = Append(path \o r, v)
        <5>1. Append(r, v) \in Paths
          BY FrontLastOfAppend
        <5>2. path \o Append(r, v) = Append(path \o r, v)
          <6> HIDE DEF path
          <6> QED BY <1>1, ConcatAppend
        <5>3. QED
          BY <5>1, <5>2
      <4>2. QED
        BY <3>1, <4>1, Zenon
    <3>3. Append(r, t) \in DOMAIN value
      BY <1>2, <1>5, <3>2
    <3>4. Hangs(value, r, t)
      BY <3>3, WellFormedness DEF Document
    <3>5. u \in DOMAIN put /\ put[u] = value[r]
      BY <1>2, <3>1, <3>4 DEF Hangs
    <3>6. \A v \in Text : Append(r, v) \in DOMAIN value => Append(u, v) \in DOMAIN put
      BY <1>2, <3>2
    <3>7. UpTo(t) \subseteq Text
      BY SegmentOfIndex DEF UpTo
    <3>8. QED
      BY <3>4, <3>5, <3>6, <3>7 DEF Hangs
  <2>3. CASE ~IsPrefix(path, u)
    <3>1. Hangs(doc, u, t)
      <4>1. CASE Append(u, t) = path
        <5>1. u = q /\ t = s
          <6>1. Front(Append(u, t)) = u /\ Last(Append(u, t)) = t
            BY FrontLastOfAppend
          <6>2. Front(Append(q, s)) = q /\ Last(Append(q, s)) = s
            BY FrontLastOfAppend
          <6>3. QED
            BY <4>1, <6>1, <6>2, Zenon
        <5>2. QED
          BY <5>1
      <4>2. CASE Append(u, t) # path
        <5>1. ~IsPrefix(path, Append(u, t))
          BY <1>1, <2>3, <4>2, PrefixOfAppend
        <5>2. Append(u, t) \in DOMAIN doc
          BY <1>2, <1>5, <2>1, <5>1
        <5>3. QED
          BY <5>2, WellFormedness DEF Document
      <4>3. QED
        BY <4>1, <4>2
    <3>2. u \in DOMAIN put /\ put[u] = doc[u]
      BY <1>2, <2>3, <3>1 DEF Hangs
    <3>3. ASSUME NEW v \in Text, Append(u, v) \in DOMAIN doc
          PROVE  Append(u, v) \in DOMAIN put
      <4>1. CASE Append(u, v) = path
        BY <4>1, <1>4
      <4>2. CASE Append(u, v) # path
        <5>1. Append(u, v) \in Paths /\ ~IsPrefix(path, Append(u, v))
          BY <1>1, <2>3, <4>2, PrefixOfAppend, FrontLastOfAppend
        <5>2. QED
          BY <1>2, <3>3, <5>1
      <4>3. QED
        BY <4>1, <4>2
    <3>4. UpTo(t) \subseteq Text
      BY SegmentOfIndex DEF UpTo
    <3>5. QED
      BY <3>1, <3>2, <3>3, <3>4 DEF Hangs
  <2>4. QED
    BY <2>2, <2>3
<1>6. WellFormed(put)
  BY <1>2, <1>4, <1>5, WellFormedness
<1>7. QED
  BY <1>2, <1>4, <1>6 DEF Document, put

(* What Without holds: all that is not below the path.                     *)
LEMMA WithoutIs ==
  ASSUME NEW doc \in Trees, NEW path \in Paths
  PROVE  /\ Without(doc, path) \in Trees
         /\ DOMAIN Without(doc, path) = {p \in DOMAIN doc : ~IsPrefix(path, p)}
         /\ \A p \in DOMAIN Without(doc, path) : Without(doc, path)[p] = doc[p]
<1>1. DOMAIN doc \subseteq Paths /\ \A p \in DOMAIN doc : doc[p] \in Text
  BY DEF Trees
<1>2. DOMAIN doc \ Below(doc, path) = {p \in DOMAIN doc : ~IsPrefix(path, p)}
  BY DEF Below
<1>3. [p \in DOMAIN doc \ Below(doc, path) |-> doc[p]] \in [DOMAIN doc \ Below(doc, path) -> Text]
  BY <1>1
<1>4. DOMAIN doc \ Below(doc, path) \in SUBSET Paths
  BY <1>1
<1>5. QED
  BY <1>2, <1>3, <1>4 DEF Without, Trees

(* A field taken out of an object leaves no gap.                           *)
LEMMA WithoutIsDocument ==
  ASSUME NEW doc \in Document, NEW q \in Paths, NEW s \in Text,
         q \in DOMAIN doc => doc[q] # "list"
  PROVE  /\ Without(doc, Append(q, s)) \in Document
         /\ Without(doc, Append(q, s))[<<>>] = doc[<<>>]
         /\ DOMAIN Without(doc, Append(q, s)) \subseteq DOMAIN doc
<1> DEFINE rest == Without(doc, Append(q, s))
<1>1. /\ doc \in Trees /\ <<>> \in DOMAIN doc /\ DOMAIN doc \subseteq Paths
      /\ Append(q, s) \in Paths /\ Append(q, s) # <<>> /\ <<>> \in Paths
  BY WellFormedness, FrontLastOfAppend, EmptySeq DEF Document, Paths
<1>2. /\ rest \in Trees
      /\ DOMAIN rest = {p \in DOMAIN doc : ~IsPrefix(Append(q, s), p)}
      /\ \A p \in DOMAIN rest : rest[p] = doc[p]
  BY <1>1, WithoutIs
<1> HIDE DEF rest
<1>3. <<>> \in DOMAIN rest /\ rest[<<>>] = doc[<<>>]
  BY <1>1, <1>2, PrefixOfEmpty
<1>4. ASSUME NEW u \in Paths, NEW t \in Text, Append(u, t) \in DOMAIN rest
      PROVE  Hangs(rest, u, t)
  <2>1. Hangs(doc, u, t)
    BY <1>2, <1>4, WellFormedness DEF Document
  <2>2. ~IsPrefix(Append(q, s), u)
    BY <1>1, <1>2, <1>4, PrefixOfAppend
  <2>3. u \in DOMAIN rest /\ rest[u] = doc[u]
    BY <1>2, <2>1, <2>2 DEF Hangs
  <2>4. ASSUME doc[u] = "list", NEW v \in UpTo(t)
        PROVE  Append(u, v) \in DOMAIN rest
    <3>1. v \in Text /\ Append(u, v) \in DOMAIN doc
      BY <2>1, <2>4, SegmentOfIndex DEF Hangs, UpTo
    <3>2. Append(u, v) # Append(q, s)
      <4>1. u # q
        BY <2>1, <2>4 DEF Hangs
      <4>2. Front(Append(u, v)) = u /\ Front(Append(q, s)) = q
        BY <3>1, FrontLastOfAppend
      <4>3. QED
        BY <4>1, <4>2
    <3>3. ~IsPrefix(Append(q, s), Append(u, v))
      BY <1>1, <2>2, <3>1, <3>2, PrefixOfAppend
    <3>4. QED
      BY <1>2, <3>1, <3>3
  <2>5. QED
    BY <2>1, <2>3, <2>4 DEF Hangs
<1>5. WellFormed(rest)
  BY <1>2, <1>3, <1>4, WellFormedness
<1>6. QED
  BY <1>2, <1>3, <1>5 DEF rest, Document

(* A list grown with nulls has no gap, and what it had it has.             *)
LEMMA GrownIsDocument ==
  ASSUME NEW doc \in Document, NEW at \in DOMAIN doc, NEW s \in Text
  PROVE  /\ Grown(doc, at, s) \in Document
         /\ DOMAIN doc \subseteq DOMAIN Grown(doc, at, s)
         /\ \A p \in DOMAIN doc : Grown(doc, at, s)[p] = doc[p]
         /\ doc[at] = "list" /\ s \in DOMAIN IndexOf =>
              \A t \in UpTo(s) : Append(at, t) \in DOMAIN Grown(doc, at, s)
<1>1. CASE ~(doc[at] = "list" /\ s \in DOMAIN IndexOf)
  BY <1>1 DEF Grown
<1>2. CASE doc[at] = "list" /\ s \in DOMAIN IndexOf
  <2> DEFINE missing == {Append(at, t) : t \in UpTo(s)} \ DOMAIN doc
             grown   == [p \in DOMAIN doc \cup missing |-> IF p \in missing THEN "null" ELSE doc[p]]
  <2>1. Grown(doc, at, s) = grown
    <3>1. {Append(at, Segment(i)) : i \in 0..IndexOf[s]} = {Append(at, t) : t \in UpTo(s)}
      BY <1>2, SegmentOfIndex
    <3>2. QED
      BY <1>2, <3>1 DEF Grown
  <2>2. /\ doc \in Trees /\ <<>> \in DOMAIN doc /\ DOMAIN doc \subseteq Paths
        /\ at \in Paths /\ \A p \in DOMAIN doc : doc[p] \in Text
    BY WellFormedness DEF Document, Trees
  <2>3. UpTo(s) \subseteq Text /\ UpTo(s) \subseteq DOMAIN IndexOf
    BY SegmentOfIndex DEF UpTo
  <2>4. missing \subseteq Paths
    BY <2>2, <2>3, FrontLastOfAppend
  <2>5. grown \in Trees
    <3>1. DOMAIN doc \cup missing \in SUBSET Paths
      BY <2>2, <2>4
    <3>2. grown \in [DOMAIN doc \cup missing -> Text]
      <4>1. "null" \in Text
        BY SegmentsAssumption
      <4>2. QED
        BY <2>2, <4>1
    <3> HIDE DEF grown, missing
    <3>3. QED
      BY <3>1, <3>2 DEF Trees
  <2>6. \A p \in DOMAIN doc : p \in DOMAIN grown /\ grown[p] = doc[p]
    OBVIOUS
  <2>7. \A t \in UpTo(s) : Append(at, t) \in DOMAIN grown
    OBVIOUS
  <2>8. ASSUME NEW u \in Paths, NEW t \in Text, Append(u, t) \in DOMAIN grown
        PROVE  Hangs(grown, u, t)
    <3>1. CASE Append(u, t) \in DOMAIN doc
      <4>1. Hangs(doc, u, t)
        BY <3>1, WellFormedness DEF Document
      <4>2. QED
        BY <4>1, <2>6 DEF Hangs
    <3>2. CASE Append(u, t) \notin DOMAIN doc
      <4>1. PICK v \in UpTo(s) : Append(u, t) = Append(at, v)
        BY <2>8, <3>2
      <4>2. u = at /\ t = v
        <5>1. Front(Append(u, t)) = u /\ Last(Append(u, t)) = t
          BY FrontLastOfAppend
        <5>2. Front(Append(at, v)) = at /\ Last(Append(at, v)) = v
          BY <2>2, <2>3, FrontLastOfAppend
        <5>3. QED
          BY <4>1, <5>1, <5>2, Zenon
      <4>3. UpTo(t) \subseteq UpTo(s)
        BY <1>2, <2>3, <4>2, SegmentOfIndex DEF UpTo
      <4>4. QED
        BY <1>2, <2>3, <2>6, <2>7, <4>2, <4>3 DEF Hangs, Containers
    <3>3. QED
      BY <3>1, <3>2
  <2> HIDE DEF grown
  <2>9. grown \in Document
    BY <2>2, <2>5, <2>6, <2>8, WellFormedness DEF Document
  <2>10. QED
    BY <2>1, <2>6, <2>7, <2>9
<1>3. QED
  BY <1>1, <1>2
-----------------------------------------------------------------------------
(* Taking an element out of a list.                                        *)

(* A path that goes on after a names a segment there, and then goes on.    *)
LEMMA Continuation ==
  ASSUME NEW a \in Paths, NEW p \in Paths
  PROVE  Len(p) >= Len(a) + 1 /\ IsPrefix(a, p) <=>
           \E t \in Text, r \in Paths : p = Append(a, t) \o r
<1>1. Len(a) \in Nat /\ Len(p) \in Nat
  BY LenProperties DEF Paths
<1>2. ASSUME Len(p) >= Len(a) + 1, IsPrefix(a, p)
      PROVE  \E t \in Text, r \in Paths : p = Append(a, t) \o r
  <2> DEFINE r0 == SubSeq(p, Len(a) + 1, Len(p))
             r  == SubSeq(p, Len(a) + 2, Len(p))
             t  == p[Len(a) + 1]
  <2>1. r0 \in Paths /\ p = a \o r0
    BY <1>2, ConcatOfPrefix
  <2>2. t \in Text
    BY <1>1, <1>2, ElementOfSeq DEF Paths
  <2>3. r0 = <<t>> \o r
    <3>1. Len(a) + 1 \in 1..Len(p) /\ Len(p) \in Len(a) + 1..Len(p) /\ Len(a) + 1 + 1 = Len(a) + 2
      BY <1>1, <1>2
    <3>2. SubSeq(p, Len(a) + 1, Len(p)) = <<p[Len(a) + 1]>> \o SubSeq(p, Len(a) + 1 + 1, Len(p))
      BY <3>1, SubSeqRecursiveFirst DEF Paths
    <3>3. QED
      BY <3>1, <3>2
  <2>4. r \in Paths
    <3>1. \A i \in Len(a) + 2..Len(p) : p[i] \in Text
      BY <1>1, ElementOfSeq DEF Paths
    <3>2. Len(a) + 2 \in Int /\ Len(p) \in Int
      BY <1>1
    <3>3. QED
      BY <3>1, <3>2, SubSeqProperties DEF Paths
  <2> HIDE DEF r0, r, t
  <2>5. <<t>> \in Paths
    <3>1. <<t>> = Append(<<>>, t) /\ <<>> \in Paths
      BY EmptySeq DEF Paths
    <3>2. QED
      BY <2>2, <3>1, FrontLastOfAppend
  <2>6. a \o (<<t>> \o r) = (a \o <<t>>) \o r
    BY <2>4, <2>5, ConcatAssociative DEF Paths
  <2>7. a \o <<t>> = Append(a, t)
    BY <2>2, AppendIsConcat DEF Paths
  <2>8. p = Append(a, t) \o r
    BY <2>1, <2>3, <2>6, <2>7, Zenon
  <2>9. QED
    BY <2>2, <2>4, <2>8
<1>3. ASSUME NEW t \in Text, NEW r \in Paths, p = Append(a, t) \o r
      PROVE  Len(p) >= Len(a) + 1 /\ IsPrefix(a, p)
  <2>1. Append(a, t) \in Paths /\ Len(Append(a, t)) = Len(a) + 1
    BY FrontLastOfAppend
  <2>2. Len(p) = Len(a) + 1 + Len(r) /\ Len(r) \in Nat
    BY <1>3, <2>1, ConcatProperties, LenProperties DEF Paths
  <2>3. IsPrefix(Append(a, t), p)
    BY <1>3, <2>1, PrefixOfConcat
  <2>4. IsPrefix(a, Append(a, t))
    BY PrefixOfAppend, PrefixItself
  <2>5. IsPrefix(a, p)
    <3>1. PICK u \in Paths : Append(a, t) = a \o u
      BY <2>1, <2>4, ConcatOfPrefix
    <3>2. p = a \o (u \o r) /\ u \o r \in Paths
      <4>1. (a \o u) \o r = a \o (u \o r)
        BY ConcatAssociative DEF Paths
      <4>2. u \o r \in Paths
        BY PrefixOfConcat
      <4>3. QED
        BY <1>3, <3>1, <4>1, <4>2, Zenon
    <3>3. QED
      BY <3>2, PrefixOfConcat
  <2>6. QED
    BY <1>1, <2>2, <2>5
<1>4. QED
  BY <1>2, <1>3

(* The segment in question can be read, and exchanged.                     *)
LEMMA SegmentExchanged ==
  ASSUME NEW a \in Paths, NEW t \in Text, NEW v \in Text, NEW r \in Paths
  PROVE  /\ (Append(a, t) \o r)[Len(a) + 1] = t
         /\ [Append(a, t) \o r EXCEPT ![Len(a) + 1] = v] = Append(a, v) \o r
<1> DEFINE p == Append(a, t) \o r
           q == Append(a, v) \o r
           e == [p EXCEPT ![Len(a) + 1] = v]
<1>1. Len(a) \in Nat /\ Len(r) \in Nat
  BY LenProperties DEF Paths
<1>2. ASSUME NEW x \in Text
      PROVE  /\ Append(a, x) \in Paths /\ Len(Append(a, x)) = Len(a) + 1
             /\ \A i \in 1..Len(a) : Append(a, x)[i] = a[i]
             /\ Append(a, x)[Len(a) + 1] = x
             /\ Append(a, x) \o r \in Paths
             /\ Len(Append(a, x) \o r) = Len(a) + 1 + Len(r)
             /\ \A i \in 1..Len(a) + 1 + Len(r) : (Append(a, x) \o r)[i] =
                  IF i <= Len(a) + 1 THEN Append(a, x)[i] ELSE r[i - (Len(a) + 1)]
  <2>1. /\ Append(a, x) \in Paths /\ Len(Append(a, x)) = Len(a) + 1
        /\ \A i \in 1..Len(a) : Append(a, x)[i] = a[i]
        /\ Append(a, x)[Len(a) + 1] = x
    BY AppendProperties DEF Paths
  <2>2. /\ Append(a, x) \o r \in Paths
        /\ Len(Append(a, x) \o r) = Len(Append(a, x)) + Len(r)
        /\ \A i \in 1..Len(Append(a, x)) + Len(r) : (Append(a, x) \o r)[i] =
             IF i <= Len(Append(a, x)) THEN Append(a, x)[i] ELSE r[i - Len(Append(a, x))]
    BY <2>1, ConcatProperties DEF Paths
  <2>3. QED
    BY <2>1, <2>2
<1>3. p \in Paths /\ Len(p) = Len(a) + 1 + Len(r) /\ Len(a) + 1 \in 1..Len(p)
  BY <1>1, <1>2
<1>4. q \in Paths /\ Len(q) = Len(p)
  BY <1>2, <1>3
<1>5. p[Len(a) + 1] = t /\ q[Len(a) + 1] = v
  <2>1. Len(a) + 1 \in 1..Len(a) + 1 + Len(r) /\ Len(a) + 1 <= Len(a) + 1
    BY <1>1
  <2>2. QED
    BY <1>2, <2>1
<1>6. ASSUME NEW i \in 1..Len(p), i # Len(a) + 1
      PROVE  p[i] = q[i]
  <2>1. i \in 1..Len(a) + 1 + Len(r) /\ (i <= Len(a) + 1 => i \in 1..Len(a))
    BY <1>1, <1>3, <1>6
  <2>2. p[i] = IF i <= Len(a) + 1 THEN Append(a, t)[i] ELSE r[i - (Len(a) + 1)]
    BY <1>2, <2>1
  <2>3. q[i] = IF i <= Len(a) + 1 THEN Append(a, v)[i] ELSE r[i - (Len(a) + 1)]
    BY <1>2, <2>1
  <2>4. i \in 1..Len(a) => Append(a, t)[i] = a[i] /\ Append(a, v)[i] = a[i]
    BY <1>2
  <2>5. QED
    BY <2>1, <2>2, <2>3, <2>4
<1> HIDE DEF p, q
<1>7. /\ e \in Paths /\ Len(e) = Len(p)
      /\ \A i \in 1..Len(p) : e[i] = IF i = Len(a) + 1 THEN v ELSE p[i]
  BY <1>3, ExceptSeq DEF Paths
<1> HIDE DEF e
<1>8. \A i \in 1..Len(e) : e[i] = q[i]
  BY <1>5, <1>6, <1>7
<1>9. e = q
  BY <1>4, <1>7, <1>8, SeqEqual DEF Paths
<1>10. QED
  BY <1>5, <1>9 DEF e, p, q

(* A set of numbers that has one has a least one.                          *)
LEMMA Least ==
  ASSUME NEW T \in SUBSET Nat, T # {}
  PROVE  \E n \in T : \A m \in T : ~(m < n)
<1> DEFINE R == {pair \in Nat \X Nat : pair[1] < pair[2]}
<1>1. IsWellFoundedOn(R, Nat)
  BY Zenon, NatLessThanWellFounded DEF OpToRel
<1>2. \E n \in T : \A m \in T : ~(<<m, n>> \in R)
  <2> HIDE DEF R
  <2>1. QED
    BY <1>1, WFMin
<1>3. QED
  BY <1>2

(* A document has every path above one it has.                             *)
LEMMA PrefixClosed ==
  ASSUME NEW doc \in Document, NEW a \in Paths, NEW p \in DOMAIN doc, IsPrefix(a, p)
  PROVE  a \in DOMAIN doc
<1>1. SUFFICES ASSUME a \notin DOMAIN doc PROVE FALSE
  OBVIOUS
<1> DEFINE bad == {x \in DOMAIN doc : IsPrefix(a, x)}
<1>2. DOMAIN doc \subseteq Paths /\ doc \in Trees
  BY WellFormedness DEF Document
<1>3. {Len(x) : x \in bad} \in SUBSET Nat /\ {Len(x) : x \in bad} # {}
  <2>1. \A x \in bad : Len(x) \in Nat
    BY <1>2, LenProperties DEF Paths
  <2>2. p \in bad
    OBVIOUS
  <2> HIDE DEF bad
  <2>3. QED
    BY <2>1, <2>2
<1>4. PICK x \in bad : \A y \in bad : ~(Len(y) < Len(x))
  <2>1. PICK n \in {Len(x) : x \in bad} : \A m \in {Len(x) : x \in bad} : ~(m < n)
    BY <1>3, Least
  <2>2. QED
    BY <2>1
<1>5. x # a /\ x # <<>>
  BY <1>1, <1>4, PrefixOfEmpty
<1>6. PICK u \in Paths, s \in Text : x = Append(u, s)
  BY <1>2, <1>4, <1>5, FrontLast
<1>7. IsPrefix(a, u)
  BY <1>4, <1>5, <1>6, PrefixOfAppend
<1>8. u \in DOMAIN doc
  BY <1>2, <1>4, <1>6, WellFormedness DEF Document, Hangs
<1>9. Len(x) = Len(u) + 1 /\ Len(u) \in Nat
  BY <1>6, FrontLastOfAppend, LenProperties DEF Paths
<1>10. QED
  BY <1>4, <1>7, <1>8, <1>9

(* An element taken out of a list leaves no gap, what follows moves up.    *)
LEMMA ElementRemoved ==
  ASSUME NEW doc \in Document, NEW q \in Paths, NEW s \in Text,
         Append(q, s) \in DOMAIN doc, doc[q] = "list"
  PROVE  /\ RemovedAt(doc, Append(q, s)) \in Document
         /\ RemovedAt(doc, Append(q, s))[<<>>] = doc[<<>>]
<1> DEFINE at     == Append(q, s)
           parent == Front(at)
           n      == Len(at)
           Moves(p, j) == Len(p) >= n /\ IsPrefix(parent, p) /\ IndexOf[p[n]] >= j
           Up(p)   == IF Moves(p, IndexOf[at[n]] + 1)
                      THEN [p EXCEPT ![n] = Segment(IndexOf[p[n]] - 1)] ELSE p
           Down(p) == IF Moves(p, IndexOf[at[n]])
                      THEN [p EXCEPT ![n] = Segment(IndexOf[p[n]] + 1)] ELSE p
           kept    == DOMAIN doc \ Below(doc, at)
           rest    == [p \in {Up(x) : x \in kept} |-> doc[Down(p)]]
           Strict(p) == \E t \in Text, r \in Paths : p = Append(q, t) \o r
           Shift(t)  == IF IndexOf[t] >= IndexOf[s] + 1 THEN Segment(IndexOf[t] - 1) ELSE t
<1>1. parent = q /\ n = Len(q) + 1 /\ at[n] = s /\ at \in Paths
  BY FrontLastOfAppend DEF Last
<1>2. RemovedAt(doc, at) = rest
  BY <1>1 DEF RemovedAt
<1>3. /\ doc \in Trees /\ DOMAIN doc \subseteq Paths /\ <<>> \in DOMAIN doc
      /\ \A p \in DOMAIN doc : doc[p] \in Text
      /\ Hangs(doc, q, s) /\ s \in DOMAIN IndexOf
  BY WellFormedness DEF Document, Hangs, Trees
<1>4. \A t \in DOMAIN IndexOf : t \in Text /\ IndexOf[t] \in Nat
  BY SegmentsAssumption
<1>5. \A p \in Paths : Strict(p) <=> Len(p) >= n /\ IsPrefix(parent, p)
  BY <1>1, Continuation
<1>6. ASSUME NEW t \in Text, NEW r \in Paths, NEW p, p = Append(q, t) \o r
      PROVE  /\ p \in Paths
             /\ p[n] = t
             /\ \A v \in Text : [p EXCEPT ![n] = v] = Append(q, v) \o r
             /\ \A j : Moves(p, j) <=> IndexOf[t] >= j
  <2>1. p \in Paths
    BY <1>6, FrontLastOfAppend, PrefixOfConcat
  <2>2. p[n] = t /\ \A v \in Text : [p EXCEPT ![n] = v] = Append(q, v) \o r
    BY <1>1, <1>6, SegmentExchanged
  <2>3. Strict(p)
    BY <1>6
  <2>4. QED
    BY <1>5, <2>1, <2>2, <2>3
<1>7. ASSUME NEW p \in Paths, ~Strict(p)
      PROVE  Up(p) = p /\ Down(p) = p /\ ~IsPrefix(at, p)
  <2>1. ~IsPrefix(at, p)
    BY <1>1, <1>7, ConcatOfPrefix
  <2>2. QED
    BY <1>5, <1>7, <2>1
<1>8. ASSUME NEW t \in Text, NEW r \in Paths, t # s
      PROVE  ~IsPrefix(at, Append(q, t) \o r)
  <2>1. SUFFICES ASSUME IsPrefix(at, Append(q, t) \o r) PROVE FALSE
    OBVIOUS
  <2>2. PICK u \in Paths : Append(q, t) \o r = at \o u
    <3>1. Append(q, t) \o r \in Paths
      BY FrontLastOfAppend, PrefixOfConcat
    <3>2. QED
      BY <1>1, <2>1, <3>1, ConcatOfPrefix
  <2>3. (Append(q, t) \o r)[n] = t /\ (Append(q, s) \o u)[n] = s
    BY <1>1, SegmentExchanged
  <2>4. QED
    BY <1>8, <2>2, <2>3
<1>9. ASSUME NEW t \in DOMAIN IndexOf, t # s
      PROVE  /\ Shift(t) \in DOMAIN IndexOf
             /\ IF IndexOf[t] > IndexOf[s]
                THEN IndexOf[Shift(t)] = IndexOf[t] - 1 /\ IndexOf[t] - 1 >= IndexOf[s]
                ELSE Shift(t) = t /\ IndexOf[t] < IndexOf[s]
  <2>1. IndexOf[t] # IndexOf[s] /\ IndexOf[t] \in Nat /\ IndexOf[s] \in Nat
    BY <1>3, <1>9, SegmentsAssumption
  <2>2. IndexOf[t] >= IndexOf[s] + 1 => IndexOf[t] - 1 \in 0..IndexOf[t]
    BY <2>1
  <2>3. QED
    BY <1>9, <2>1, <2>2, SegmentOfIndex
<1> HIDE DEF Moves, Strict
<1>10. ASSUME NEW t \in DOMAIN IndexOf, t # s, NEW r \in Paths
       PROVE  /\ Up(Append(q, t) \o r) = Append(q, Shift(t)) \o r
              /\ Down(Append(q, Shift(t)) \o r) = Append(q, t) \o r
  <2> DEFINE low == Append(q, Shift(t)) \o r
             top == Append(q, t) \o r
  <2>1. t \in Text /\ Shift(t) \in Text /\ IndexOf[t] \in Nat /\ IndexOf[s] \in Nat
    BY <1>3, <1>4, <1>9, <1>10
  <2>2. /\ top[n] = t /\ low[n] = Shift(t)
        /\ \A j : Moves(top, j) <=> IndexOf[t] >= j
        /\ \A j : Moves(low, j) <=> IndexOf[Shift(t)] >= j
    <3>1. top = Append(q, t) \o r /\ low = Append(q, Shift(t)) \o r
      OBVIOUS
    <3> HIDE DEF at, n, Shift, low, top
    <3>2. top[n] = t /\ \A j : Moves(top, j) <=> IndexOf[t] >= j
      BY <1>6, <2>1, <3>1
    <3>3. low[n] = Shift(t) /\ \A j : Moves(low, j) <=> IndexOf[Shift(t)] >= j
      BY <1>6, <2>1, <3>1
    <3>4. QED
      BY <3>2, <3>3
  <2>3. [top EXCEPT ![n] = Shift(t)] = low /\ [low EXCEPT ![n] = t] = top
    <3> HIDE DEF Shift
    <3>1. n = Len(q) + 1
      BY <1>1
    <3> HIDE DEF at, n
    <3>2. QED
      BY <2>1, <3>1, SegmentExchanged
  <2> HIDE DEF low, top
  <2>4. CASE IndexOf[t] > IndexOf[s]
    <3>1. IndexOf[t] >= IndexOf[s] + 1 /\ Shift(t) = Segment(IndexOf[t] - 1)
      BY <2>1, <2>4
    <3>2. IndexOf[Shift(t)] >= IndexOf[s] /\ Segment(IndexOf[Shift(t)] + 1) = t
      BY <1>9, <1>10, <2>1, <2>4, SegmentOfIndex
    <3>3. Moves(top, IndexOf[at[n]] + 1) /\ Moves(low, IndexOf[at[n]])
      BY <1>1, <2>2, <3>1, <3>2
    <3>4. Up(top) = [top EXCEPT ![n] = Segment(IndexOf[top[n]] - 1)]
      BY <3>3
    <3>5. Down(low) = [low EXCEPT ![n] = Segment(IndexOf[low[n]] + 1)]
      BY <3>3
    <3>6. Segment(IndexOf[top[n]] - 1) = Shift(t) /\ Segment(IndexOf[low[n]] + 1) = t
      BY <2>2, <3>1, <3>2
    <3> HIDE DEF Up, Down, Shift
    <3>7. Up(top) = low /\ Down(low) = top
      BY <2>3, <3>4, <3>5, <3>6, Zenon
    <3>8. QED
      BY <3>7 DEF low, top
  <2>5. CASE ~(IndexOf[t] > IndexOf[s])
    <3>1. Shift(t) = t /\ ~(IndexOf[t] >= IndexOf[s] + 1) /\ ~(IndexOf[t] >= IndexOf[s])
      BY <1>9, <1>10, <2>1, <2>5
    <3>2. ~Moves(top, IndexOf[at[n]] + 1) /\ ~Moves(low, IndexOf[at[n]])
      BY <1>1, <2>2, <3>1
    <3>3. Up(top) = top /\ Down(low) = low
      BY <3>2
    <3>4. low = top
      BY <3>1 DEF low, top
    <3> HIDE DEF Up, Down, Shift
    <3>5. QED
      BY <3>3, <3>4 DEF low, top
  <2>6. QED
    BY <2>4, <2>5
<1> HIDE DEF Up, Down, Shift
<1>11. ASSUME NEW t \in Text, NEW r \in Paths, Append(q, t) \o r \in DOMAIN doc
       PROVE  t \in DOMAIN IndexOf /\ Append(q, t) \in DOMAIN doc
  <2>1. Append(q, t) \in Paths /\ IsPrefix(Append(q, t), Append(q, t) \o r)
    BY FrontLastOfAppend, PrefixOfConcat
  <2>2. Append(q, t) \in DOMAIN doc
    BY <1>11, <2>1, PrefixClosed
  <2>3. QED
    BY <1>3, <2>2, WellFormedness DEF Document, Hangs
<1>12. ASSUME NEW p \in kept
       PROVE  /\ Up(p) \in Paths /\ Down(Up(p)) = p
              /\ Up(p) \in DOMAIN rest /\ rest[Up(p)] = doc[p]
  <2>1. Up(p) \in Paths /\ Down(Up(p)) = p
    <3>1. CASE ~Strict(p)
      BY <1>3, <1>7, <3>1
    <3>2. CASE Strict(p)
      <4>1. PICK t \in Text, r \in Paths : p = Append(q, t) \o r
        BY <3>2 DEF Strict
      <4>2. t # s
        BY <1>3, <1>12, <4>1, PrefixOfConcat, FrontLastOfAppend DEF Below
      <4>3. t \in DOMAIN IndexOf
        BY <1>11, <1>12, <4>1
      <4>4. Up(p) = Append(q, Shift(t)) \o r /\ Down(Up(p)) = p
        BY <1>10, <4>1, <4>2, <4>3, Zenon
      <4>5. Shift(t) \in Text
        BY <1>4, <1>9, <4>2, <4>3
      <4>6. QED
        BY <1>6, <4>4, <4>5
    <3>3. QED
      BY <3>1, <3>2
  <2>2. QED
    BY <2>1
<1>13. \A p \in DOMAIN rest : \E x \in kept : p = Up(x)
  OBVIOUS
<1>14. rest \in Trees
  <2>1. {Up(x) : x \in kept} \in SUBSET Paths
    BY <1>12
  <2>2. \A p \in {Up(x) : x \in kept} : doc[Down(p)] \in Text
    BY <1>3, <1>12
  <2>3. rest \in [{Up(x) : x \in kept} -> Text]
    BY <2>2
  <2>4. QED
    BY <2>1, <2>3 DEF Trees
<1> HIDE DEF rest
<1>15. ASSUME NEW p \in DOMAIN doc, ~Strict(p)
       PROVE  p \in DOMAIN rest /\ rest[p] = doc[p]
  <2>1. p \in kept /\ Up(p) = p
    BY <1>3, <1>7, <1>15 DEF Below
  <2>2. QED
    BY <1>12, <2>1
<1>16. ASSUME NEW t \in Text, NEW r \in Paths, Append(q, t) \o r \in DOMAIN doc, t # s
       PROVE  /\ Append(q, Shift(t)) \o r \in DOMAIN rest
              /\ rest[Append(q, Shift(t)) \o r] = doc[Append(q, t) \o r]
  <2>1. t \in DOMAIN IndexOf
    BY <1>11, <1>16
  <2>2. Append(q, t) \o r \in kept
    BY <1>8, <1>16 DEF Below
  <2>3. Up(Append(q, t) \o r) = Append(q, Shift(t)) \o r
    BY <1>10, <1>16, <2>1
  <2>4. QED
    BY <1>12, <2>2, <2>3
<1>17. ~Strict(<<>>) /\ ~Strict(q)
  <2>1. Len(<<>>) = 0 /\ <<>> \in Paths /\ Len(q) \in Nat
    BY EmptySeq, LenProperties DEF Paths
  <2>2. QED
    BY <1>1, <1>5, <2>1
<1>18. ASSUME NEW u \in Paths, NEW v \in Text, Append(u, v) \in DOMAIN rest
       PROVE  Hangs(rest, u, v)
  <2>1. PICK x \in kept : Append(u, v) = Up(x)
    BY <1>13, <1>18
  <2>2. x \in Paths /\ x \in DOMAIN doc
    BY <1>3
  <2>3. CASE ~Strict(x)
    <3>1. Append(u, v) = x
      BY <1>7, <2>1, <2>2, <2>3
    <3>2. Hangs(doc, u, v)
      BY <2>2, <3>1, WellFormedness DEF Document
    <3>3. ASSUME NEW t \in Text, Append(u, t) \in DOMAIN doc
          PROVE  Append(u, t) \in DOMAIN rest
      <4>1. ~Strict(Append(u, t))
        <5>1. SUFFICES ASSUME Strict(Append(u, t)) PROVE FALSE
          OBVIOUS
        <5>2. Append(u, t) \in Paths /\ Len(Append(u, t)) = Len(u) + 1 /\ Len(x) = Len(u) + 1
          BY <3>1, FrontLastOfAppend
        <5>3. Len(Append(u, t)) >= n /\ IsPrefix(q, Append(u, t))
          BY <1>1, <1>5, <5>1, <5>2
        <5>4. CASE IsPrefix(q, u)
          <6>1. IsPrefix(q, x)
            BY <3>1, <5>4, PrefixOfAppend
          <6>2. QED
            BY <1>1, <1>5, <2>2, <2>3, <5>2, <5>3, <6>1
        <5>5. CASE q = Append(u, t)
          BY <1>17, <5>1, <5>5
        <5>6. QED
          BY <5>3, <5>4, <5>5, PrefixOfAppend
      <4>2. QED
        BY <1>15, <3>3, <4>1
    <3>4. ~Strict(u)
      <4>1. ASSUME NEW t \in Text, NEW r \in Paths, u = Append(q, t) \o r
            PROVE  FALSE
        <5>1. Append(q, t) \o Append(r, v) = Append(Append(q, t) \o r, v) /\ Append(r, v) \in Paths
          <6>1. Append(q, t) \in Paths /\ Append(r, v) \in Paths
            BY FrontLastOfAppend
          <6>2. QED
            BY <6>1, ConcatAppend
        <5>2. x = Append(q, t) \o Append(r, v)
          BY <3>1, <4>1, <5>1, Zenon
        <5>3. QED
          BY <2>3, <5>1, <5>2 DEF Strict
      <4>2. QED
        BY <4>1 DEF Strict
    <3>5. u \in DOMAIN rest /\ rest[u] = doc[u]
      BY <1>15, <3>2, <3>4 DEF Hangs
    <3>6. UpTo(v) \subseteq Text
      BY <1>4 DEF UpTo
    <3>7. QED
      BY <3>2, <3>3, <3>5, <3>6 DEF Hangs
  <2>4. CASE Strict(x)
    <3>1. PICK t \in Text, r \in Paths : x = Append(q, t) \o r
      BY <2>4 DEF Strict
    <3>2. t # s
      BY <1>3, <2>2, <3>1, PrefixOfConcat, FrontLastOfAppend DEF Below
    <3>3. t \in DOMAIN IndexOf
      BY <1>11, <2>2, <3>1
    <3>4. Shift(t) \in DOMAIN IndexOf /\ Shift(t) \in Text
      BY <1>4, <1>9, <3>2, <3>3
    <3>5. Append(u, v) = Append(q, Shift(t)) \o r
      BY <1>10, <2>1, <3>1, <3>2, <3>3, Zenon
    <3>6. CASE r = <<>>
      <4>1. \A w \in Text : Append(q, w) \o <<>> = Append(q, w)
        BY FrontLastOfAppend, ConcatEmptySeq DEF Paths
      <4>2. u = q /\ v = Shift(t)
        <5>1. Append(u, v) = Append(q, Shift(t))
          BY <3>4, <3>5, <3>6, <4>1, Zenon
        <5>2. Front(Append(u, v)) = u /\ Last(Append(u, v)) = v
          BY FrontLastOfAppend
        <5>3. Front(Append(q, Shift(t))) = q /\ Last(Append(q, Shift(t))) = Shift(t)
          BY <3>4, FrontLastOfAppend
        <5>4. QED
          BY <5>1, <5>2, <5>3, Zenon
      <4>3. q \in DOMAIN rest /\ rest[q] = "list"
        BY <1>3, <1>15, <1>17 DEF Hangs
      <4>4. Append(q, t) \in DOMAIN doc /\ Hangs(doc, q, t)
        BY <1>11, <2>2, <3>1, WellFormedness DEF Document
      <4>5. ASSUME NEW w \in UpTo(t), w # s
            PROVE  Append(q, Shift(w)) \in DOMAIN rest
        <5>1. w \in DOMAIN IndexOf /\ w \in Text /\ Append(q, w) \in DOMAIN doc
          BY <1>4, <4>4 DEF Hangs, UpTo
        <5>2. Append(q, Shift(w)) \o <<>> \in DOMAIN rest
          BY <1>16, <4>1, <4>5, <5>1, EmptySeq DEF Paths
        <5>3. Shift(w) \in Text
          BY <1>4, <1>9, <4>5, <5>1
        <5>4. QED
          BY <4>1, <5>2, <5>3
      <4>6. ASSUME NEW w \in UpTo(v)
            PROVE  Append(q, w) \in DOMAIN rest
        <5>1. /\ w \in DOMAIN IndexOf /\ IndexOf[w] \in Nat /\ IndexOf[w] <= IndexOf[v]
              /\ IndexOf[s] \in Nat /\ IndexOf[t] \in Nat
          BY <1>3, <1>4, <3>3, <4>6 DEF UpTo
        <5>2. CASE IndexOf[w] < IndexOf[s]
          <6>1. w # s /\ Shift(w) = w
            BY <1>9, <5>1, <5>2
          <6>2. w \in UpTo(t)
            BY <1>9, <3>2, <3>3, <4>2, <5>1 DEF UpTo
          <6>3. QED
            BY <4>5, <6>1, <6>2
        <5>3. CASE ~(IndexOf[w] < IndexOf[s])
          <6>1. IndexOf[t] > IndexOf[s] /\ IndexOf[w] + 1 <= IndexOf[t]
            BY <1>9, <3>2, <3>3, <4>2, <5>1, <5>3
          <6>2. PICK z \in DOMAIN IndexOf : IndexOf[z] = IndexOf[w] + 1
            <7>1. IndexOf[w] + 1 \in 0..IndexOf[t]
              BY <5>1, <6>1
            <7>2. QED
              BY <3>3, <7>1, SegmentOfIndex
          <6>3. z \in UpTo(t) /\ z # s
            BY <5>1, <5>3, <6>1, <6>2 DEF UpTo
          <6>4. Shift(z) \in DOMAIN IndexOf /\ IndexOf[Shift(z)] = IndexOf[w]
            BY <1>9, <5>1, <5>3, <6>2, <6>3
          <6>5. Shift(z) = w
            BY <5>1, <6>4, SegmentsAssumption
          <6>6. QED
            BY <4>5, <6>3, <6>5
        <5>4. QED
          BY <5>2, <5>3
      <4>7. QED
        BY <3>4, <4>2, <4>3, <4>6 DEF Hangs, Containers
    <3>7. CASE r # <<>>
      <4>1. PICK r1 \in Paths, v1 \in Text : r = Append(r1, v1)
        BY <3>7, FrontLast
      <4>2. ASSUME NEW w \in Text, NEW z \in Text
            PROVE  /\ Append(q, w) \o Append(r1, z) = Append(Append(q, w) \o r1, z)
                   /\ Append(q, w) \o r1 \in Paths /\ Append(r1, z) \in Paths
        <5>1. Append(q, w) \in Paths /\ Append(r1, z) \in Paths
          BY FrontLastOfAppend
        <5>2. Append(q, w) \o r1 \in Paths
          BY <5>1, PrefixOfConcat
        <5>3. QED
          BY <5>1, <5>2, ConcatAppend
      <4>3. u = Append(q, Shift(t)) \o r1 /\ v = v1
        <5>1. Append(u, v) = Append(Append(q, Shift(t)) \o r1, v1)
          BY <3>4, <3>5, <4>1, <4>2, Zenon
        <5>2. Front(Append(u, v)) = u /\ Last(Append(u, v)) = v
          BY FrontLastOfAppend
        <5>3. /\ Front(Append(Append(q, Shift(t)) \o r1, v1)) = Append(q, Shift(t)) \o r1
              /\ Last(Append(Append(q, Shift(t)) \o r1, v1)) = v1
          <6>1. Append(q, Shift(t)) \o r1 \in Paths
            BY <3>4, <4>2
          <6>2. QED
            BY <6>1, FrontLastOfAppend
        <5>4. QED
          BY <5>1, <5>2, <5>3, Zenon
      <4>4. Hangs(doc, Append(q, t) \o r1, v1)
        <5>1. Append(Append(q, t) \o r1, v1) \in DOMAIN doc
          BY <2>2, <3>1, <4>1, <4>2, Zenon
        <5>2. Append(q, t) \o r1 \in Paths
          BY <4>2
        <5>3. QED
          BY <5>1, <5>2, WellFormedness DEF Document
      <4>5. u \in DOMAIN rest /\ rest[u] = doc[Append(q, t) \o r1]
        BY <1>16, <3>2, <4>3, <4>4 DEF Hangs
      <4>6. ASSUME NEW z \in Text, Append(Append(q, t) \o r1, z) \in DOMAIN doc
            PROVE  Append(u, z) \in DOMAIN rest
        <5>1. Append(q, t) \o Append(r1, z) \in DOMAIN doc /\ Append(r1, z) \in Paths
          BY <4>2, <4>6
        <5>2. Append(q, Shift(t)) \o Append(r1, z) \in DOMAIN rest
          BY <1>16, <3>2, <5>1
        <5>3. Append(q, Shift(t)) \o Append(r1, z) = Append(Append(q, Shift(t)) \o r1, z)
          BY <3>4, <4>2
        <5>4. QED
          BY <4>3, <5>2, <5>3, Zenon
      <4>7. UpTo(v1) \subseteq Text
        BY <1>4 DEF UpTo
      <4>8. QED
        BY <4>3, <4>4, <4>5, <4>6, <4>7 DEF Hangs
    <3>8. QED
      BY <3>6, <3>7
  <2>5. QED
    BY <2>3, <2>4
<1>19. <<>> \in DOMAIN rest /\ rest[<<>>] = doc[<<>>]
  BY <1>3, <1>15, <1>17
<1>20. WellFormed(rest)
  BY <1>14, <1>18, <1>19, WellFormedness
<1>21. QED
  BY <1>2, <1>14, <1>19, <1>20 DEF Document
(* What RemovedAt leaves is a document, whatever the parent is.            *)
LEMMA RemovedIsDocument ==
  ASSUME NEW doc \in Document, NEW at \in DOMAIN doc, at # <<>>
  PROVE  /\ RemovedAt(doc, at) \in Document
         /\ RemovedAt(doc, at)[<<>>] = doc[<<>>]
<1>1. at \in Paths
  BY WellFormedness DEF Document
<1>2. PICK q \in Paths, s \in Text : at = Append(q, s)
  BY <1>1, FrontLast
<1>3. Front(at) = q
  BY <1>2, FrontLastOfAppend
<1>4. CASE doc[q] = "list"
  BY <1>2, <1>4, ElementRemoved
<1>5. CASE doc[q] # "list"
  <2>1. RemovedAt(doc, at) = Without(doc, at)
    BY <1>3, <1>5 DEF RemovedAt
  <2>2. QED
    BY <1>2, <1>5, <2>1, WithoutIsDocument
<1>6. QED
  BY <1>4, <1>5
-----------------------------------------------------------------------------
(* Folds.                                                                  *)

(* Induction on the numbers, for sets of them.                             *)
LEMMA NatSets ==
  ASSUME NEW T \in SUBSET Nat, 0 \in T, \A n \in T : n + 1 \in T
  PROVE  T = Nat
<1>1. SUFFICES ASSUME Nat \ T # {} PROVE FALSE
  OBVIOUS
<1>2. PICK n \in Nat \ T : \A m \in Nat \ T : ~(m < n)
  BY <1>1, Least
<1>3. n # 0 /\ n - 1 \in Nat
  BY <1>2
<1>4. n - 1 \in T
  BY <1>2, <1>3
<1>5. QED
  BY <1>2, <1>3, <1>4

(* What the fold of op over 1..N makes of each set of indices.             *)
Folds(g, N, base, op) ==
  \A s \in SUBSET (1..N) : g[s] = IF s = {} THEN base ELSE op[<<g[s \ {Max(s)}], Max(s)>>]

(* Such a function exists, and takes the largest index of a set last.      *)
LEMMA Folding ==
  ASSUME NEW N \in Nat, NEW D, NEW base \in D, NEW op \in [D \X (1..N) -> D]
  PROVE  /\ \A s \in SUBSET (1..N) : s # {} => Max(s) \in s
         /\ \A n \in 1..N : Max(1..n) = n
         /\ \E g \in [SUBSET (1..N) -> D] : Folds(g, N, base, op)
<1> DEFINE Good(K) ==
             /\ \A s \in SUBSET (1..K) : s # {} => Max(s) \in s
             /\ \E g \in [SUBSET (1..K) -> D] :
                  \A s \in SUBSET (1..K) :
                    g[s] = IF s = {} THEN base ELSE op[<<g[s \ {Max(s)}], Max(s)>>]
           T == {K \in Nat : K <= N => Good(K)}
<1>1. 0 \in T
  <2> DEFINE g0 == [s \in SUBSET (1..0) |-> base]
  <2>1. g0 \in [SUBSET (1..0) -> D] /\ \A s \in SUBSET (1..0) : s = {} /\ g0[s] = base
    OBVIOUS
  <2> HIDE DEF g0
  <2>2. Good(0)
    BY <2>1
  <2>3. QED
    BY <2>2
<1>2. ASSUME NEW K \in T
      PROVE  K + 1 \in T
  <2> HIDE DEF Good
  <2>1. SUFFICES ASSUME K \in Nat, K + 1 <= N, Good(K) PROVE Good(K + 1)
    OBVIOUS
  <2> USE DEF Good
  <2>2. \A s \in SUBSET (1..K + 1) : s \in SUBSET (1..K) \/ K + 1 \in s
    BY <2>1
  <2>3. ASSUME NEW s \in SUBSET (1..K + 1), K + 1 \in s
        PROVE  Max(s) = K + 1 /\ s \ {K + 1} \in SUBSET (1..K)
    <3>1. \A y \in s : y \in Nat /\ y <= K + 1
      BY <2>1, <2>3
    <3>2. \A x \in s : (\A y \in s : x >= y) <=> x = K + 1
      BY <2>1, <2>3, <3>1
    <3>3. (CHOOSE x \in s : \A y \in s : x >= y) = K + 1
      BY <2>3, <3>2
    <3>4. s \ {K + 1} \in SUBSET (1..K)
      BY <2>1, <3>1
    <3>5. QED
      BY <3>3, <3>4 DEF Max
  <2>4. \A s \in SUBSET (1..K + 1) : s # {} => Max(s) \in s
    BY <2>1, <2>2, <2>3
  <2>5. PICK g \in [SUBSET (1..K) -> D] :
          \A s \in SUBSET (1..K) : g[s] = IF s = {} THEN base ELSE op[<<g[s \ {Max(s)}], Max(s)>>]
    BY <2>1
  <2> DEFINE h == [s \in SUBSET (1..K + 1) |->
                     IF K + 1 \in s THEN op[<<g[s \ {K + 1}], K + 1>>] ELSE g[s]]
  <2>6. h \in [SUBSET (1..K + 1) -> D]
    <3>1. ASSUME NEW s \in SUBSET (1..K + 1)
          PROVE  (IF K + 1 \in s THEN op[<<g[s \ {K + 1}], K + 1>>] ELSE g[s]) \in D
      <4>1. CASE K + 1 \in s
        <5>1. g[s \ {K + 1}] \in D /\ K + 1 \in 1..N
          BY <2>1, <2>3, <2>5, <4>1
        <5>2. QED
          BY <4>1, <5>1
      <4>2. CASE K + 1 \notin s
        BY <2>2, <2>5, <4>2
      <4>3. QED
        BY <4>1, <4>2
    <3>2. QED
      BY <3>1
  <2>7. \A s \in SUBSET (1..K) : K + 1 \notin s /\ s \in SUBSET (1..K + 1) /\ h[s] = g[s]
    BY <2>1
  <2>8. \A s \in SUBSET (1..K + 1) : K + 1 \in s => h[s] = op[<<g[s \ {K + 1}], K + 1>>]
    OBVIOUS
  <2> HIDE DEF h
  <2>9. ASSUME NEW s \in SUBSET (1..K + 1)
        PROVE  h[s] = IF s = {} THEN base ELSE op[<<h[s \ {Max(s)}], Max(s)>>]
    <3>1. CASE K + 1 \in s
      BY <2>3, <2>7, <2>8, <3>1
    <3>2. CASE s \in SUBSET (1..K)
      <4>1. s \ {Max(s)} \in SUBSET (1..K)
        BY <3>2
      <4>2. h[s] = g[s] /\ h[s \ {Max(s)}] = g[s \ {Max(s)}]
        BY <2>7, <3>2, <4>1
      <4>3. QED
        BY <2>5, <3>2, <4>2
    <3>3. QED
      BY <2>2, <3>1, <3>2
  <2>10. QED
    BY <2>4, <2>6, <2>9
<1> HIDE DEF Good
<1>3. T = Nat
  BY <1>1, <1>2, NatSets
<1>4. Good(N)
  BY <1>3
<1>5. \A n \in 1..N : Max(1..n) = n
  BY DEF Max
<1>6. QED
  BY <1>4, <1>5 DEF Good, Folds

(* The same up to a bound.                                                 *)
LEMMA UpToN ==
  ASSUME NEW N \in Nat, NEW T \in SUBSET (0..N), 0 \in T, \A n \in 1..N : n - 1 \in T => n \in T
  PROVE  T = 0..N
<1> DEFINE U == {n \in Nat : n <= N => n \in T}
<1>1. 0 \in U
  OBVIOUS
<1>2. \A n \in U : n + 1 \in U
  OBVIOUS
<1> HIDE DEF U
<1>3. U = Nat
  <2>1. U \in SUBSET Nat
    BY DEF U
  <2>2. QED
    BY <1>1, <1>2, <2>1, NatSets
<1>4. QED
  <2>1. ASSUME NEW n \in 0..N PROVE n \in T
    <3>1. n \in U /\ n <= N
      BY <1>3
    <3>2. QED
      BY <3>1 DEF U
  <2>2. QED
    BY <2>1

(* The first n indices are the first n - 1, and n.                         *)
LEMMA Initial ==
  ASSUME NEW N \in Nat, NEW n \in 1..N
  PROVE  /\ 1..n \in SUBSET (1..N) /\ 1..n # {}
         /\ (1..n) \ {n} = 1..(n - 1)
         /\ n - 1 \in 0..N
<1>1. n \in (1..n) /\ 1..n \in SUBSET (1..N) /\ n - 1 \in 0..N
  OBVIOUS
<1>2. \A i : i \in (1..n) \ {n} <=> i \in 1..(n - 1)
  OBVIOUS
<1>3. QED
  BY <1>1, <1>2

(* What the fold of op makes of each set of indices, as long as it stays   *)
(* within D.                                                               *)
FoldsWithin(g, N, D, base, op) ==
  /\ g[{}] = base
  /\ \A s \in SUBSET (1..N) : s # {} /\ g[s \ {Max(s)}] \in D =>
       g[s] = op[<<g[s \ {Max(s)}], Max(s)>>]

(* From the base to last by one op per index.                              *)
Leads(way, N, base, op, last) ==
  /\ way[0] = base /\ way[N] = last
  /\ \A n \in 1..N : way[n] = op[<<way[n - 1], n>>]

(* A fold whose steps stay within a set is the last of a sequence in it,   *)
(* each one step on from the one before.                                   *)
LEMMA FoldSteps ==
  ASSUME NEW N \in Nat, NEW D, NEW base \in D, NEW op \in [D \X (1..N) -> D], NEW ch,
         FoldsWithin(ch, N, D, base, op)
  PROVE  \E way \in [0..N -> D] : Leads(way, N, base, op, ch[1..N])
<1> DEFINE T == {n \in 0..N : ch[1..n] \in D}
           way == [n \in 0..N |-> ch[1..n]]
<1>1. 0 \in T /\ ch[1..0] = base
  BY DEF FoldsWithin
<1>2. ASSUME NEW n \in 1..N, ch[1..(n - 1)] \in D
      PROVE  ch[1..n] = op[<<ch[1..(n - 1)], n>>] /\ ch[1..n] \in D
  <2>1. 1..n \in SUBSET (1..N) /\ 1..n # {} /\ (1..n) \ {n} = 1..(n - 1)
    BY Initial, Zenon
  <2>2. Max(1..n) = n
    BY Folding, Zenon
  <2>3. ch[(1..n) \ {Max(1..n)}] \in D
    BY <1>2, <2>1, <2>2
  <2>4. ch[1..n] = op[<<ch[(1..n) \ {Max(1..n)}], Max(1..n)>>]
    BY <2>1, <2>3 DEF FoldsWithin
  <2>5. \A d \in D : op[<<d, n>>] \in D
    OBVIOUS
  <2>6. ch[1..n] = op[<<ch[1..(n - 1)], n>>]
    BY <2>1, <2>2, <2>4, Zenon
  <2>7. QED
    BY <1>2, <2>5, <2>6, Zenon
<1>3. ASSUME NEW n \in 1..N, n - 1 \in T
      PROVE  n \in T
  <2>1. ch[1..n] \in D
    BY <1>2, <1>3
  <2>2. QED
    BY <2>1
<1>4. T \in SUBSET (0..N)
  OBVIOUS
<1> HIDE DEF T
<1>5. T = 0..N
  BY <1>1, <1>3, <1>4, UpToN
<1>6. \A n \in 0..N : ch[1..n] \in D
  BY <1>5 DEF T
<1>7. \A n \in 1..N : n \in 0..N /\ n - 1 \in 0..N
  OBVIOUS
<1>8. \A n \in 1..N : way[n] = op[<<way[n - 1], n>>]
  BY <1>2, <1>6, <1>7
<1>9. way \in [0..N -> D] /\ way[0] = base /\ way[N] = ch[1..N]
  BY <1>1, <1>6
<1> HIDE DEF way
<1>10. Leads(way, N, base, op, ch[1..N])
  BY <1>8, <1>9 DEF Leads
<1>11. QED
  BY <1>9, <1>10

(* So it stays within the set.                                             *)
LEMMA FoldStays ==
  ASSUME NEW N \in Nat, NEW D, NEW base \in D, NEW op \in [D \X (1..N) -> D], NEW ch,
         FoldsWithin(ch, N, D, base, op)
  PROVE  ch[1..N] \in D
<1>1. PICK way \in [0..N -> D] : Leads(way, N, base, op, ch[1..N])
  BY FoldSteps, Zenon
<1>2. N \in 0..N
  OBVIOUS
<1>3. QED
  BY <1>1, <1>2 DEF Leads
-----------------------------------------------------------------------------
(* Reading a nested field.                                                 *)

(* What a segment names is a place below the container.                    *)
LEMMA NamedIs ==
  ASSUME NEW doc \in Trees, NEW at \in Paths, NEW s \in Text
  PROVE  Named(doc, at, s) \subseteq {Append(at, t) : t \in Text}
<1>1. \A t \in DOMAIN IndexOf : t \in Text
  BY SegmentsAssumption
<1>2. QED
  BY <1>1 DEF Named, MatchPredicate, Elements

(* A set of one element has one.                                           *)
LEMMA OneOf ==
  ASSUME NEW S, Cardinality(S) = 1
  PROVE  (CHOOSE x \in S : TRUE) \in S
BY FS_EmptySet

(* One segment of GetNestedField.                                          *)
ReadStep(doc, walk, segment) ==
  LET Advance(w, s, hits) ==
        LET here == doc[w.at]
        IN  CASE \/ here \notin Containers
                 \/ here = "list" /\ s \notin DOMAIN IndexOf \cup DOMAIN PredicateOf
                 \/ Cardinality(hits) > 1
                   -> [w EXCEPT !.is = "error"]
              [] Cardinality(hits) = 1
                   -> [w EXCEPT !.at = CHOOSE h \in hits : TRUE]
              [] OTHER
                   -> [w EXCEPT !.is = "absent"]
  IN  IF walk.is # "found" THEN walk
      ELSE Advance(walk, segment, Named(doc, walk.at, segment) \cap DOMAIN doc)

ReadWalks(doc) == [at : DOMAIN doc, is : {"found", "error", "absent"}]

(* It goes one place further, and never back to the root.                  *)
LEMMA ReadStepIs ==
  ASSUME NEW doc \in Document, NEW walk \in ReadWalks(doc), NEW segment \in Text
  PROVE  /\ ReadStep(doc, walk, segment) \in ReadWalks(doc)
         /\ ReadStep(doc, walk, segment).is = "found" => ReadStep(doc, walk, segment).at # <<>>
<1> DEFINE hits == Named(doc, walk.at, segment) \cap DOMAIN doc
           step == ReadStep(doc, walk, segment)
<1>1. walk.at \in Paths /\ doc \in Trees /\ walk.at \in DOMAIN doc
  BY WellFormedness DEF Document, ReadWalks
<1>2. hits \subseteq DOMAIN doc \ {<<>>}
  BY <1>1, NamedIs, FrontLastOfAppend
<1> HIDE DEF hits
<1>3. Cardinality(hits) = 1 => (CHOOSE h \in hits : TRUE) \in DOMAIN doc \ {<<>>}
  BY <1>2, OneOf
<1>4. \/ walk.is # "found" /\ step = walk
      \/ walk.is = "found" /\ step = [walk EXCEPT !.is = "error"]
      \/ walk.is = "found" /\ step = [walk EXCEPT !.is = "absent"]
      \/ /\ walk.is = "found" /\ Cardinality(hits) = 1
         /\ step = [walk EXCEPT !.at = CHOOSE h \in hits : TRUE]
  BY DEF ReadStep, hits
<1> HIDE DEF step
<1>5. QED
  BY <1>1, <1>3, <1>4 DEF step, ReadWalks

(* GetNestedField takes one such step for each segment.                    *)
LEMMA Reading ==
  ASSUME NEW doc \in Document, NEW path \in Paths
  PROVE  \E way \in [0..Len(path) -> ReadWalks(doc)] :
           /\ way[0] = [at |-> <<>>, is |-> "found"]
           /\ \A n \in 1..Len(path) : way[n] = ReadStep(doc, way[n - 1], path[n])
           /\ GetNestedField(doc, path) = way[Len(path)]
<1> DEFINE Step(walk, segment) == ReadStep(doc, walk, segment)
           base == [at |-> <<>>, is |-> "found"]
           P(it) == it = [s \in SUBSET DOMAIN path |->
                            IF s = {} THEN base ELSE Step(it[s \ {Max(s)}], path[Max(s)])]
           ch == CHOOSE it : P(it)
           N == Len(path)
           D == ReadWalks(doc)
           op == [pair \in D \X (1..N) |-> Step(pair[1], path[pair[2]])]
<1>1. GetNestedField(doc, path) = ch[DOMAIN path]
  BY Zenon DEF GetNestedField, FoldLeft, MapThenFoldSet, ReadStep
<1>2. /\ <<>> \in DOMAIN doc
      /\ N \in Nat /\ DOMAIN path = 1..N /\ \A i \in 1..N : path[i] \in Text
  BY WellFormedness, LenProperties, ElementOfSeq DEF Document, Paths
<1>3. ASSUME NEW walk \in D, NEW segment \in Text
      PROVE  Step(walk, segment) \in D
  BY ReadStepIs
<1>4. base \in D
  BY <1>2 DEF ReadWalks
<1> HIDE DEF Step
<1>5. op \in [D \X (1..N) -> D]
  BY <1>2, <1>3
<1>6. \A walk \in D, i \in 1..N : op[<<walk, i>>] = Step(walk, path[i])
  OBVIOUS
<1> HIDE DEF op, D, base, N
<1>7. PICK g \in [SUBSET (1..N) -> D] : Folds(g, N, base, op)
  BY <1>2, <1>4, <1>5, Folding, Zenon
<1>8. \A s \in SUBSET (1..N) : s # {} => Max(s) \in s /\ Max(s) \in 1..N
  <2>1. \A s \in SUBSET (1..N) : s # {} => Max(s) \in s
    BY <1>2, <1>4, <1>5, Folding, Zenon
  <2>2. QED
    BY <2>1
<1>9. P(g)
  <2>1. ASSUME NEW s \in SUBSET (1..N), s # {}
        PROVE  g[s] = Step(g[s \ {Max(s)}], path[Max(s)])
    <3>1. g[s \ {Max(s)}] \in D /\ Max(s) \in 1..N
      BY <1>8, <2>1
    <3>2. g[s] = op[<<g[s \ {Max(s)}], Max(s)>>]
      BY <1>7, <2>1 DEF Folds
    <3>3. QED
      BY <1>6, <3>1, <3>2
  <2>2. g[{}] = base
    BY <1>7 DEF Folds
  <2>3. QED
    BY <1>2, <2>1, <2>2
<1> HIDE DEF P
<1>10. P(ch)
  BY <1>9, Zenon
<1>11. ch[{}] = base /\ \A s \in SUBSET (1..N) : s # {} => ch[s] = Step(ch[s \ {Max(s)}], path[Max(s)])
  BY <1>2, <1>10 DEF P
<1> HIDE DEF ch
<1>12. FoldsWithin(ch, N, D, base, op)
  BY <1>6, <1>8, <1>11 DEF FoldsWithin
<1>13. PICK way \in [0..N -> D] : Leads(way, N, base, op, ch[1..N])
  BY <1>2, <1>4, <1>5, <1>12, FoldSteps, Zenon
<1>14. \A n \in 1..N : way[n] = ReadStep(doc, way[n - 1], path[n])
  <2>1. \A n \in 1..N : n - 1 \in 0..N
    BY <1>2
  <2>2. QED
    BY <1>6, <1>13, <2>1 DEF Step, Leads
<1>15. GetNestedField(doc, path) = way[N] /\ way[0] = base
  BY <1>1, <1>2, <1>13 DEF Leads
<1>16. QED
  BY <1>14, <1>15 DEF base, D, N

(* GetNestedField leads to a place in the document, and to the root only   *)
(* on the empty path.                                                      *)
THEOREM ReadWithinDocument ==
  ASSUME NEW doc \in Document, NEW path \in Paths
  PROVE  /\ GetNestedField(doc, path) \in [at : DOMAIN doc, is : {"found", "error", "absent"}]
         /\ Found(doc, path) /\ path # <<>> => GetNestedField(doc, path).at # <<>>
<1> DEFINE N == Len(path)
<1>1. N \in Nat /\ (path # <<>> => N # 0) /\ \A n \in 1..N : path[n] \in Text
  BY EmptySeq, LenProperties, ElementOfSeq DEF Paths
<1>2. PICK way \in [0..N -> ReadWalks(doc)] :
        /\ \A n \in 1..N : way[n] = ReadStep(doc, way[n - 1], path[n])
        /\ GetNestedField(doc, path) = way[N]
  BY Reading
<1>3. path # <<>> => N \in 1..N /\ N - 1 \in 0..N
  BY <1>1
<1> HIDE DEF N
<1>4. path # <<>> => (way[N].is = "found" => way[N].at # <<>>)
  BY <1>1, <1>2, <1>3, ReadStepIs
<1>5. way[N] \in ReadWalks(doc)
  BY <1>1, <1>2
<1>6. QED
  BY <1>2, <1>4, <1>5 DEF Found, ReadWalks

(* RemoveNestedField leaves a document, of the kind it was.                *)
THEOREM RemovalKeepsDocument ==
  ASSUME NEW doc \in Document, NEW path \in Paths
  PROVE  /\ RemoveNestedField(doc, path) \in Document
         /\ RemoveNestedField(doc, path)[<<>>] = doc[<<>>]
BY ReadWithinDocument, RemovedIsDocument DEF RemoveNestedField

(* What GetNestedField finds is a document.                                *)
THEOREM ValueIsDocument ==
  ASSUME NEW doc \in Document, NEW path \in Paths
  PROVE  Value(doc, path) \in Document
BY ReadWithinDocument, SubIsDocument DEF Value
-----------------------------------------------------------------------------
(* Writing a nested field.                                                 *)

(* What Grown makes of anything.                                           *)
LEMMA GrownIsTree ==
  ASSUME NEW doc \in Trees, NEW at \in Paths, NEW s \in Text
  PROVE  Grown(doc, at, s) \in Trees
<1>1. CASE ~(doc[at] = "list" /\ s \in DOMAIN IndexOf)
  BY <1>1 DEF Grown
<1>2. CASE doc[at] = "list" /\ s \in DOMAIN IndexOf
  <2> DEFINE missing == {Append(at, Segment(i)) : i \in 0..IndexOf[s]} \ DOMAIN doc
             At(p)   == IF p \in missing THEN "null" ELSE doc[p]
  <2>1. \A i \in 0..IndexOf[s] : Segment(i) \in Text
    <3>1. \A i \in 0..IndexOf[s] : Segment(i) \in DOMAIN IndexOf
      BY <1>2, SegmentOfIndex
    <3>2. QED
      BY <3>1, SegmentsAssumption
  <2>2. missing \subseteq Paths
    BY <2>1, FrontLastOfAppend
  <2>3. DOMAIN doc \subseteq Paths /\ \A p \in DOMAIN doc : doc[p] \in Text
    BY DEF Trees
  <2>4. \A p \in DOMAIN doc \cup missing : At(p) \in Text
    BY <2>3, SegmentsAssumption
  <2>5. Grown(doc, at, s) = [p \in DOMAIN doc \cup missing |-> At(p)]
    BY <1>2 DEF Grown
  <2> HIDE DEF missing, At
  <2>6. [p \in DOMAIN doc \cup missing |-> At(p)] \in [DOMAIN doc \cup missing -> Text]
    BY <2>4
  <2>7. DOMAIN doc \cup missing \in SUBSET Paths
    BY <2>2, <2>3
  <2>8. QED
    BY <2>5, <2>6, <2>7 DEF Trees
<1>3. QED
  BY <1>1, <1>2

(* An empty container is a document.                                       *)
LEMMA LeafIsDocument ==
  ASSUME NEW node \in Text
  PROVE  Leaf(node) \in Document /\ Leaf(node)[<<>>] = node
<1>1. <<>> \in Paths /\ \A q \in Paths, s \in Text : Append(q, s) # <<>>
  BY EmptySeq, FrontLastOfAppend DEF Paths
<1>2. Leaf(node) \in [{<<>>} -> Text] /\ {<<>>} \in SUBSET Paths
  BY <1>1 DEF Leaf
<1>3. Leaf(node) \in Trees
  BY <1>2 DEF Trees
<1>4. DOMAIN Leaf(node) = {<<>>} /\ Leaf(node)[<<>>] = node
  BY DEF Leaf
<1>5. WellFormed(Leaf(node))
  BY <1>1, <1>3, <1>4, WellFormedness
<1>6. QED
  BY <1>3, <1>4, <1>5 DEF Document

(* Where a segment names one place in a container, something can hang once *)
(* the container is grown.                                                 *)
LEMMA NamedHangs ==
  ASSUME NEW doc \in Document, NEW at \in DOMAIN doc, doc[at] \in Containers,
         NEW s \in Text, NEW place \in Named(doc, at, s)
  PROVE  \E t \in Text : place = Append(at, t) /\ Hangs(Grown(doc, at, s), at, t)
<1> DEFINE grown == Grown(doc, at, s)
<1>1. /\ grown \in Document /\ at \in DOMAIN grown /\ grown[at] = doc[at]
      /\ \A p \in DOMAIN doc : p \in DOMAIN grown
      /\ doc[at] = "list" /\ s \in DOMAIN IndexOf => \A t \in UpTo(s) : Append(at, t) \in DOMAIN grown
  BY GrownIsDocument
<1>2. doc \in Trees /\ grown \in Trees /\ at \in Paths
  BY <1>1, WellFormedness DEF Document
<1> HIDE DEF grown
<1>3. CASE doc[at] = "list" /\ s \in DOMAIN PredicateOf
  <2>1. PICK t \in DOMAIN IndexOf : place = Append(at, t) /\ place \in DOMAIN doc
    BY <1>3 DEF Named, MatchPredicate, Elements
  <2>2. t \in Text
    BY SegmentsAssumption
  <2>3. Hangs(grown, at, t)
    BY <1>1, <1>2, <2>1, <2>2, WellFormedness DEF Document
  <2>4. QED
    BY <2>1, <2>2, <2>3 DEF grown
<1>4. CASE doc[at] = "list" /\ s \notin DOMAIN PredicateOf
  <2>1. PICK t \in DOMAIN IndexOf : place = Append(at, t) /\ Append(at, s) = Append(at, t)
    BY <1>4 DEF Named
  <2>2. t \in Text
    BY SegmentsAssumption
  <2>3. s = t
    <3>1. Last(Append(at, s)) = s /\ Last(Append(at, t)) = t
      BY <1>2, <2>2, FrontLastOfAppend
    <3>2. QED
      BY <2>1, <3>1, Zenon
  <2>4. Hangs(grown, at, t)
    BY <1>1, <1>4, <2>3 DEF Hangs
  <2>5. QED
    BY <2>1, <2>2, <2>4 DEF grown
<1>5. CASE doc[at] # "list"
  <2>1. place = Append(at, s)
    BY <1>5 DEF Named
  <2>2. Hangs(grown, at, s)
    BY <1>1, <1>5 DEF Hangs
  <2>3. QED
    BY <2>1, <2>2 DEF grown
<1>6. QED
  BY <1>3, <1>4, <1>5

(* One segment of SetNestedField.                                          *)
WriteStep(value, path, walk, n) ==
  LET Enter(grown, place, m) ==
        [ok  |-> TRUE, at |-> place,
         doc |-> IF m = Len(path) THEN Put(grown, place, value)
                 ELSE IF place \in DOMAIN grown /\ grown[place] = ContainerFor(path[m + 1]) THEN grown
                 ELSE Put(grown, place, Leaf(ContainerFor(path[m + 1])))]
      named == Named(walk.doc, walk.at, path[n])
  IN  IF ~walk.ok \/ Cardinality(named) # 1
      THEN [walk EXCEPT !.ok = FALSE]
      ELSE Enter(Grown(walk.doc, walk.at, path[n]), CHOOSE p \in named : TRUE, n)

WriteOutcome(walk, doc, path) ==
  IF path # <<>> /\ walk.ok THEN [ok |-> TRUE, doc |-> walk.doc] ELSE [ok |-> FALSE, doc |-> doc]

WriteWalks == [ok : BOOLEAN, at : Paths, doc : Trees]

(* What is written so far is a document, and its root is what it was.      *)
Sound(walk, n, doc, path) ==
  /\ walk \in WriteWalks
  /\ walk.ok => /\ walk.doc \in Document /\ walk.doc[<<>>] = doc[<<>>]
                /\ n < Len(path) => walk.at \in DOMAIN walk.doc /\ walk.doc[walk.at] \in Containers

(* A container for a segment is a document.                                *)
LEMMA ContainerIs ==
  ASSUME NEW s \in Text
  PROVE  /\ ContainerFor(s) \in Text /\ ContainerFor(s) \in Containers
         /\ Leaf(ContainerFor(s)) \in Document /\ Leaf(ContainerFor(s))[<<>>] = ContainerFor(s)
<1>1. ContainerFor(s) \in Text /\ ContainerFor(s) \in Containers
  BY SegmentsAssumption DEF ContainerFor, Containers
<1>2. QED
  BY <1>1, LeafIsDocument

(* A step keeps it so.                                                     *)
LEMMA WriteStepIs ==
  ASSUME NEW doc, NEW value \in Document, NEW path \in Paths,
         NEW walk \in WriteWalks, NEW n \in 1..Len(path)
  PROVE  /\ WriteStep(value, path, walk, n) \in WriteWalks
         /\ Sound(walk, n - 1, doc, path) => Sound(WriteStep(value, path, walk, n), n, doc, path)
<1> DEFINE N == Len(path)
           D == WriteWalks
           Step(w, m) == WriteStep(value, path, w, m)
<1>1. /\ value \in Trees /\ <<>> \in Paths
      /\ N \in Nat /\ \A i \in 1..N : path[i] \in Text
  BY LenProperties, ElementOfSeq DEF Document, Paths
<1>2. \A s \in Text : /\ ContainerFor(s) \in Text /\ ContainerFor(s) \in Containers
                      /\ Leaf(ContainerFor(s)) \in Document /\ Leaf(ContainerFor(s))[<<>>] = ContainerFor(s)
  BY ContainerIs
<1> DEFINE named == Named(walk.doc, walk.at, path[n])
           grown == Grown(walk.doc, walk.at, path[n])
           place == CHOOSE p \in named : TRUE
           new   == IF n = N THEN Put(grown, place, value)
                    ELSE IF place \in DOMAIN grown /\ grown[place] = ContainerFor(path[n + 1]) THEN grown
                    ELSE Put(grown, place, Leaf(ContainerFor(path[n + 1])))
<1>3. /\ walk.doc \in Trees /\ walk.at \in Paths /\ path[n] \in Text
      /\ n < N => path[n + 1] \in Text
  BY <1>1 DEF WriteWalks
<1>4. Step(walk, n) = IF ~walk.ok \/ Cardinality(named) # 1 THEN [walk EXCEPT !.ok = FALSE]
                      ELSE [ok |-> TRUE, at |-> place, doc |-> new]
  BY Zenon DEF WriteStep
<1>5. CASE ~walk.ok \/ Cardinality(named) # 1
  <2>1. Step(walk, n) = [walk EXCEPT !.ok = FALSE]
    BY <1>4, <1>5
  <2>2. QED
    BY <2>1 DEF Sound, WriteWalks
<1>6. CASE walk.ok /\ Cardinality(named) = 1
  <2>1. Step(walk, n) = [ok |-> TRUE, at |-> place, doc |-> new]
    BY <1>4, <1>6
  <2>2. place \in named
    BY <1>6, OneOf
  <2>3. PICK t \in Text : place = Append(walk.at, t)
    BY <1>3, <2>2, NamedIs
  <2>4. place \in Paths /\ grown \in Trees
    BY <1>3, <2>3, FrontLastOfAppend, GrownIsTree
  <2> HIDE DEF Step, grown, place, named
  <2>5. new \in Trees
    <3>1. Put(grown, place, value) \in Trees
      BY <1>1, <2>4, PutIs
    <3>2. n # N => Put(grown, place, Leaf(ContainerFor(path[n + 1]))) \in Trees
      <4>1. n # N => Leaf(ContainerFor(path[n + 1])) \in Trees
        BY <1>1, <1>2, <1>3 DEF Document
      <4>2. QED
        BY <2>4, <4>1, PutIs
    <3>3. QED
      BY <2>4, <3>1, <3>2
  <2>6. Step(walk, n) \in D
    <3> HIDE DEF new
    <3>1. QED
      BY <2>1, <2>4, <2>5 DEF WriteWalks
  <2>7. ASSUME Sound(walk, n - 1, doc, path)
        PROVE  /\ new \in Document /\ new[<<>>] = doc[<<>>]
               /\ n < N => place \in DOMAIN new /\ new[place] \in Containers
    <3>1. /\ walk.doc \in Document /\ walk.doc[<<>>] = doc[<<>>]
          /\ walk.at \in DOMAIN walk.doc /\ walk.doc[walk.at] \in Containers
      BY <1>1, <1>6, <2>7 DEF Sound
    <3>2. grown \in Document /\ grown[<<>>] = doc[<<>>]
      <4>1. <<>> \in DOMAIN walk.doc
        BY <3>1, WellFormedness DEF Document
      <4>2. QED
        BY <1>3, <3>1, <4>1, GrownIsDocument DEF grown
    <3>3. PICK u \in Text : place = Append(walk.at, u) /\ Hangs(grown, walk.at, u)
      BY <1>3, <2>2, <3>1, NamedHangs DEF grown, named
    <3>4. ASSUME NEW v \in Document
          PROVE  /\ Put(grown, place, v) \in Document
                 /\ Put(grown, place, v)[<<>>] = doc[<<>>]
                 /\ place \in DOMAIN Put(grown, place, v)
                 /\ Put(grown, place, v)[place] = v[<<>>]
      BY <1>3, <3>2, <3>3, PutIsDocument
    <3>5. QED
      BY <1>1, <1>2, <1>3, <3>2, <3>4
  <2> HIDE DEF new
  <2>8. Sound(walk, n - 1, doc, path) => Sound(Step(walk, n), n, doc, path)
    BY <2>1, <2>6, <2>7 DEF Sound
  <2> HIDE DEF N
  <2>9. QED
    BY <2>6, <2>8 DEF Step
<1>7. QED
  BY <1>5, <1>6

(* SetNestedField takes one such step for each segment.                    *)
LEMMA Writing ==
  ASSUME NEW doc \in Document, NEW value \in Document, NEW path \in Paths
  PROVE  \E way \in [0..Len(path) -> WriteWalks] :
           /\ way[0] = [ok |-> TRUE, at |-> <<>>, doc |-> doc]
           /\ \A n \in 1..Len(path) : way[n] = WriteStep(value, path, way[n - 1], n)
           /\ SetNestedField(doc, value, path) = WriteOutcome(way[Len(path)], doc, path)
<1> DEFINE Step(walk, n) == WriteStep(value, path, walk, n)
           base  == [ok |-> TRUE, at |-> <<>>, doc |-> doc]
           index == [n \in 1..Len(path) |-> n]
           P(it) == it = [s \in SUBSET DOMAIN index |->
                            IF s = {} THEN base ELSE Step(it[s \ {Max(s)}], index[Max(s)])]
           ch == CHOOSE it : P(it)
           N == Len(path)
           D == WriteWalks
           op == [pair \in D \X (1..N) |-> Step(pair[1], pair[2])]
<1>1. SetNestedField(doc, value, path) = WriteOutcome(ch[DOMAIN index], doc, path)
  BY Zenon DEF SetNestedField, FoldLeft, MapThenFoldSet, WriteStep, WriteOutcome
<1>2. N \in Nat /\ DOMAIN index = 1..N /\ \A i \in 1..N : index[i] = i
  BY LenProperties DEF Paths
<1>3. ASSUME NEW walk \in D, NEW n \in 1..N
      PROVE  Step(walk, n) \in D
  BY WriteStepIs
<1>4. base \in D
  BY LenProperties DEF Document, Paths, WriteWalks
<1> HIDE DEF Step
<1>5. op \in [D \X (1..N) -> D]
  BY <1>3
<1>6. \A walk \in D, i \in 1..N : op[<<walk, i>>] = Step(walk, i)
  OBVIOUS
<1> HIDE DEF op, D, base, N, index
<1>7. /\ \A s \in SUBSET (1..N) : s # {} => Max(s) \in s
      /\ \E g \in [SUBSET (1..N) -> D] : Folds(g, N, base, op)
  <2>1. N \in Nat
    BY <1>2
  <2>2. QED
    BY <1>4, <1>5, <2>1, Folding, Zenon
<1>8. PICK g \in [SUBSET (1..N) -> D] : Folds(g, N, base, op)
  BY <1>7
<1>9. \A s \in SUBSET (1..N) : s # {} => Max(s) \in s /\ Max(s) \in 1..N
  BY <1>7
<1>10. P(g)
  <2>1. ASSUME NEW s \in SUBSET (1..N), s # {}
        PROVE  g[s] = Step(g[s \ {Max(s)}], index[Max(s)])
    <3>1. g[s \ {Max(s)}] \in D /\ Max(s) \in 1..N
      BY <1>9, <2>1
    <3>2. g[s] = op[<<g[s \ {Max(s)}], Max(s)>>]
      BY <1>8, <2>1 DEF Folds
    <3>3. index[Max(s)] = Max(s)
      BY <1>2, <3>1
    <3>4. QED
      BY <1>6, <3>1, <3>2, <3>3
  <2>2. g[{}] = base
    BY <1>8 DEF Folds
  <2>3. QED
    BY <1>2, <2>1, <2>2
<1> HIDE DEF P
<1>11. P(ch)
  BY <1>10, Zenon
<1>12. ch[{}] = base /\ \A s \in SUBSET (1..N) : s # {} => ch[s] = Step(ch[s \ {Max(s)}], Max(s))
  <2>1. ch[{}] = base /\ \A s \in SUBSET (1..N) : s # {} => ch[s] = Step(ch[s \ {Max(s)}], index[Max(s)])
    BY <1>2, <1>11 DEF P
  <2>2. \A s \in SUBSET (1..N) : s # {} => index[Max(s)] = Max(s)
    BY <1>2, <1>9
  <2>3. QED
    BY <2>1, <2>2
<1> HIDE DEF ch
<1>13. FoldsWithin(ch, N, D, base, op)
  BY <1>6, <1>9, <1>12 DEF FoldsWithin
<1>14. PICK way \in [0..N -> D] : Leads(way, N, base, op, ch[1..N])
  BY <1>2, <1>4, <1>5, <1>13, FoldSteps, Zenon
<1>15. \A n \in 1..N : way[n] = WriteStep(value, path, way[n - 1], n)
  <2>1. \A n \in 1..N : n - 1 \in 0..N
    BY <1>2
  <2>2. QED
    BY <1>6, <1>14, <2>1 DEF Step, Leads
<1>16. SetNestedField(doc, value, path) = WriteOutcome(way[N], doc, path) /\ way[0] = base
  BY <1>1, <1>2, <1>14 DEF Leads
<1>17. QED
  BY <1>15, <1>16 DEF base, D, N

(* SetNestedField leaves a document, of the kind it was, and the same one  *)
(* where it cannot write.                                                  *)
THEOREM WritingKeepsDocument ==
  ASSUME NEW doc \in Document, doc[<<>>] \in Containers,
         NEW value \in Document, NEW path \in Paths
  PROVE  /\ SetNestedField(doc, value, path) \in [ok : BOOLEAN, doc : Document]
         /\ SetNestedField(doc, value, path).doc[<<>>] = doc[<<>>]
         /\ ~SetNestedField(doc, value, path).ok => SetNestedField(doc, value, path).doc = doc
<1> DEFINE N == Len(path)
<1>1. /\ N \in Nat /\ doc \in Trees /\ <<>> \in DOMAIN doc /\ <<>> \in Paths
  BY WellFormedness, LenProperties DEF Document, Paths
<1>2. PICK way \in [0..N -> WriteWalks] :
        /\ way[0] = [ok |-> TRUE, at |-> <<>>, doc |-> doc]
        /\ \A n \in 1..N : way[n] = WriteStep(value, path, way[n - 1], n)
        /\ SetNestedField(doc, value, path) = WriteOutcome(way[N], doc, path)
  BY Writing
<1>3. Sound(way[0], 0, doc, path)
  BY <1>1, <1>2 DEF Sound, WriteWalks
<1>4. ASSUME NEW n \in 1..N, Sound(way[n - 1], n - 1, doc, path)
      PROVE  Sound(way[n], n, doc, path)
  <2>1. way[n - 1] \in WriteWalks
    BY <1>4 DEF Sound
  <2>2. QED
    BY <1>2, <1>4, <2>1, WriteStepIs
<1> HIDE DEF N
<1>5. Sound(way[N], N, doc, path)
  <2> DEFINE T == {n \in 0..N : Sound(way[n], n, doc, path)}
  <2>1. 0 \in T /\ T \in SUBSET (0..N)
    BY <1>1, <1>3
  <2>2. ASSUME NEW n \in 1..N, n - 1 \in T
        PROVE  n \in T
    BY <1>4, <2>2
  <2> HIDE DEF T
  <2>3. T = 0..N
    BY <1>1, <2>1, <2>2, UpToN
  <2>4. N \in T
    BY <1>1, <2>3
  <2>5. QED
    BY <2>4 DEF T
<1>6. way[N].ok => way[N].doc \in Document /\ way[N].doc[<<>>] = doc[<<>>]
  BY <1>5 DEF Sound
<1>7. QED
  BY <1>2, <1>6 DEF WriteOutcome
-----------------------------------------------------------------------------
(* The beginnings of a path.                                               *)
LEMMA Beginning ==
  ASSUME NEW p \in Paths, NEW n \in 1..Len(p)
  PROVE  /\ SubSeq(p, 1, n - 1) \in Paths /\ SubSeq(p, 1, n) \in Paths /\ p[n] \in Text
         /\ SubSeq(p, 1, n) = Append(SubSeq(p, 1, n - 1), p[n])
         /\ IsPrefix(SubSeq(p, 1, n), p)
         /\ Len(SubSeq(p, 1, n)) = n /\ SubSeq(p, 1, n)[n] = p[n]
<1>1. Len(p) \in Nat /\ n \in Int /\ n - 1 \in Int /\ \A i \in 1..Len(p) : p[i] \in Text
  BY LenProperties, ElementOfSeq DEF Paths
<1>2. /\ SubSeq(p, 1, n - 1) \in Paths /\ p[n] \in Text
      /\ SubSeq(p, 1, n) \in Paths /\ Len(SubSeq(p, 1, n)) = n /\ SubSeq(p, 1, n)[n] = p[n]
  <2>1. \A i \in 1..n : p[i] \in Text
    BY <1>1
  <2>2. \A i \in 1..(n - 1) : p[i] \in Text
    BY <1>1
  <2>3. SubSeq(p, 1, n - 1) \in Seq(Text)
    BY <1>1, <2>2, SubSeqProperties
  <2>4. SubSeq(p, 1, n) \in Seq(Text) /\ Len(SubSeq(p, 1, n)) = n /\ SubSeq(p, 1, n)[n] = p[n]
    BY <1>1, <2>1, SubSeqProperties
  <2>5. QED
    BY <2>1, <2>3, <2>4 DEF Paths
<1>3. SubSeq(p, 1, n) = Append(SubSeq(p, 1, n - 1), p[n])
  <2>1. SubSeq(p, 1, n) = SubSeq(p, 1, n - 1) \o <<p[n]>>
    <3>1. 1 \in 1..Len(p) /\ n \in 1..Len(p)
      BY <1>1
    <3>2. QED
      BY <3>1, SubSeqRecursiveSecond DEF Paths
  <2>2. QED
    BY <1>2, <2>1, AppendIsConcat DEF Paths
<1>4. IsPrefix(SubSeq(p, 1, n), p)
  <2>1. SubSeq(SubSeq(p, 1, n), 1, n) = SubSeq(p, 1, n)
    BY <1>2, SubSeqFull DEF Paths
  <2>2. QED
    BY <1>1, <1>2, <2>1 DEF IsPrefix
<1>5. QED
  BY <1>2, <1>3, <1>4

(* The first of them, and the last.                                        *)
LEMMA BeginningEnds ==
  ASSUME NEW p \in Paths
  PROVE  SubSeq(p, 1, 0) = <<>> /\ SubSeq(p, 1, Len(p)) = p
BY SubSeqEmpty, SubSeqFull DEF Paths

(* Paths with a beginning in common.                                       *)
LEMMA SameBeginning ==
  ASSUME NEW p \in Paths, NEW q \in Paths, NEW n \in Nat, n <= Len(p), n <= Len(q),
         \A k \in 1..n : p[k] = q[k]
  PROVE  SubSeq(p, 1, n) = SubSeq(q, 1, n)
<1>1. n \in 0..Len(p) /\ n \in 0..Len(q)
  BY LenProperties DEF Paths
<1>2. SubSeq(p, 1, n) = Restrict(p, 1..n) /\ SubSeq(q, 1, n) = Restrict(q, 1..n)
  BY <1>1, SubSeqRestrict DEF Paths
<1>3. QED
  BY <1>2 DEF Restrict

(* A path that differs from another where both are long enough is no       *)
(* beginning of it.                                                        *)
LEMMA NoBeginning ==
  ASSUME NEW a \in Paths, NEW p \in Paths, NEW n \in 1..Len(a), n <= Len(p) => a[n] # p[n]
  PROVE  ~IsPrefix(a, p)
<1>1. SUFFICES ASSUME IsPrefix(a, p) PROVE FALSE
  OBVIOUS
<1>2. Len(a) \in Nat /\ Len(p) \in Nat /\ Len(a) <= Len(p)
  BY <1>1, LenProperties DEF Paths, IsPrefix
<1>3. Len(a) \in 0..Len(a) /\ Len(a) \in 0..Len(p)
  BY <1>2
<1>4. Restrict(a, 1..Len(a)) = Restrict(p, 1..Len(a))
  BY <1>1, <1>3, SubSeqRestrict DEF Paths, IsPrefix
<1>5. a[n] = p[n]
  <2>1. Restrict(a, 1..Len(a))[n] = a[n] /\ Restrict(p, 1..Len(a))[n] = p[n]
    BY DEF Restrict
  <2>2. QED
    BY <1>4, <2>1
<1>6. QED
  BY <1>2, <1>5

(* What lies on the way to a place is a map if a field of it comes next.   *)
LEMMA OnTheWay ==
  ASSUME NEW doc \in Document, NEW p \in DOMAIN doc, NEW n \in 1..Len(p), ~SegmentWantsArray(p[n])
  PROVE  /\ SubSeq(p, 1, n - 1) \in DOMAIN doc /\ SubSeq(p, 1, n) \in DOMAIN doc
         /\ doc[SubSeq(p, 1, n - 1)] = "map"
<1>1. doc \in Trees /\ p \in Paths
  BY WellFormedness DEF Document
<1>2. SubSeq(p, 1, n) \in DOMAIN doc
  <2>1. Append(SubSeq(p, 1, n - 1), p[n]) \in Paths
    BY <1>1, Beginning, FrontLastOfAppend
  <2>2. QED
    BY <1>1, <2>1, Beginning, PrefixClosed
<1>3. Hangs(doc, SubSeq(p, 1, n - 1), p[n])
  BY <1>1, <1>2, Beginning, WellFormedness DEF Document
<1>4. QED
  BY <1>2, <1>3 DEF Hangs, SegmentWantsArray, Containers

-----------------------------------------------------------------------------
(* What is written along fields is found there.                            *)

(* What is put at a place is there.                                        *)
LEMMA PutThere ==
  ASSUME NEW doc \in Trees, NEW place \in Paths, NEW v \in Document
  PROVE  place \in DOMAIN Put(doc, place, v) /\ Put(doc, place, v)[place] = v[<<>>]
<1>1. v \in Trees /\ <<>> \in DOMAIN v
  BY WellFormedness DEF Document
<1>2. <<>> \in Paths /\ place \o <<>> = place
  BY EmptySeq, ConcatEmptySeq DEF Paths
<1>3. \A r \in Paths :
        /\ place \o r \in DOMAIN Put(doc, place, v) <=> r \in DOMAIN v
        /\ r \in DOMAIN v => Put(doc, place, v)[place \o r] = v[r]
  BY <1>1, PutIs, Zenon
<1> QED
  BY <1>1, <1>2, <1>3

(* What a step of SetNestedField makes of the document, from a place on.   *)
Entered(value, path, doc, place, n) ==
  IF n = Len(path) THEN Put(doc, place, value)
  ELSE IF place \in DOMAIN doc /\ doc[place] = ContainerFor(path[n + 1]) THEN doc
  ELSE Put(doc, place, Leaf(ContainerFor(path[n + 1])))

(* A step that is not refused.                                             *)
LEMMA WriteStepEnters ==
  ASSUME NEW value, NEW path, NEW walk, NEW n, walk.ok,
         Cardinality(Named(walk.doc, walk.at, path[n])) = 1
  PROVE  LET place == CHOOSE p \in Named(walk.doc, walk.at, path[n]) : TRUE
         IN  WriteStep(value, path, walk, n) =
               [ok |-> TRUE, at |-> place,
                doc |-> Entered(value, path, Grown(walk.doc, walk.at, path[n]), place, n)]
BY Zenon DEF WriteStep, Entered

(* A step in a map goes to the field.                                      *)
LEMMA WriteStepInMap ==
  ASSUME NEW value, NEW path, NEW walk, NEW n, walk.ok, walk.doc[walk.at] = "map"
  PROVE  WriteStep(value, path, walk, n) =
           [ok |-> TRUE, at |-> Append(walk.at, path[n]),
            doc |-> Entered(value, path, walk.doc, Append(walk.at, path[n]), n)]
<1>1. Grown(walk.doc, walk.at, path[n]) = walk.doc
  BY DEF Grown
<1>2. /\ Cardinality(Named(walk.doc, walk.at, path[n])) = 1
      /\ (CHOOSE p \in Named(walk.doc, walk.at, path[n]) : TRUE) = Append(walk.at, path[n])
  <2>1. Named(walk.doc, walk.at, path[n]) = {Append(walk.at, path[n])}
    BY DEF Named
  <2>2. \A x : Cardinality({x}) = 1 /\ (CHOOSE y \in {x} : TRUE) = x
    BY FS_Singleton
  <2>3. QED
    BY <2>1, <2>2
<1>3. QED
  BY <1>1, <1>2, WriteStepEnters, Zenon

(* What SetNestedField writes at a path of fields is there.                *)
THEOREM WrittenIsThere ==
  ASSUME NEW doc \in Objects, NEW value \in Document, NEW path \in Paths, OnlyFields(path)
  PROVE  LET out == SetNestedField(doc, value, path)
         IN  out.ok /\ path \in DOMAIN out.doc /\ out.doc[path] = value[<<>>]
<1> DEFINE N == Len(path)
           Along(walk, n) ==
             /\ walk \in WriteWalks /\ walk.ok /\ walk.at = SubSeq(path, 1, n)
             /\ walk.at \in DOMAIN walk.doc
             /\ walk.doc[walk.at] = IF n = N THEN value[<<>>] ELSE "map"
<1>1. /\ N \in Nat \ {0} /\ doc \in Trees /\ value \in Trees /\ <<>> \in Paths
      /\ <<>> \in DOMAIN doc /\ <<>> \in DOMAIN value /\ doc[<<>>] = "map"
      /\ \A n \in 1..N : ~SegmentWantsArray(path[n])
  <2>1. path # <<>> /\ DOMAIN path = 1..N /\ N \in Nat
    BY LenProperties DEF OnlyFields, Paths
  <2>2. N # 0
    BY <2>1, EmptySeq DEF Paths
  <2>3. doc \in Trees /\ value \in Trees /\ doc[<<>>] = "map" /\ doc \in Document
    BY DEF Objects, Document
  <2>4. <<>> \in DOMAIN doc /\ <<>> \in DOMAIN value
    BY <2>3, WellFormedness DEF Document
  <2>5. <<>> \in Paths
    BY EmptySeq DEF Paths
  <2>6. QED
    BY <2>1, <2>2, <2>3, <2>4, <2>5 DEF OnlyFields
<1>2. PICK way \in [0..N -> WriteWalks] :
        /\ way[0] = [ok |-> TRUE, at |-> <<>>, doc |-> doc]
        /\ \A n \in 1..N : way[n] = WriteStep(value, path, way[n - 1], n)
        /\ SetNestedField(doc, value, path) = WriteOutcome(way[N], doc, path)
  <2>1. doc \in Document
    BY DEF Objects
  <2>2. QED
    BY <2>1, Writing
<1>3. Along(way[0], 0)
  <2>1. way[0] \in WriteWalks
    BY <1>1, <1>2
  <2>2. QED
    BY <1>1, <1>2, <2>1, BeginningEnds
<1>4. ASSUME NEW n \in 1..N, Along(way[n - 1], n - 1)
      PROVE  Along(way[n], n)
  <2> DEFINE walk  == way[n - 1]
             place == SubSeq(path, 1, n)
  <2>1. /\ walk.doc \in Trees /\ walk.at \in DOMAIN walk.doc /\ walk.doc[walk.at] = "map"
        /\ place = Append(walk.at, path[n]) /\ place \in Paths /\ walk.ok
    <3>1. /\ SubSeq(path, 1, n - 1) \in Paths /\ path[n] \in Text
          /\ place = Append(SubSeq(path, 1, n - 1), path[n])
      BY Beginning
    <3>2. place \in Paths
      BY <3>1, FrontLastOfAppend
    <3>3. n - 1 # N
      BY <1>1
    <3>4. QED
      BY <1>4, <3>1, <3>2, <3>3 DEF WriteWalks
  <2> HIDE DEF walk, place
  <2> DEFINE new == Entered(value, path, walk.doc, place, n)
  <2>3. way[n] = [ok |-> TRUE, at |-> place, doc |-> new]
    <3>1. way[n] = WriteStep(value, path, walk, n)
      BY <1>2 DEF walk
    <3>2. QED
      BY <2>1, <3>1, WriteStepInMap, Zenon
  <2>4. ASSUME NEW v \in Document
        PROVE  place \in DOMAIN Put(walk.doc, place, v) /\ Put(walk.doc, place, v)[place] = v[<<>>]
    BY <2>1, PutThere
  <2>5. n # N => ContainerFor(path[n + 1]) = "map" /\ Leaf(ContainerFor(path[n + 1])) \in Document
                 /\ Leaf(ContainerFor(path[n + 1]))[<<>>] = "map"
    <3>1. n # N => n + 1 \in 1..N
      BY <1>1
    <3>2. n # N => ContainerFor(path[n + 1]) = "map"
      BY <1>1, <3>1 DEF ContainerFor
    <3>3. "map" \in Text
      BY SegmentsAssumption
    <3>4. QED
      BY <3>2, <3>3, LeafIsDocument
  <2>6. place \in DOMAIN new /\ new[place] = IF n = N THEN value[<<>>] ELSE "map"
    BY <2>4, <2>5 DEF Entered
  <2>7. way[n] \in WriteWalks
    <3>1. n \in 0..N
      BY <1>1
    <3>2. QED
      BY <1>2, <3>1
  <2> HIDE DEF new
  <2>8. QED
    BY <2>3, <2>6, <2>7 DEF place
<1> HIDE DEF N, Along
<1>5. Along(way[N], N)
  <2> DEFINE T == {n \in 0..N : Along(way[n], n)}
  <2>1. 0 \in T /\ T \in SUBSET (0..N)
    BY <1>1, <1>3
  <2>2. ASSUME NEW n \in 1..N, n - 1 \in T
        PROVE  n \in T
    BY <1>4, <2>2
  <2> HIDE DEF T
  <2>3. T = 0..N
    BY <1>1, <2>1, <2>2, UpToN
  <2>4. N \in T
    BY <1>1, <2>3
  <2>5. QED
    BY <2>4 DEF T
<1>6. SubSeq(path, 1, N) = path
  BY BeginningEnds DEF N
<1>7. path # <<>>
  BY DEF OnlyFields
<1>8. way[N].ok /\ path \in DOMAIN way[N].doc /\ way[N].doc[path] = value[<<>>]
  BY <1>5, <1>6 DEF Along
<1>9. QED
  BY <1>2, <1>7, <1>8 DEF WriteOutcome
-----------------------------------------------------------------------------
(* What parts from the way stays as it was.                                *)

(* The place is beyond the n-th segment of the path.                       *)
Beyond(at, path, n) ==
  /\ at \in Paths /\ Len(at) >= n /\ at[n] = path[n]
  /\ Len(at) = n => at = SubSeq(path, 1, n)

(* It stays beyond it.                                                     *)
LEMMA BeyondOnwards ==
  ASSUME NEW path, NEW n \in Nat \ {0}, NEW at, Beyond(at, path, n), NEW t \in Text
  PROVE  Beyond(Append(at, t), path, n)
<1>1. /\ at \in Seq(Text) /\ Len(at) \in Nat /\ Len(at) >= n /\ at[n] = path[n]
  BY LenProperties DEF Beyond, Paths
<1>2. /\ Append(at, t) \in Seq(Text) /\ Len(Append(at, t)) = Len(at) + 1
      /\ \A i \in 1..Len(at) : Append(at, t)[i] = at[i]
  BY <1>1, AppendProperties
<1>3. n \in 1..Len(at)
  BY <1>1
<1>4. QED
  BY <1>1, <1>2, <1>3 DEF Beyond, Paths

(* What is beyond it is no part of the way to a path that differs there.   *)
LEMMA BeyondIsApart ==
  ASSUME NEW p \in Paths, NEW path \in Paths, NEW n \in Nat \ {0}, NEW at, Beyond(at, path, n),
         p[n] # path[n]
  PROVE  ~IsPrefix(at, p)
<1>1. at \in Paths /\ n \in 1..Len(at) /\ at[n] # p[n]
  BY LenProperties DEF Beyond, Paths
<1>2. QED
  BY <1>1, NoBeginning

(* Where the path parts from that to a place, it does so in a map.         *)
LEMMA PartsInMap ==
  ASSUME NEW doc \in Document, NEW p \in DOMAIN doc, OnlyFields(p), NEW q \in Paths, Part(p, q)
  PROVE  \E n \in 1..Len(q) :
           /\ n <= Len(p) /\ p[n] # q[n] /\ Len(p) \in Nat /\ Len(q) \in Nat
           /\ \A k \in 1..n : ~SegmentWantsArray(q[k])
           /\ \A k \in 0..(n - 1) : SubSeq(q, 1, k) \in DOMAIN doc /\ doc[SubSeq(q, 1, k)] = "map"
           /\ Beyond(SubSeq(q, 1, n), q, n)
<1>1. p \in Paths /\ Len(p) \in Nat /\ Len(q) \in Nat /\ DOMAIN p = 1..Len(p)
  BY WellFormedness, LenProperties DEF Document, Paths
<1>2. PICK n \in 1..Len(p) :
        /\ n <= Len(q) /\ p[n] # q[n] /\ ~SegmentWantsArray(q[n])
        /\ \A k \in 1..(n - 1) : p[k] = q[k]
  BY DEF Part
<1>3. \A k \in 1..n : ~SegmentWantsArray(q[k])
  <2>1. \A k \in 1..n : k = n \/ (k \in 1..(n - 1) /\ k \in 1..Len(p))
    BY <1>1
  <2>2. \A k \in 1..Len(p) : ~SegmentWantsArray(p[k])
    BY <1>1 DEF OnlyFields
  <2>3. QED
    BY <1>2, <2>1, <2>2
<1>4. ASSUME NEW k \in 0..(n - 1)
      PROVE  SubSeq(q, 1, k) \in DOMAIN doc /\ doc[SubSeq(q, 1, k)] = "map"
  <2>1. SubSeq(p, 1, k) = SubSeq(q, 1, k)
    <3>1. k \in Nat /\ k <= Len(p) /\ k <= Len(q) /\ \A i \in 1..k : p[i] = q[i]
      BY <1>1, <1>2
    <3>2. QED
      BY <1>1, <3>1, SameBeginning
  <2>2. k + 1 \in 1..Len(p) /\ (k + 1) - 1 = k
    BY <1>1
  <2>3. ~SegmentWantsArray(p[k + 1])
    BY <1>1, <2>2 DEF OnlyFields
  <2>4. QED
    BY <2>1, <2>2, <2>3, OnTheWay
<1>5. Beyond(SubSeq(q, 1, n), q, n)
  <2>1. n \in 1..Len(q)
    BY <1>1, <1>2
  <2>2. SubSeq(q, 1, n) \in Paths /\ Len(SubSeq(q, 1, n)) = n /\ SubSeq(q, 1, n)[n] = q[n]
    BY <2>1, Beginning
  <2>3. QED
    BY <1>1, <2>2 DEF Beyond
<1>6. n \in 1..Len(q)
  BY <1>1, <1>2
<1>7. QED
  BY <1>1, <1>2, <1>3, <1>4, <1>5, <1>6

(* The documents say the same of a place.                                  *)
Agree(p, doc, other) == p \in DOMAIN doc /\ p \in DOMAIN other /\ doc[p] = other[p]

(* What is entered apart from p leaves p as it was.                        *)
LEMMA EnteredApart ==
  ASSUME NEW value \in Document, NEW path \in Paths, NEW n \in 1..Len(path),
         NEW doc \in Trees, NEW place \in Paths, NEW p \in DOMAIN doc, ~IsPrefix(place, p)
  PROVE  Agree(p, Entered(value, path, doc, place, n), doc)
<1>1. p \in Paths
  BY WellFormedness
<1>2. ASSUME NEW v \in Trees
      PROVE  Agree(p, Put(doc, place, v), doc)
  BY <1>1, <1>2, PutIs DEF Agree
<1>3. value \in Trees
  BY DEF Document
<1>4. n # Len(path) => Leaf(ContainerFor(path[n + 1])) \in Trees
  <2>1. n # Len(path) => path[n + 1] \in Text
    BY LenProperties, ElementOfSeq DEF Paths
  <2>2. QED
    BY <2>1, ContainerIs DEF Document
<1>5. Agree(p, doc, doc)
  BY DEF Agree
<1>6. QED
  BY <1>2, <1>3, <1>4, <1>5 DEF Entered

(* What SetNestedField writes leaves alone what is to be found along       *)
(* fields that part from its path.                                         *)
THEOREM WritingLeavesAlone ==
  ASSUME NEW doc \in Document, NEW value \in Document, NEW path \in Paths,
         NEW p \in DOMAIN doc, OnlyFields(p), Part(p, path)
  PROVE  Agree(p, SetNestedField(doc, value, path).doc, doc)
<1> DEFINE N == Len(path)
<1>1. PICK n \in 1..N :
        /\ n <= Len(p) /\ p[n] # path[n] /\ Len(p) \in Nat /\ N \in Nat
        /\ \A k \in 1..n : ~SegmentWantsArray(path[k])
        /\ \A k \in 0..(n - 1) : SubSeq(path, 1, k) \in DOMAIN doc /\ doc[SubSeq(path, 1, k)] = "map"
        /\ Beyond(SubSeq(path, 1, n), path, n)
  BY PartsInMap
<1>2. p \in Paths /\ doc \in Trees
  BY WellFormedness DEF Document
<1>3. PICK way \in [0..N -> WriteWalks] :
        /\ way[0] = [ok |-> TRUE, at |-> <<>>, doc |-> doc]
        /\ \A k \in 1..N : way[k] = WriteStep(value, path, way[k - 1], k)
        /\ SetNestedField(doc, value, path) = WriteOutcome(way[N], doc, path)
  BY Writing
<1> DEFINE Good(k) ==
             /\ way[k] \in WriteWalks
             /\ k < n => way[k] = [ok |-> TRUE, at |-> SubSeq(path, 1, k), doc |-> doc]
             /\ k >= n => Agree(p, way[k].doc, doc) /\ (way[k].ok => Beyond(way[k].at, path, n))
<1>4. Good(0)
  <2>1. way[0] \in WriteWalks
    BY <1>1
  <2>2. SubSeq(path, 1, 0) = <<>> /\ ~(0 >= n)
    BY <1>1, BeginningEnds
  <2>3. QED
    BY <1>3, <2>1, <2>2
<1>5. ASSUME NEW k \in 1..N, Good(k - 1)
      PROVE  Good(k)
  <2> DEFINE walk == way[k - 1]
             place == SubSeq(path, 1, k)
  <2>1. way[k] = WriteStep(value, path, walk, k) /\ walk \in WriteWalks /\ way[k] \in WriteWalks
    <3>1. k \in 0..N
      BY <1>1
    <3>2. QED
      BY <1>3, <1>5, <3>1
  <2>2. place = Append(SubSeq(path, 1, k - 1), path[k]) /\ place \in Paths /\ path[k] \in Text
    <3>1. k \in 1..Len(path)
      OBVIOUS
    <3>2. QED
      BY <3>1, Beginning
  <2>3. k <= n => way[k] = [ok |-> TRUE, at |-> place, doc |-> Entered(value, path, doc, place, k)]
    <3>1. SUFFICES ASSUME k <= n
                   PROVE  way[k] = [ok |-> TRUE, at |-> place, doc |-> Entered(value, path, doc, place, k)]
      OBVIOUS
    <3>2. k - 1 < n /\ k - 1 \in 0..(n - 1)
      BY <1>1, <3>1
    <3>3. walk = [ok |-> TRUE, at |-> SubSeq(path, 1, k - 1), doc |-> doc]
      BY <1>5, <3>2
    <3>4. walk.ok /\ walk.at = SubSeq(path, 1, k - 1) /\ walk.doc = doc /\ walk.doc[walk.at] = "map"
      BY <1>1, <3>2, <3>3
    <3> HIDE DEF walk, place
    <3>5. WriteStep(value, path, walk, k) =
            [ok |-> TRUE, at |-> Append(walk.at, path[k]),
             doc |-> Entered(value, path, walk.doc, Append(walk.at, path[k]), k)]
      BY <3>4, WriteStepInMap
    <3>6. QED
      BY <2>1, <2>2, <3>4, <3>5
  <2>4. CASE k < n
    <3>1. k \in 0..(n - 1) /\ k # N /\ k + 1 \in 1..n
      BY <1>1, <2>4
    <3>2. place \in DOMAIN doc /\ doc[place] = ContainerFor(path[k + 1])
      BY <1>1, <3>1 DEF ContainerFor
    <3>3. Entered(value, path, doc, place, k) = doc
      BY <3>1, <3>2 DEF Entered
    <3>4. k <= n /\ ~(k >= n)
      BY <1>1, <2>4
    <3>5. way[k] = [ok |-> TRUE, at |-> place, doc |-> doc]
      BY <2>3, <3>3, <3>4
    <3>6. QED
      BY <2>1, <3>4, <3>5
  <2>5. CASE k = n
    <3>1. ~IsPrefix(place, p)
      BY <1>1, <1>2, <2>5, BeyondIsApart
    <3>2. Agree(p, Entered(value, path, doc, place, k), doc)
      BY <1>2, <2>2, <3>1, EnteredApart
    <3>3. k <= n /\ ~(k < n)
      BY <1>1, <2>5
    <3>4. way[k].at = place /\ way[k].doc = Entered(value, path, doc, place, k)
      BY <2>3, <3>3
    <3>5. Beyond(way[k].at, path, n)
      BY <1>1, <2>5, <3>4
    <3>6. QED
      BY <2>1, <3>2, <3>3, <3>4, <3>5
  <2>6. CASE k > n
    <3> DEFINE named == Named(walk.doc, walk.at, path[k])
               grown == Grown(walk.doc, walk.at, path[k])
               next  == CHOOSE q \in named : TRUE
    <3>1. Agree(p, walk.doc, doc) /\ (walk.ok => Beyond(walk.at, path, n))
      BY <1>1, <1>5, <2>6
    <3>2. CASE ~walk.ok \/ Cardinality(named) # 1
      <4>1. way[k] = [walk EXCEPT !.ok = FALSE]
        BY <2>1, <3>2 DEF WriteStep
      <4>2. QED
        BY <1>1, <2>1, <2>6, <3>1, <4>1 DEF WriteWalks
    <3>3. CASE walk.ok /\ Cardinality(named) = 1
      <4>1. way[k] = [ok |-> TRUE, at |-> next, doc |-> Entered(value, path, grown, next, k)]
        BY <2>1, <3>3, WriteStepEnters
      <4>2. walk.doc \in Trees /\ walk.at \in Paths
        BY <2>1 DEF WriteWalks
      <4>3. next \in named
        BY <3>3, OneOf
      <4>4. PICK t \in Text : next = Append(walk.at, t)
        BY <2>2, <4>2, <4>3, NamedIs
      <4> HIDE DEF walk, named, next
      <4>5. Beyond(next, path, n)
        BY <1>1, <3>1, <3>3, <4>4, BeyondOnwards
      <4>6. ~IsPrefix(next, p) /\ next \in Paths
        BY <1>1, <1>2, <4>5, BeyondIsApart DEF Beyond
      <4>7. grown \in Trees /\ p \in DOMAIN grown /\ grown[p] = walk.doc[p]
        <5>1. grown \in Trees
          BY <2>2, <4>2, GrownIsTree
        <5>2. p \in DOMAIN walk.doc
          BY <3>1 DEF Agree
        <5>3. QED
          BY <5>1, <5>2 DEF Grown
      <4> HIDE DEF grown
      <4>8. Agree(p, Entered(value, path, grown, next, k), grown)
        BY <4>6, <4>7, EnteredApart
      <4>9. QED
        BY <1>1, <2>1, <2>6, <3>1, <4>1, <4>5, <4>7, <4>8 DEF Agree
    <3>4. QED
      BY <3>2, <3>3
  <2>7. QED
    BY <1>1, <2>4, <2>5, <2>6
<1> HIDE DEF N, Good
<1>6. Good(N)
  <2> DEFINE T == {k \in 0..N : Good(k)}
  <2>1. 0 \in T /\ T \in SUBSET (0..N)
    BY <1>1, <1>4
  <2>2. ASSUME NEW k \in 1..N, k - 1 \in T
        PROVE  k \in T
    BY <1>5, <2>2
  <2> HIDE DEF T
  <2>3. T = 0..N
    BY <1>1, <2>1, <2>2, UpToN
  <2>4. N \in T
    BY <1>1, <2>3
  <2>5. QED
    BY <2>4 DEF T
<1>7. Agree(p, way[N].doc, doc)
  <2>1. N >= n
    BY <1>1
  <2>2. QED
    BY <1>6, <2>1 DEF Good
<1>8. Agree(p, doc, doc)
  BY DEF Agree
<1>9. QED
  BY <1>3, <1>7, <1>8 DEF WriteOutcome
-----------------------------------------------------------------------------
(* What is removed is gone, and nothing else.                              *)

(* A step of GetNestedField that finds something goes one segment further. *)
LEMMA ReadStepFinds ==
  ASSUME NEW doc \in Document, NEW walk \in ReadWalks(doc), NEW segment \in Text,
         ReadStep(doc, walk, segment).is = "found"
  PROVE  /\ walk.is = "found"
         /\ \E t \in Text : ReadStep(doc, walk, segment).at = Append(walk.at, t)
<1> DEFINE hits == Named(doc, walk.at, segment) \cap DOMAIN doc
           step == ReadStep(doc, walk, segment)
<1>1. walk.at \in Paths /\ doc \in Trees
  BY WellFormedness DEF Document, ReadWalks
<1>2. hits \subseteq {Append(walk.at, t) : t \in Text}
  BY <1>1, NamedIs
<1> HIDE DEF hits
<1>3. Cardinality(hits) = 1 => \E t \in Text : (CHOOSE h \in hits : TRUE) = Append(walk.at, t)
  BY <1>2, OneOf
<1>4. \/ walk.is # "found" /\ step = walk
      \/ walk.is = "found" /\ step = [walk EXCEPT !.is = "error"]
      \/ walk.is = "found" /\ step = [walk EXCEPT !.is = "absent"]
      \/ /\ walk.is = "found" /\ Cardinality(hits) = 1
         /\ step = [walk EXCEPT !.at = CHOOSE h \in hits : TRUE]
  BY DEF ReadStep, hits
<1> HIDE DEF step
<1>5. step.is = "found"
  BY DEF step
<1>6. QED
  BY <1>3, <1>4, <1>5 DEF step, ReadWalks

(* In a map it goes to the field, if there is one.                         *)
LEMMA ReadStepInMap ==
  ASSUME NEW doc \in Document, NEW walk \in ReadWalks(doc), NEW segment \in Text,
         walk.is = "found", doc[walk.at] = "map"
  PROVE  ReadStep(doc, walk, segment) =
           IF Append(walk.at, segment) \in DOMAIN doc
           THEN [at |-> Append(walk.at, segment), is |-> "found"]
           ELSE [at |-> walk.at, is |-> "absent"]
<1> DEFINE place == Append(walk.at, segment)
           hits == Named(doc, walk.at, segment) \cap DOMAIN doc
<1>1. hits = {place} \cap DOMAIN doc
  BY DEF Named
<1>2. /\ \A x : Cardinality({x}) = 1 /\ (CHOOSE y \in {x} : TRUE) = x
      /\ Cardinality({}) = 0
  BY FS_Singleton, FS_EmptySet
<1>3. IF place \in DOMAIN doc THEN Cardinality(hits) = 1 /\ (CHOOSE h \in hits : TRUE) = place
      ELSE Cardinality(hits) = 0
  <2>1. IF place \in DOMAIN doc THEN hits = {place} ELSE hits = {}
    BY <1>1
  <2> HIDE DEF hits, place
  <2>2. QED
    BY <1>2, <2>1
<1> HIDE DEF hits
<1>4. ReadStep(doc, walk, segment) =
        CASE Cardinality(hits) > 1 -> [walk EXCEPT !.is = "error"]
          [] Cardinality(hits) = 1 -> [walk EXCEPT !.at = CHOOSE h \in hits : TRUE]
          [] OTHER -> [walk EXCEPT !.is = "absent"]
  BY DEF ReadStep, hits, Containers
<1>5. QED
  <2>1. walk = [at |-> walk.at, is |-> "found"]
    BY DEF ReadWalks
  <2> HIDE DEF place
  <2>2. CASE place \in DOMAIN doc
    <3>1. ~(Cardinality(hits) > 1)
      BY <1>3, <2>2
    <3>2. ReadStep(doc, walk, segment) = [walk EXCEPT !.at = CHOOSE h \in hits : TRUE]
      BY <1>3, <1>4, <2>2, <3>1
    <3>3. [walk EXCEPT !.at = place] = [at |-> place, is |-> "found"]
      BY <2>1
    <3>4. QED
      BY <1>3, <2>2, <3>2, <3>3 DEF place
  <2>3. CASE place \notin DOMAIN doc
    <3>1. ~(Cardinality(hits) > 1) /\ Cardinality(hits) # 1
      BY <1>3, <2>3
    <3>2. ReadStep(doc, walk, segment) = [walk EXCEPT !.is = "absent"]
      BY <1>4, <3>1
    <3>3. [walk EXCEPT !.is = "absent"] = [at |-> walk.at, is |-> "absent"]
      BY <2>1
    <3>4. QED
      BY <2>3, <3>2, <3>3 DEF place
  <2>4. QED
    BY <2>2, <2>3

(* A path of fields leads to where it says, if that is in the document.    *)
LEMMA FieldsFound ==
  ASSUME NEW doc \in Document, doc[<<>>] = "map", NEW path \in Paths, OnlyFields(path)
  PROVE  /\ Found(doc, path) <=> path \in DOMAIN doc
         /\ Found(doc, path) => GetNestedField(doc, path).at = path
<1> DEFINE N == Len(path)
<1>1. /\ N \in Nat /\ doc \in Trees /\ <<>> \in DOMAIN doc /\ DOMAIN doc \subseteq Paths
      /\ \A n \in 1..N : ~SegmentWantsArray(path[n])
  BY WellFormedness, LenProperties DEF OnlyFields, Document, Paths
<1>2. PICK way \in [0..N -> ReadWalks(doc)] :
        /\ way[0] = [at |-> <<>>, is |-> "found"]
        /\ \A n \in 1..N : way[n] = ReadStep(doc, way[n - 1], path[n])
        /\ GetNestedField(doc, path) = way[N]
  BY Reading
<1> DEFINE Good(n) ==
             /\ way[n].is = "found" <=> SubSeq(path, 1, n) \in DOMAIN doc
             /\ way[n].is = "found" => way[n].at = SubSeq(path, 1, n)
<1>3. Good(0)
  <2>1. SubSeq(path, 1, 0) = <<>>
    BY BeginningEnds
  <2>2. way[0].is = "found" /\ way[0].at = <<>>
    BY <1>2
  <2>3. QED
    BY <1>1, <2>1, <2>2
<1>4. ASSUME NEW n \in 1..N, Good(n - 1)
      PROVE  Good(n)
  <2> DEFINE walk == way[n - 1]
             before == SubSeq(path, 1, n - 1)
             place == SubSeq(path, 1, n)
  <2>1. /\ way[n] = ReadStep(doc, walk, path[n]) /\ walk \in ReadWalks(doc)
        /\ before \in Paths /\ path[n] \in Text /\ place = Append(before, path[n]) /\ place \in Paths
    <3>1. n - 1 \in 0..N
      BY <1>1
    <3>2. QED
      BY <1>2, <3>1, Beginning
  <2>2. place \in DOMAIN doc => before \in DOMAIN doc /\ doc[before] = "map"
    <3>1. place \in DOMAIN doc => Hangs(doc, before, path[n])
      BY <1>1, <2>1, WellFormedness DEF Document
    <3>2. QED
      BY <1>1, <3>1 DEF Hangs, SegmentWantsArray, Containers
  <2>3. walk.is = "found" => before \in DOMAIN doc /\ walk.at = before
    BY <1>4
  <2> HIDE DEF walk, before, place
  <2>4. CASE walk.is # "found"
    <3>1. way[n].is # "found"
      BY <2>1, <2>4, ReadStepFinds
    <3>2. before \notin DOMAIN doc
      BY <1>4, <2>4 DEF walk, before
    <3>3. QED
      BY <2>2, <3>1, <3>2 DEF place
  <2>5. CASE walk.is = "found" /\ doc[before] = "map"
    <3>1. way[n] = IF place \in DOMAIN doc THEN [at |-> place, is |-> "found"]
                   ELSE [at |-> before, is |-> "absent"]
      BY <2>1, <2>3, <2>5, ReadStepInMap
    <3>2. QED
      BY <3>1 DEF place
  <2>6. CASE walk.is = "found" /\ doc[before] # "map"
    <3>1. place \notin DOMAIN doc
      BY <2>2, <2>6
    <3> DEFINE hits == Named(doc, walk.at, path[n]) \cap DOMAIN doc
    <3>2. Named(doc, walk.at, path[n]) \subseteq {place}
      <4>1. ~SegmentWantsArray(path[n]) /\ walk.at = before
        BY <1>1, <2>3, <2>6
      <4>2. path[n] \notin DOMAIN PredicateOf /\ place = Append(walk.at, path[n])
        BY <2>1, <4>1 DEF SegmentWantsArray
      <4>3. QED
        BY <4>2 DEF Named
    <3>3. Cardinality(hits) # 1
      <4>1. hits = {}
        BY <3>1, <3>2
      <4>2. Cardinality({}) = 0
        BY FS_EmptySet
      <4> HIDE DEF hits
      <4>3. QED
        BY <4>1, <4>2
    <3>4. \/ ReadStep(doc, walk, path[n]) = [walk EXCEPT !.is = "error"]
          \/ ReadStep(doc, walk, path[n]) = [walk EXCEPT !.is = "absent"]
      BY <2>6, <3>3 DEF ReadStep
    <3>5. way[n].is # "found"
      BY <2>1, <3>4 DEF ReadWalks
    <3>6. QED
      BY <3>1, <3>5 DEF place
  <2>7. QED
    BY <2>4, <2>5, <2>6
<1> HIDE DEF N, Good
<1>5. Good(N)
  <2> DEFINE T == {n \in 0..N : Good(n)}
  <2>1. 0 \in T /\ T \in SUBSET (0..N)
    BY <1>1, <1>3
  <2>2. ASSUME NEW n \in 1..N, n - 1 \in T
        PROVE  n \in T
    BY <1>4, <2>2
  <2> HIDE DEF T
  <2>3. T = 0..N
    BY <1>1, <2>1, <2>2, UpToN
  <2>4. N \in T
    BY <1>1, <2>3
  <2>5. QED
    BY <2>4 DEF T
<1>6. SubSeq(path, 1, N) = path
  BY BeginningEnds DEF N
<1>7. QED
  BY <1>2, <1>5, <1>6 DEF Found, Good

(* RemoveNestedField removes what a path of fields leads to, and adds      *)
(* nothing.                                                                *)
THEOREM RemovedIsGone ==
  ASSUME NEW doc \in Objects, NEW path \in Paths, OnlyFields(path)
  PROVE  /\ path \notin DOMAIN RemoveNestedField(doc, path)
         /\ DOMAIN RemoveNestedField(doc, path) \subseteq DOMAIN doc
<1>1. doc \in Document /\ doc[<<>>] = "map" /\ doc \in Trees /\ path # <<>>
  BY DEF Objects, Document, OnlyFields
<1>2. /\ Found(doc, path) <=> path \in DOMAIN doc
      /\ Found(doc, path) => GetNestedField(doc, path).at = path
  BY <1>1, FieldsFound
<1>3. CASE path \notin DOMAIN doc
  BY <1>2, <1>3 DEF RemoveNestedField
<1>4. CASE path \in DOMAIN doc
  <2>1. RemoveNestedField(doc, path) = RemovedAt(doc, path)
    BY <1>1, <1>2, <1>4 DEF RemoveNestedField
  <2>2. /\ Front(path) \in Paths /\ Last(path) \in Text
        /\ path = Append(Front(path), Last(path))
    BY <1>1, FrontLast
  <2>3. ~SegmentWantsArray(Last(path))
    <3>1. Len(path) \in DOMAIN path
      BY <1>1, EmptySeq, LenProperties DEF Paths
    <3>2. QED
      BY <3>1 DEF OnlyFields, Last
  <2>4. Hangs(doc, Front(path), Last(path))
    BY <1>1, <1>4, <2>2, WellFormedness DEF Document
  <2>5. doc[Front(path)] # "list"
    BY <2>3, <2>4 DEF Hangs, SegmentWantsArray
  <2>6. RemovedAt(doc, path) = Without(doc, path)
    BY <2>5 DEF RemovedAt
  <2>7. DOMAIN Without(doc, path) = {p \in DOMAIN doc : ~IsPrefix(path, p)}
    BY <1>1, WithoutIs
  <2>8. IsPrefix(path, path)
    BY PrefixItself
  <2>9. QED
    BY <2>1, <2>6, <2>7, <2>8
<1>5. QED
  BY <1>3, <1>4

(* Taking out what is apart from p leaves p as it was, also where what     *)
(* follows in a list moves up.                                             *)
LEMMA RemovedApart ==
  ASSUME NEW doc \in Document, NEW at \in DOMAIN doc, NEW path \in Paths,
         NEW n \in 1..Len(path), Beyond(at, path, n), doc[SubSeq(path, 1, n - 1)] = "map",
         NEW p \in DOMAIN doc, p[n] # path[n]
  PROVE  Agree(p, RemovedAt(doc, at), doc)
<1> DEFINE parent == Front(at)
<1>1. /\ doc \in Trees /\ at \in Paths /\ p \in Paths /\ n \in Nat \ {0}
      /\ Len(at) \in Nat /\ Len(at) >= n /\ at # <<>>
  BY WellFormedness, EmptySeq, LenProperties DEF Document, Paths, Beyond
<1>2. ~IsPrefix(at, p)
  BY <1>1, BeyondIsApart
<1>3. /\ parent \in Paths /\ Last(at) \in Text /\ at = Append(parent, Last(at))
      /\ Len(parent) = Len(at) - 1
  BY <1>1, FrontLast
<1>4. CASE doc[parent] # "list"
  <2>1. RemovedAt(doc, at) = Without(doc, at)
    BY <1>4 DEF RemovedAt
  <2>2. p \in DOMAIN Without(doc, at) /\ Without(doc, at)[p] = doc[p]
    BY <1>1, <1>2, WithoutIs
  <2>3. QED
    BY <2>1, <2>2 DEF Agree
<1>5. CASE doc[parent] = "list"
  <2>1. Len(at) # n
    <3>1. Len(at) = n => at = SubSeq(path, 1, n)
      BY DEF Beyond
    <3>2. SubSeq(path, 1, n) = Append(SubSeq(path, 1, n - 1), path[n]) /\ SubSeq(path, 1, n - 1) \in Paths /\ path[n] \in Text
      BY Beginning
    <3>3. Len(at) = n => parent = SubSeq(path, 1, n - 1)
      BY <3>1, <3>2, FrontLastOfAppend
    <3>4. QED
      BY <1>5, <3>3
  <2>2. n \in 1..Len(parent)
    BY <1>1, <1>3, <2>1
  <2>3. parent[n] = at[n]
    <3>1. \A i \in 1..Len(parent) : Append(parent, Last(at))[i] = parent[i]
      BY <1>3, AppendProperties DEF Paths
    <3>2. QED
      BY <1>3, <2>2, <3>1
  <2>4. ~IsPrefix(parent, p)
    <3>1. parent[n] # p[n]
      BY <2>3 DEF Beyond
    <3> HIDE DEF parent
    <3>2. QED
      BY <1>1, <1>3, <2>2, <3>1, NoBeginning
  <2> DEFINE m          == Len(at)
             Moves(q, j) == Len(q) >= m /\ IsPrefix(parent, q) /\ IndexOf[q[m]] >= j
             Up(q)   == IF Moves(q, IndexOf[at[m]] + 1)
                        THEN [q EXCEPT ![m] = Segment(IndexOf[@] - 1)] ELSE q
             Down(q) == IF Moves(q, IndexOf[at[m]])
                        THEN [q EXCEPT ![m] = Segment(IndexOf[@] + 1)] ELSE q
             kept    == DOMAIN doc \ Below(doc, at)
  <2>5. RemovedAt(doc, at) = [q \in {Up(r) : r \in kept} |-> doc[Down(q)]]
    BY <1>5, Zenon DEF RemovedAt
  <2>6. Up(p) = p /\ Down(p) = p
    BY <2>4
  <2>7. p \in kept
    BY <1>2 DEF Below
  <2> HIDE DEF Up, Down, kept
  <2>8. p \in {Up(r) : r \in kept}
    BY <2>6, <2>7
  <2>9. QED
    BY <2>5, <2>6, <2>8 DEF Agree
<1>6. QED
  BY <1>4, <1>5

(* What RemoveNestedField removes leaves alone what is to be found along   *)
(* fields that part from its path.                                         *)
THEOREM RemovalLeavesAlone ==
  ASSUME NEW doc \in Document, NEW path \in Paths,
         NEW p \in DOMAIN doc, OnlyFields(p), Part(p, path)
  PROVE  Agree(p, RemoveNestedField(doc, path), doc)
<1> DEFINE N == Len(path)
<1>1. PICK n \in 1..N :
        /\ n <= Len(p) /\ p[n] # path[n] /\ Len(p) \in Nat /\ N \in Nat
        /\ \A k \in 1..n : ~SegmentWantsArray(path[k])
        /\ \A k \in 0..(n - 1) : SubSeq(path, 1, k) \in DOMAIN doc /\ doc[SubSeq(path, 1, k)] = "map"
        /\ Beyond(SubSeq(path, 1, n), path, n)
  BY PartsInMap
<1>2. PICK way \in [0..N -> ReadWalks(doc)] :
        /\ way[0] = [at |-> <<>>, is |-> "found"]
        /\ \A k \in 1..N : way[k] = ReadStep(doc, way[k - 1], path[k])
        /\ GetNestedField(doc, path) = way[N]
  BY Reading
<1> DEFINE Good(k) ==
             /\ k < n => way[k] = [at |-> SubSeq(path, 1, k), is |-> "found"]
             /\ k >= n /\ way[k].is = "found" => Beyond(way[k].at, path, n)
<1>3. Good(0)
  <2>1. SubSeq(path, 1, 0) = <<>> /\ ~(0 >= n)
    BY <1>1, BeginningEnds
  <2>2. QED
    BY <1>2, <2>1
<1>4. ASSUME NEW k \in 1..N, Good(k - 1)
      PROVE  Good(k)
  <2> DEFINE walk == way[k - 1]
             before == SubSeq(path, 1, k - 1)
             place == SubSeq(path, 1, k)
  <2>1. way[k] = ReadStep(doc, walk, path[k]) /\ walk \in ReadWalks(doc)
    <3>1. k - 1 \in 0..N
      BY <1>1
    <3>2. QED
      BY <1>2, <3>1
  <2>2. place = Append(before, path[k]) /\ path[k] \in Text
    BY Beginning
  <2> HIDE DEF walk, before, place
  <2>3. ASSUME k <= n
        PROVE  way[k] = IF place \in DOMAIN doc THEN [at |-> place, is |-> "found"]
                        ELSE [at |-> before, is |-> "absent"]
    <3>1. k - 1 < n /\ k - 1 \in 0..(n - 1)
      BY <1>1, <2>3
    <3>2. walk = [at |-> before, is |-> "found"] /\ doc[before] = "map"
      BY <1>1, <1>4, <3>1 DEF walk, before
    <3>3. walk.is = "found" /\ doc[walk.at] = "map" /\ walk.at = before
      BY <3>2
    <3>4. QED
      BY <2>1, <2>2, <3>3, ReadStepInMap
  <2>4. CASE k < n
    <3>1. k \in 0..(n - 1) /\ k <= n /\ ~(k >= n)
      BY <1>1, <2>4
    <3>2. place \in DOMAIN doc
      BY <1>1, <3>1 DEF place
    <3>3. way[k] = [at |-> place, is |-> "found"]
      BY <2>3, <3>1, <3>2
    <3>4. QED
      BY <3>1, <3>3 DEF place
  <2>5. CASE k = n
    <3>1. k <= n /\ ~(k < n)
      BY <1>1, <2>5
    <3>2. way[k].is = "found" => way[k].at = place
      BY <2>3, <3>1
    <3>3. Beyond(place, path, n)
      BY <1>1, <2>5 DEF place
    <3>4. QED
      BY <3>1, <3>2, <3>3
  <2>6. CASE k > n
    <3>1. ~(k < n) /\ k - 1 >= n
      BY <1>1, <2>6
    <3>2. SUFFICES ASSUME way[k].is = "found" PROVE Beyond(way[k].at, path, n)
      BY <3>1
    <3>3. walk.is = "found" /\ \E t \in Text : way[k].at = Append(walk.at, t)
      BY <2>1, <2>2, <3>2, ReadStepFinds
    <3>4. Beyond(walk.at, path, n)
      BY <1>4, <3>1, <3>3 DEF walk
    <3>5. n \in Nat \ {0}
      BY <1>1
    <3>6. QED
      BY <3>3, <3>4, <3>5, BeyondOnwards
  <2>7. QED
    BY <1>1, <2>4, <2>5, <2>6
<1>5. n \in 1..Len(path) /\ N \in Nat /\ N >= n
  BY <1>1
<1> HIDE DEF N, Good
<1>6. Good(N)
  <2> DEFINE T == {k \in 0..N : Good(k)}
  <2>1. 0 \in T /\ T \in SUBSET (0..N)
    BY <1>3, <1>5
  <2>2. ASSUME NEW k \in 1..N, k - 1 \in T
        PROVE  k \in T
    BY <1>4, <2>2
  <2> HIDE DEF T
  <2>3. T = 0..N
    BY <1>5, <2>1, <2>2, UpToN
  <2>4. N \in T
    BY <1>5, <2>3
  <2>5. QED
    BY <2>4 DEF T
<1> DEFINE at == GetNestedField(doc, path).at
<1>7. Found(doc, path) => at \in DOMAIN doc /\ Beyond(at, path, n)
  <2>1. way[N] \in ReadWalks(doc)
    BY <1>2, <1>5
  <2>2. QED
    BY <1>2, <1>5, <1>6, <2>1 DEF Found, Good, ReadWalks
<1>8. Agree(p, doc, doc)
  BY DEF Agree
<1>9. doc[SubSeq(path, 1, n - 1)] = "map"
  <2>1. n - 1 \in 0..(n - 1)
    BY <1>5
  <2>2. QED
    BY <1>1, <2>1
<1> HIDE DEF at
<1>10. Found(doc, path) => Agree(p, RemovedAt(doc, at), doc)
  BY <1>1, <1>5, <1>7, <1>9, RemovedApart
<1>11. QED
  BY <1>8, <1>10 DEF RemoveNestedField, at
=============================================================================
