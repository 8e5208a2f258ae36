------------------------------ MODULE FieldMapping ------------------------------
(***************************************************************************)
(* The response side of a RestDefinition's fieldMapping (fieldmapping.go): *)
(* the body the API answered with, brought into the shape of the CR.       *)
(*                                                                         *)
(* An entry of a mapping is a record:                                      *)
(*   inCustomResource, inResponse, inBody : paths, <<>> where not set      *)
(*   aliases  : sequence of [cr, api] texts                                *)
(*   jq       : "none", "missing" (no inline source), or a program         *)
(*   default  : a document, or NoDefault                                   *)
(*   resolver : whether the value is that of a Secret                      *)
(***************************************************************************)
EXTENDS Documents

NoDefault == Leaf("no default")

Programs == {"unwrap", "wrap", "fails"}

IsEntry(entry) ==
  /\ {entry.inCustomResource, entry.inResponse, entry.inBody} \subseteq Seq(Text)
  /\ entry.aliases \in Seq([cr : Text, api : Text])
  /\ entry.jq \in Programs \cup {"none", "missing"}
  /\ entry.default = NoDefault \/ IsDocument(entry.default)
  /\ entry.resolver \in BOOLEAN

IsMapping(mapping) ==
  /\ mapping \in Seq(Range(mapping))
  /\ \A entry \in Range(mapping) : IsEntry(entry)

(* The jq programs of a definition: the envelope many APIs put around a    *)
(* body, taken off and put on, and a program that fails.  "fails" stands   *)
(* for a compilation or a run that ends in an error.                       *)
RunJq(program, doc) ==
  CASE program = "unwrap" /\ <<"data">> \in DOMAIN doc -> [ok |-> TRUE, value |-> Sub(doc, <<"data">>)]
    [] program = "unwrap" /\ <<"data">> \notin DOMAIN doc -> [ok |-> TRUE, value |-> Leaf("null")]
    [] program = "wrap" -> [ok |-> TRUE, value |-> Put(Leaf("map"), <<"data">>, doc)]
    [] program = "fails" -> [ok |-> FALSE, value |-> doc]

(* ApplyAlias: the first pair that matches; any other value passes.        *)
ApplyAlias(value, aliases, from, to) ==
  LET hits == {i \in DOMAIN aliases : value = Leaf(aliases[i][from])}
  IN  IF hits = {} THEN value ELSE Leaf(aliases[Min(hits)][to])

BodyRelativePath(path) ==
  IF Len(path) > 1 /\ Head(path) \in {"spec", "status"} THEN Tail(path) ELSE path
-----------------------------------------------------------------------------
(* applyDocumentTransform: the program's output replaces the body and must *)
(* be an object.                                                           *)
ApplyDocumentTransform(program, body) ==
  IF program = "none" THEN [ok |-> TRUE, body |-> body]
  ELSE LET Object(out) == [ok |-> out.ok /\ out.value[<<>>] = "map", body |-> out.value]
       IN  Object(RunJq(program, body))

(* resolveResponseEntry: what an entry reads, without writing anything.    *)
(* With nothing to read, the default is an entry that moves nothing.       *)
ResolveResponseEntry(entry, body) ==
  LET Reads(src, dst, val) == [is |-> "entry", src |-> src, dst |-> dst, val |-> val]
      Computed(dst, out)   == IF out.ok THEN Reads(entry.inResponse, dst, out.value) ELSE [is |-> "error"]
      From(dst, walk) ==
        CASE dst = <<>> \/ walk.is = "error" -> [is |-> "skip"]
          [] dst # <<>> /\ walk.is = "absent" ->
               IF entry.default = NoDefault THEN [is |-> "skip"] ELSE Reads(dst, dst, entry.default)
          [] dst # <<>> /\ walk.is = "found" ->
               CASE entry.jq = "missing" -> [is |-> "skip"]
                 [] entry.jq = "none" ->
                      Reads(entry.inResponse, dst, ApplyAlias(Sub(body, walk.at), entry.aliases, "api", "cr"))
                 [] OTHER -> Computed(dst, RunJq(entry.jq, Sub(body, walk.at)))
  IN  From(BodyRelativePath(entry.inCustomResource), GetNestedField(body, entry.inResponse))

(* The entries that read from the response.                                *)
ResponseEntries(mapping) == {i \in DOMAIN mapping : mapping[i].inResponse # <<>>}

Destinations(resolved) == {resolved[i].dst : i \in {j \in DOMAIN resolved : resolved[j].is = "entry"}}

(* Mutant of Lifted: removes what another entry has written.               *)
LiftedRegardless(body, resolved) ==
  LET Lift(doc, r) ==
        IF r.is # "entry" \/ r.src = r.dst THEN doc ELSE RemoveNestedField(doc, r.src)
  IN  FoldLeft(Lift, body, resolved)

(* Sources are lifted after everything is written, unless the entry stays  *)
(* where it is or another entry has written there.                         *)
Lifted(body, resolved) ==
  LET Lift(doc, r) ==
        IF r.is # "entry" \/ r.src \in Destinations(resolved) THEN doc
        ELSE RemoveNestedField(doc, r.src)
  IN  FoldLeft(Lift, body, resolved)

Written(body, resolved) ==
  LET Write(w, r) == IF w.ok /\ r.is = "entry" THEN SetNestedField(w.doc, r.val, r.dst) ELSE w
  IN  FoldLeft(Write, [ok |-> TRUE, doc |-> body], resolved)

(* NormalizeResponseBody: resolve every entry, write them all, lift the    *)
(* sources.                                                                *)
NormalizeResponseBody(transform, mapping, body) ==
  LET failure == [ok |-> FALSE, body |-> body]
      Resolve(i, doc) ==
        IF i \in ResponseEntries(mapping) THEN ResolveResponseEntry(mapping[i], doc)
        ELSE [is |-> "skip"]
      Finished(written, resolved) ==
        IF written.ok THEN [ok |-> TRUE, body |-> Lifted(written.doc, resolved)] ELSE failure
      Mapped(doc, resolved) ==
        IF \E i \in DOMAIN resolved : resolved[i].is = "error" THEN failure
        ELSE Finished(Written(doc, resolved), resolved)
      From(start) ==
        IF start.ok THEN Mapped(start.body, [i \in DOMAIN mapping |-> Resolve(i, start.body)])
        ELSE failure
  IN  From(ApplyDocumentTransform(transform, body))
=============================================================================
