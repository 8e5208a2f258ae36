----------------------------- MODULE RequestBuilder -----------------------------
(***************************************************************************)
(* The body of a request, assembled from the CR (client/builder and the    *)
(* request side of fieldmapping).                                          *)
(*                                                                         *)
(* A CR is a document with the fields "spec" and "status".                 *)
(***************************************************************************)
EXTENDS FieldMapping

CONSTANT SecretValue   \* what a Secret holds that a resolver points at

Fields(cr, part) == IF <<part>> \in DOMAIN cr THEN Sub(cr, <<part>>) ELSE Leaf("map")

(* processFields: the fields the body can carry, unless it has a value.    *)
ProcessFields(body, fields, names) ==
  LET taken == {f \in names : /\ <<f>> \in DOMAIN fields
                              /\ <<f>> \notin DOMAIN body \/ body[<<f>>] = "null"}
      Of(doc, S) == {p \in DOMAIN doc : p # <<>> /\ p[1] \in S}
      new  == Of(fields, taken)
      kept == DOMAIN body \ Of(body, taken)
  IN  [p \in kept \cup new |-> IF p \in new THEN fields[p] ELSE body[p]]

(* applyFieldMapping: entries whose value cannot be had, or would have to  *)
(* be computed by jq, are skipped; so is a write that fails.               *)
ApplyFieldMapping(body, cr, mapping, resolved) ==
  LET Write(doc, entry) ==
        LET known == IF entry.resolver THEN resolved ELSE Found(cr, entry.inCustomResource)
            value == IF entry.resolver THEN Leaf(SecretValue) ELSE Value(cr, entry.inCustomResource)
        IN  IF entry.inBody = <<>> \/ ~known \/ entry.jq # "none" THEN doc
            ELSE SetNestedField(doc, ApplyAlias(value, entry.aliases, "cr", "api"), entry.inBody).doc
  IN  FoldLeft(Write, body, mapping)

(* Mutant of StripResolverSources: looks for the pointer by its CR path.   *)
StripByCustomResourcePath(body, mapping) ==
  FoldLeft(LAMBDA doc, entry :
             IF entry.resolver THEN RemoveNestedField(doc, entry.inCustomResource) ELSE doc,
           body, mapping)

(* stripResolverSources: the pointers to Secrets are no part of the body.  *)
StripResolverSources(body, mapping) ==
  LET Strip(doc, entry) ==
        IF entry.resolver THEN RemoveNestedField(doc, BodyRelativePath(entry.inCustomResource))
        ELSE doc
  IN  FoldLeft(Strip, body, mapping)

(* Mutant of BuildBody: the status is beneath nothing.                     *)
BuildStatusFirst(cr, names, mapping, resolved) ==
  LET ofStatus == ProcessFields(Leaf("map"), Fields(cr, "status"), names)
      ofSpec   == ProcessFields(ofStatus, Fields(cr, "spec"), names)
  IN  StripResolverSources(ApplyFieldMapping(ofSpec, cr, mapping, resolved), mapping)

(* BuildCallConfig: spec, then status beneath it, then the mappings, which *)
(* win because they are written last.                                      *)
BuildBody(cr, names, mapping, resolved) ==
  LET ofSpec   == ProcessFields(Leaf("map"), Fields(cr, "spec"), names)
      ofStatus == ProcessFields(ofSpec, Fields(cr, "status"), names)
      mapped   == ApplyFieldMapping(ofStatus, cr, mapping, resolved)
  IN  StripResolverSources(mapped, mapping)

(* ApplyRequestTransform, on a body with something in it.                  *)
ApplyRequestTransform(program, body) ==
  IF program = "none" \/ DOMAIN body = {<<>>} THEN [ok |-> TRUE, value |-> body]
  ELSE RunJq(program, body)
=============================================================================
