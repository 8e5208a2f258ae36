------------------------------- MODULE DriftCycle -------------------------------
(***************************************************************************)
(* A custom resource kept in step with the resource it stands for: what    *)
(* the service answers is brought into the shape of the CR, mirrored in    *)
(* its status and compared with its spec (Observe); a difference is sent   *)
(* back in the shape of the API (Update).                                  *)
(*                                                                         *)
(* Verbs, conditions, conflicts and failing calls are those of module      *)
(* RestResources; here every call succeeds and the documents count.        *)
(***************************************************************************)
EXTENDS RequestBuilder, Comparison

CONSTANTS
  Definitions,   \* the RestDefinitions under study
  MaxChanges     \* bound on the edits of users and of the service

(* A definition is a record: get and update, the response transform and    *)
(* the field mapping of either verb; requestTransform and names, the       *)
(* fields of the update's body; updatable, their leaf paths; scope;        *)
(* statusFields; wraps, whether the service puts an envelope around what   *)
(* it answers and takes; writeOnly, the paths it never answers with; and   *)
(* specs and remotes, what users and the service may want.                 *)
IsDefinition(d) ==
  /\ \A verb \in {d.get, d.update} :
       verb.transform \in Programs \cup {"none"} /\ IsMapping(verb.mapping)
  /\ d.requestTransform \in {"none", "wrap", "fails"}
  /\ d.names \subseteq Text
  /\ d.statusFields \in Seq(Seq(Text))
  /\ d.wraps \in BOOLEAN /\ (d.wraps => d.requestTransform # "none")
  /\ \A path \in d.writeOnly : path \in Seq(Text) \ {<<>>} /\ Last(path) \notin DOMAIN IndexOf
  /\ \A spec \in d.specs : IsDocument(spec)
  /\ \A doc \in d.remotes : IsObject(doc)

(* What the service takes are objects, in an envelope where it answers     *)
(* with one; what it keeps to itself are fields and no elements of lists.  *)
ASSUME DefinitionsAssumption ==
  /\ {"spec", "status", "data", SecretValue} \subseteq Text
  /\ \A d \in Definitions : IsDefinition(d)
  /\ MaxChanges \in Nat

VARIABLES
  def,      \* the definition in force
  cr,       \* the custom resource, a document with spec and status
  remote,   \* the external resource, in the shape of the API
  sent,     \* the body last sent
  verdict,  \* what the observe of this round found, or "none" before it
  changes

vars == <<def, cr, remote, sent, verdict, changes>>

WithSpec(spec, status) == Put(Put(Leaf("map"), <<"spec">>, spec), <<"status">>, status)
-----------------------------------------------------------------------------
(* The service.                                                            *)

Envelope(doc) == IF def.wraps THEN Put(Leaf("map"), <<"data">>, doc) ELSE doc
Contents(doc) == IF def.wraps THEN Sub(doc, <<"data">>) ELSE doc

Answer(doc) ==
  Envelope([p \in {q \in DOMAIN doc : ~\E path \in def.writeOnly : IsPrefix(path, q)} |-> doc[p]])

(* The fields it is sent replace its own.                                  *)
Patched(doc, body) ==
  LET names  == {p[1] : p \in DOMAIN body \ {<<>>}}
      others == {p \in DOMAIN doc : p = <<>> \/ p[1] \notin names}
  IN  [p \in DOMAIN body \cup others |-> IF p \in DOMAIN body THEN body[p] ELSE doc[p]]
-----------------------------------------------------------------------------
(* Mutant of PopulateStatusFields: keeps what the status has already.      *)
PopulateMissingFields(doc, body) ==
  LET Mirror(w, path) ==
        IF ~FoundInMaps(body, path) \/ (<<"status">> \o path) \in DOMAIN w.doc THEN w
        ELSE SetNestedField(w.doc, Sub(body, path), <<"status">> \o path)
  IN  FoldLeft(Mirror, [ok |-> TRUE, doc |-> doc], def.statusFields)

(* populateStatusFields: the identifiers and additional status fields the  *)
(* body has.  A field below one that became a scalar is an error.          *)
PopulateStatusFields(doc, body) ==
  LET Mirror(w, path) ==
        LET place == <<"status">> \o path
            open  == \A n \in 0..Len(path) :
                       SubSeq(place, 1, n) \in DOMAIN w.doc => w.doc[SubSeq(place, 1, n)] = "map"
        IN  CASE ~w.ok \/ ~FoundInMaps(body, path) -> w
              [] OTHER -> IF open THEN SetNestedField(w.doc, Sub(body, path), place)
                          ELSE [w EXCEPT !.ok = FALSE]
  IN  FoldLeft(Mirror, [ok |-> TRUE, doc |-> doc], def.statusFields)

ScopeFields == IF def.scope = "updatable" THEN def.updatable ELSE Range(def.statusFields)

(* Observe: a body that cannot be normalised or compared is an error.      *)
Observe ==
  /\ verdict = "none"
  /\ \E normal \in {NormalizeResponseBody(def.get.transform, def.get.mapping, Answer(remote))} :
     \E mirrored \in {PopulateStatusFields(cr, normal.body)} :
         IF ~normal.ok \/ ~mirrored.ok
         THEN cr' = cr /\ verdict' = "failed"
         ELSE /\ cr' = mirrored.doc
              /\ \E outcome \in IsCRUpdated(Sub(cr, <<"spec">>), normal.body, def.scope, ScopeFields) :
                   verdict' = CASE outcome = "equal"   -> "upToDate"
                                [] outcome = "differs" -> "drift"
                                [] OTHER               -> "failed"
  /\ UNCHANGED <<def, remote, sent, changes>>

(* Update: the status is built anew from what the service answers, unless  *)
(* the answer cannot be read; the request has been made by then.           *)
Update ==
  /\ verdict = "drift"
  /\ \E out \in {ApplyRequestTransform(def.requestTransform,
                                        BuildBody(cr, def.names, def.update.mapping, TRUE))} :
     \E became \in {Patched(remote, Contents(out.value))} :
     \E normal \in {NormalizeResponseBody(def.update.transform, def.update.mapping, Answer(became))} :
     \E mirrored \in {PopulateStatusFields(Without(cr, <<"status">>), normal.body)} :
         LET read == normal.ok /\ mirrored.ok
         IN  IF ~out.ok
             THEN verdict' = "failed" /\ UNCHANGED <<cr, remote, sent>>
             ELSE /\ sent' = out.value
                  /\ remote' = became
                  /\ cr' = IF read THEN mirrored.doc ELSE cr
                  /\ verdict' = IF read THEN "none" ELSE "failed"
  /\ UNCHANGED <<def, changes>>

(* The runtime reconciles every CR again and again.                        *)
Resync ==
  /\ verdict \in {"upToDate", "failed"}
  /\ verdict' = "none"
  /\ UNCHANGED <<def, cr, remote, sent, changes>>

Change == changes < MaxChanges /\ changes' = changes + 1 /\ UNCHANGED <<def, sent, verdict>>

(* A user edits the spec.  Observe and the Update it leads to work on one  *)
(* reading of the CR, so that an edit in between comes after both.         *)
Edit ==
  /\ Change
  /\ verdict # "drift"
  /\ \E spec \in def.specs : cr' = Put(cr, <<"spec">>, spec)
  /\ UNCHANGED remote

(* Someone changes the resource at the service, between any two steps.     *)
Alter ==
  /\ Change
  /\ remote' \in def.remotes
  /\ UNCHANGED cr

Init ==
  /\ def \in Definitions
  /\ \E spec \in def.specs : cr = WithSpec(spec, Leaf("map"))
  /\ remote \in def.remotes
  /\ sent = Leaf("map")
  /\ verdict = "none"
  /\ changes = 0

Next == Observe \/ Update \/ Resync \/ Edit \/ Alter

(* What is due is done.  A step of the verdict out of "none" is an Observe *)
(* and one out of "drift" an Update, and either is always possible there.  *)
ObserveDone == verdict = "none" /\ verdict' \in {"upToDate", "drift", "failed"}
UpdateDone  == verdict = "drift" /\ verdict' \in {"none", "failed"}
Fairness == WF_verdict(ObserveDone) /\ WF_verdict(UpdateDone) /\ WF_vars(Resync)

Spec == Init /\ [][Next]_vars /\ Fairness
-----------------------------------------------------------------------------
(* What the definition means.  def.fields pairs a path of the spec with    *)
(* the path of the same field at the API, the texts it translates between, *)
(* and the value its absence stands for; inScope says whether drift of it  *)
(* counts.                                                                 *)

Translated(doc, pairs) ==
  [p \in DOMAIN doc |->
     IF \E pair \in pairs : pair.api = doc[p] THEN (CHOOSE pair \in pairs : pair.api = doc[p]).cr
     ELSE doc[p]]

(* What the service holds of a field, in the terms of the CR.              *)
Held(field, doc) ==
  IF field.api \in DOMAIN doc THEN Translated(Sub(doc, field.api), field.pairs) ELSE field.absent

Same(wanted, held) ==
  \A p \in DOMAIN wanted : p \in DOMAIN held /\ InferType(wanted[p]) = InferType(held[p])

Differs(field, spec, doc) ==
  /\ field.cr \in DOMAIN spec
  /\ Held(field, doc) # NoDefault
  /\ ~Same(Sub(spec, field.cr), Held(field, doc))

Drifted(spec, doc) == \E field \in def.fields : field.inScope /\ Differs(field, spec, doc)
SpecOf(doc) == Sub(doc, <<"spec">>)
-----------------------------------------------------------------------------
(* The CR, the resource and every body sent are documents: nothing hangs   *)
(* in the air and no list has a gap, whatever was written into them and    *)
(* removed from them.                                                      *)
TypeOK ==
  /\ def \in Definitions
  /\ IsObject(cr) /\ IsObject(remote) /\ IsObject(sent)
  /\ verdict \in {"none", "upToDate", "drift", "failed"}
  /\ changes \in 0..MaxChanges

(* Observe reports a drift exactly where a field in scope differs, by what *)
(* the definition means and not by how the bodies look: an API that        *)
(* renames, swaps, nests, wraps, translates or leaves out is no drift.     *)
VerdictIsRight ==
  [][(verdict = "none" /\ verdict' \notin {"none", "failed"})
       => ((verdict' = "drift") <=> Drifted(SpecOf(cr), remote))]_vars

(* After a successful reconcile step every status field that is a field of *)
(* the spec, too, shows what the service holds in the terms of the CR: the *)
(* answers of get and of update are read alike, and nothing stale is kept. *)
StatusIsTranslated ==
  [][(verdict \in {"none", "drift"} /\ verdict' # verdict /\ verdict' # "failed") =>
       \A field \in def.fields :
         LET place == <<"status">> \o field.cr
         IN  (field.cr \in Range(def.statusFields) /\ Held(field, remote') # NoDefault)
               => place \in DOMAIN cr' /\ Sub(cr', place) = Held(field, remote')]_vars

(* An update repairs what observe complained of: the body sent says in the *)
(* terms of the API what the spec says in those of the CR.                 *)
UpdateRepairs == [][sent' # sent => ~Drifted(SpecOf(cr'), remote')]_vars

(* The resolved value has a place of its own, named by fields only; no     *)
(* other entry writes to it, and no pointer is taken out above it.         *)
HasPlace(secret, mapping) ==
  LET Pointer(j) == BodyRelativePath(mapping[j].inCustomResource)
  IN  /\ OnlyFields(secret.value)
      /\ \A j \in DOMAIN mapping :
           mapping[j].resolver => OnlyFields(Pointer(j)) /\ Part(secret.value, Pointer(j))
      /\ \E i \in DOMAIN mapping :
           /\ mapping[i].resolver /\ mapping[i].jq = "none" /\ mapping[i].aliases = <<>>
           /\ mapping[i].inBody = secret.value
           /\ Pointer(i) = secret.pointer
           /\ \A j \in DOMAIN mapping \ {i} :
                mapping[j].inBody = <<>> \/ Part(secret.value, mapping[j].inBody)

(* The definitions of which it is proved that Secrets are resolved.        *)
SecretsHavePlaces(d) ==
  /\ d.requestTransform # "wrap"
  /\ \A secret \in d.secrets : HasPlace(secret, d.update.mapping)

(* What a Secret holds is sent where the definition wants it, and the      *)
(* pointer to the Secret is not sent at all.                               *)
SecretsResolved ==
  sent # Leaf("map") =>
    \A secret \in def.secrets :
      /\ secret.value \in DOMAIN sent /\ sent[secret.value] = SecretValue
      /\ secret.pointer \notin DOMAIN sent

(* When nobody changes anything any more, the resource comes to be what    *)
(* the spec says and the updates cease; unless the definition fails.       *)
Settles == <>[](verdict # "drift" /\ ~Drifted(SpecOf(cr), remote)) \/ []<>(verdict = "failed")
=============================================================================
