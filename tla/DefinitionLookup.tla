----------------------------- MODULE DefinitionLookup ----------------------------
(***************************************************************************)
(* The definition of a CR and the credentials of its calls, looked up anew *)
(* by every handler (definitiongetter).                                    *)
(*                                                                         *)
(* An item of the list is a record: resource, oasPath and decodes say that *)
(* these parts can be had; group and kind are "own" for those of the CR,   *)
(* "other" or "missing".  The configuration a CR names is a record, too:   *)
(* named, readable, authentication (there is such a section), methods (in  *)
(* it) and usable (the methods whose fields and Secrets can be read).      *)
(***************************************************************************)
EXTENDS Workers, Sequences

CONSTANTS
  Catalogs,         \* the lists of RestDefinitions the cluster may hold
  Configurations    \* what the CR of each worker may name

VARIABLES
  handled,   \* of the CR at hand: may it have a definition, wants it credentials
  auth       \* whether the calls carry credentials

lookupVars == <<handled, auth>>

SupportedMethods == {"basic", "bearer", "apiKey"}
NothingHandled == [exists |-> FALSE, credentials |-> FALSE]

LookupTypeOK ==
  /\ handled \in [Workers -> [exists : BOOLEAN, credentials : BOOLEAN]]
  /\ auth \in [Workers -> {"none", "credentials"}]

(* What ends the search through the list: a definition of the CR, and one  *)
(* that cannot be told to be another's.                                    *)
Decides(item) ==
  \/ ~item.resource \/ item.group = "missing" \/ item.kind = "missing"
  \/ item.kind = "own" /\ (item.group = "own" \/ ~item.oasPath)

Whole(item) ==
  item.resource /\ item.oasPath /\ item.decodes /\ item.group = "own" /\ item.kind = "own"

(* Mutant of Definition: a definition that cannot be read is skipped.      *)
DefinitionSkipsBroken(catalog) ==
  IF \E i \in DOMAIN catalog : Whole(catalog[i]) THEN "found" ELSE "notFound"

(* Get, as to the list.                                                    *)
Definition(catalog) ==
  LET deciding == {i \in DOMAIN catalog : Decides(catalog[i])}
      first    == CHOOSE i \in deciding : \A j \in deciding : i <= j
  IN  CASE deciding = {}         -> "notFound"
        [] deciding # {} /\ Whole(catalog[first])  -> "found"
        [] deciding # {} /\ ~Whole(catalog[first]) -> "error"

(* Mutant of ParseAuthentication: a Secret that cannot be read is no error. *)
ParseAuthenticationLeniently(config) ==
  {IF m \in SupportedMethods \cap config.usable THEN "credentials" ELSE "none" : m \in config.methods}

(* parseAuthentication: of the methods named, whichever the map yields.    *)
ParseAuthentication(config) ==
  IF config.methods = {} THEN {"error"}
  ELSE {IF m \in SupportedMethods \cap config.usable THEN "credentials" ELSE "error" : m \in config.methods}

(* processConfigurationRef: the credentials that come of what the CR names. *)
Credentials(config) ==
  CASE ~config.named                                              -> {"none"}
    [] config.named /\ ~config.readable                           -> {"error"}
    [] config.named /\ config.readable /\ ~config.authentication  -> {"none"}
    [] config.named /\ config.readable /\ config.authentication   -> ParseAuthentication(config)

LookupInit ==
  /\ handled = [w \in Workers |-> NothingHandled]
  /\ auth = [w \in Workers |-> "none"]

(* Some item of the list is, or may be, the CR's definition.               *)
MayExist(catalog) ==
  \E i \in DOMAIN catalog :
    ~catalog[i].resource \/ (catalog[i].kind \in {"own", "missing"} /\ catalog[i].group \in {"own", "missing"})

(* Get, with what it depends on: the list, and the configuration.          *)
LookupAnswers(w) ==
  UNION {{[found       |-> Definition(catalog),
           exists      |-> MayExist(catalog),
           has         |-> has,
           credentials |-> config.named /\ config.readable /\ config.authentication]
          : has \in Credentials(config)} : catalog \in Catalogs, config \in Configurations[w]}

Get(w) ==
  /\ At(w, "idle")
  /\ \E answer \in LookupAnswers(w) :
       /\ handled' = [handled EXCEPT ![w] = [exists |-> answer.exists, credentials |-> answer.credentials]]
       /\ CASE answer.found = "notFound" ->
                 Goto(w, "unlisted") /\ UNCHANGED auth
            [] answer.found = "error" \/ (answer.found = "found" /\ answer.has = "error") ->
                 Goto(w, "failed") /\ UNCHANGED auth
            [] answer.found = "found" /\ answer.has # "error" ->
                 /\ auth' = [auth EXCEPT ![w] = answer.has]
                 /\ Goto(w, "modules") \/ Goto(w, "directory")

(* The definitions cannot be listed.                                       *)
ListFails(w) == At(w, "idle") /\ Goto(w, "failed") /\ UNCHANGED lookupVars

(* What was looked up goes with the handler.                               *)
ForgetDefinition(w) ==
  /\ handled' = [handled EXCEPT ![w] = NothingHandled]
  /\ auth' = [auth EXCEPT ![w] = "none"]
=============================================================================
