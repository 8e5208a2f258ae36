------------------------------ MODULE MCDriftCycle -----------------------------
(* The definitions, specs and resources DriftCycle is checked with.        *)
EXTENDS DriftCycle

Strings == STRING
Indices == "0" :> 0 @@ "1" :> 1 @@ "2" :> 2
Predicates == "?type=password" :> [key |-> "type", want |-> "password"]
Types == "1.024e+03" :> "1024" @@ "TRUE" :> "true"
NotNumbers == {"NaN"}

(* A document from the fields at its top.                                  *)
Doc(fields) == FoldSet(LAMBDA f, d : Put(d, <<f>>, fields[f]), Leaf("map"), DOMAIN fields)
Texts(fields) == Doc([f \in DOMAIN fields |-> Leaf(fields[f])])
List(elements) ==
  FoldLeft(LAMBDA d, i : Put(d, <<Segment(i - 1)>>, elements[i]), Leaf("list"),
           [i \in 1..Len(elements) |-> i])

Field(path) == [cr |-> path, api |-> path, pairs |-> {}, absent |-> NoDefault, inScope |-> TRUE]

Entry == [inCustomResource |-> <<>>, inResponse |-> <<>>, inBody |-> <<>>, aliases |-> <<>>,
          jq |-> "none", default |-> NoDefault, resolver |-> FALSE]
Reads(api, path) == [Entry EXCEPT !.inResponse = api, !.inCustomResource = path]
Sends(path, api) == [Entry EXCEPT !.inBody = api, !.inCustomResource = path]

Answers(transform, mapping) == [transform |-> transform, mapping |-> mapping]

Plain ==
  [get |-> Answers("none", <<>>), update |-> Answers("none", <<>>), requestTransform |-> "none",
   names |-> {"name", "size", "tags"}, updatable |-> {}, scope |-> "fullSpec",
   statusFields |-> <<<<"id">>, <<"name">>>>, wraps |-> FALSE, writeOnly |-> {}, secrets |-> {},
   fields |-> {Field(<<"name">>), Field(<<"size">>), Field(<<"tags">>)},
   specs |-> {Doc("name" :> Leaf(n) @@ "size" :> Leaf("1024") @@ "tags" :> List(<<Leaf("x"), Leaf(t)>>)) :
                n \in {"a", "b"}, t \in {"x", "y"}},
   remotes |-> {Doc("id" :> Leaf("7") @@ "name" :> Leaf("a") @@ "size" :> Leaf(s) @@ "tags" :> List(tags)) :
                  s \in {"1.024e+03", "2"}, tags \in {<<Leaf("x")>>, <<Leaf("x"), Leaf("y"), Leaf("z")>>}}]

(* owner is called login, and on and off are called enabled and disabled.  *)
States == <<[cr |-> "on", api |-> "enabled"], [cr |-> "off", api |-> "disabled"]>>
Renamed ==
  LET reads == <<Reads(<<"login">>, <<"spec", "owner">>),
                 [Reads(<<"mode">>, <<"spec", "state">>) EXCEPT !.aliases = States]>>
      sends == <<Sends(<<"spec", "owner">>, <<"login">>),
                 [Sends(<<"spec", "state">>, <<"mode">>) EXCEPT !.aliases = States]>>
  IN  [Plain EXCEPT
        !.get = Answers("none", reads), !.update = Answers("none", sends \o reads), !.names = {"name"},
        !.statusFields = <<<<"owner">>, <<"state">>>>,
        !.fields = {Field(<<"name">>), [Field(<<"owner">>) EXCEPT !.api = <<"login">>],
                    [Field(<<"state">>) EXCEPT !.api = <<"mode">>, !.pairs = Range(States)]},
        !.specs = {Texts("name" :> "a" @@ "owner" :> o @@ "state" :> s) : o \in {"o", "p"}, s \in {"on", "off"}},
        !.remotes = {Texts("name" :> "a" @@ "login" :> o @@ "mode" :> s) :
                       o \in {"o", "q"}, s \in {"enabled", "disabled", "broken"}}]

(* Two fields that have each other's name.                                 *)
Swapped ==
  LET reads == <<Reads(<<"a">>, <<"spec", "b">>), Reads(<<"b">>, <<"spec", "a">>)>>
      sends == <<Sends(<<"spec", "a">>, <<"b">>), Sends(<<"spec", "b">>, <<"a">>)>>
  IN  [Plain EXCEPT
        !.get = Answers("none", reads), !.update = Answers("none", sends \o reads), !.names = {"a", "b"},
        !.statusFields = <<<<"a">>>>,
        !.fields = {[Field(<<"a">>) EXCEPT !.api = <<"b">>], [Field(<<"b">>) EXCEPT !.api = <<"a">>]},
        !.specs = {Texts("a" :> x @@ "b" :> y) : x, y \in {"1", "2"}},
        !.remotes = {Texts("a" :> x @@ "b" :> y) : x, y \in {"1", "2"}}]

(* A field that moves along a chain: a is read from b, and b from c.       *)
Chained ==
  LET reads == <<Reads(<<"b">>, <<"spec", "a">>), Reads(<<"c">>, <<"spec", "b">>)>>
      sends == <<Sends(<<"spec", "a">>, <<"b">>), Sends(<<"spec", "b">>, <<"c">>)>>
  IN  [Swapped EXCEPT
        !.get = Answers("none", reads), !.update = Answers("none", sends \o reads), !.names = {},
        !.statusFields = <<<<"a">>, <<"b">>>>,
        !.fields = {[Field(<<"a">>) EXCEPT !.api = <<"b">>], [Field(<<"b">>) EXCEPT !.api = <<"c">>]},
        !.remotes = {Texts("b" :> x @@ "c" :> y) : x, y \in {"1", "2"}}]

(* A value below an object that keeps its other fields, and the first      *)
(* element of a list that the CR knows by a name.                          *)
Nested ==
  LET reads == <<Reads(<<"meta", "owner">>, <<"spec", "owner">>), Reads(<<"mails", "0">>, <<"spec", "mail">>)>>
      sends == <<Sends(<<"spec", "owner">>, <<"meta", "owner">>), Sends(<<"spec", "mail">>, <<"mails", "0">>)>>
  IN  [Plain EXCEPT
        !.get = Answers("none", reads), !.update = Answers("none", sends \o reads), !.names = {"meta"},
        !.statusFields = <<<<"owner">>, <<"meta", "kind">>, <<"mails">>>>,
        !.fields = {[Field(<<"owner">>) EXCEPT !.api = <<"meta", "owner">>], Field(<<"meta", "kind">>),
                    [Field(<<"mail">>) EXCEPT !.api = <<"mails", "0">>]},
        !.specs = {Doc("owner" :> Leaf(o) @@ "mail" :> Leaf(m) @@ "meta" :> Texts("kind" :> "k")) :
                     o \in {"o", "p"}, m \in {"m", "n"}},
        !.remotes = {Doc("meta" :> Texts("kind" :> k @@ "owner" :> "o") @@ "mails" :> List(mails)) :
                       k \in {"k", "l"}, mails \in {<<Leaf("m")>>, <<Leaf("n"), Leaf("m")>>}}]

(* A credential whose value is in a Secret, chosen in its list by type.    *)
Credential(value) == Texts("type" :> "password" @@ "value" :> value)
Secret ==
  [Plain EXCEPT
    !.update = Answers("none", <<[Sends(<<"spec", "credentials", "0", "valueRef">>,
                                        <<"credentials", "?type=password", "value">>)
                                   EXCEPT !.resolver = TRUE]>>),
    !.names = {"name", "credentials"}, !.statusFields = <<<<"name">>>>,
    !.writeOnly = {<<"credentials", "0", "value">>},
    !.secrets = {[value |-> <<"credentials", "0", "value">>, pointer |-> <<"credentials", "0", "valueRef">>]},
    !.fields = {Field(<<"name">>), Field(<<"credentials", "0", "type">>)},
    !.specs = {Doc("name" :> Leaf(n) @@
                   "credentials" :> List(<<Texts("type" :> "password" @@ "valueRef" :> "pointer")>>)) : n \in {"a", "b"}},
    !.remotes = {Doc("name" :> Leaf(n) @@ "credentials" :> List(<<Credential("old")>>)) : n \in {"a", "c"}}]

(* A password beside a field of another name, and the pointer to it.       *)
Login ==
  LET reads == <<Reads(<<"auth", "user">>, <<"spec", "account">>)>>
      sends == <<[Sends(<<"spec", "auth", "passwordRef">>, <<"auth", "password">>) EXCEPT !.resolver = TRUE],
                 Sends(<<"spec", "account">>, <<"auth", "user">>)>>
  IN  [Secret EXCEPT
        !.get = Answers("none", reads), !.update = Answers("none", sends \o reads), !.names = {"name", "auth"},
        !.writeOnly = {<<"auth", "password">>},
        !.secrets = {[value |-> <<"auth", "password">>, pointer |-> <<"auth", "passwordRef">>]},
        !.fields = {Field(<<"name">>), [Field(<<"account">>) EXCEPT !.api = <<"auth", "user">>]},
        !.specs = {Doc("name" :> Leaf("a") @@ "account" :> Leaf(u) @@ "auth" :> Texts("passwordRef" :> "pointer")) :
                     u \in {"u", "v"}},
        !.remotes = {Doc("name" :> Leaf(n) @@ "auth" :> Texts("user" :> u @@ "password" :> "old")) :
                       n \in {"a", "c"}, u \in {"u", "w"}}]

(* An API that wraps what it answers and takes.                            *)
Wrapped ==
  [Renamed EXCEPT !.wraps = TRUE, !.requestTransform = "wrap",
                  !.get.transform = "unwrap", !.update.transform = "unwrap"]

(* An API that leaves out what is at its default.                          *)
Defaulted ==
  LET reads == <<[Reads(<<"note">>, <<"spec", "note">>) EXCEPT !.default = Leaf("quiet")]>>
  IN  [Plain EXCEPT
        !.get = Answers("none", reads), !.update = Answers("none", reads), !.names = {"name", "note"},
        !.statusFields = <<<<"note">>>>,
        !.fields = {Field(<<"name">>), [Field(<<"note">>) EXCEPT !.absent = Leaf("quiet")]},
        !.specs = {Texts("name" :> "a" @@ "note" :> n) : n \in {"quiet", "loud"}},
        !.remotes = {Texts("name" :> "a"), Texts("name" :> "b"), Texts("name" :> "a" @@ "note" :> "loud")}]

(* Only what an update can carry counts; region is for the create alone.   *)
Region == [Field(<<"region">>) EXCEPT !.inScope = FALSE]
Updatable ==
  [Plain EXCEPT
    !.names = {"name", "opts"}, !.scope = "updatable", !.updatable = {<<"name">>, <<"opts", "level">>},
    !.fields = {Field(<<"name">>), Region, Field(<<"opts", "level">>),
                [Field(<<"opts", "fixed">>) EXCEPT !.inScope = FALSE]},
    !.specs = {Doc("name" :> Leaf(n) @@ "region" :> Leaf("r") @@ "opts" :> Texts("level" :> l @@ "fixed" :> "f")) :
                 n \in {"a", "b"}, l \in {"1", "2"}},
    !.remotes = {Doc("id" :> Leaf("7") @@ "name" :> Leaf("a") @@ "region" :> Leaf(r) @@
                     "opts" :> Texts("level" :> "1" @@ "fixed" :> f)) : r \in {"r", "s"}, f \in {"f", "g"}}]

(* Only identifiers and additional status fields count.                    *)
StatusScoped ==
  [Plain EXCEPT !.scope = "identifiersAndStatus",
                !.fields = {Field(<<"name">>), [Field(<<"size">>) EXCEPT !.inScope = FALSE]}]

(* Programs that fail: of get, of update before and after the request; and *)
(* an answer that cannot be compared.                                      *)
Failing == [Plain EXCEPT !.get = Answers("fails", <<>>)]
Unprepared == [Plain EXCEPT !.requestTransform = "fails"]
Unread == [Plain EXCEPT !.update = Answers("none", <<[Reads(<<"name">>, <<"spec", "name">>) EXCEPT !.jq = "fails"]>>)]
Incomparable == [Plain EXCEPT !.remotes = {Texts("id" :> "7" @@ "name" :> "a" @@ "size" :> "2" @@ "tags" :> "x")}]

Understood == {Plain, Renamed, Swapped, Chained, Nested, Secret, Login, Wrapped, Defaulted,
               Updatable, StatusScoped, Failing, Unprepared, Unread, Incomparable}

(* Login meets the premise of the theorem on Secrets; Secret does not, as  *)
(* the place of its value depends on what is in a list.                    *)
ASSUME CoveredByTheorems == SecretsHavePlaces(Login) /\ ~SecretsHavePlaces(Secret)
=============================================================================
