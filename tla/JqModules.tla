-------------------------------- MODULE JqModules -------------------------------
(***************************************************************************)
(* The jq modules a definition refers to, fetched through a cache that all *)
(* workers share (jqmodule).  Entries of different references never meet,  *)
(* so one reference is enough.                                             *)
(***************************************************************************)
EXTENDS DefinitionLookup

CONSTANTS
  TTL, NegativeTTL,   \* how long a module and a failure are served
  FetchTimeout

ASSUME ModuleAssumption ==
  TTL \in Nat \ {0} /\ NegativeTTL \in 1..TTL /\ FetchTimeout \in Nat \ {0}

VARIABLES
  entry,    \* the cache: is data, error or none; its age, and that of what was read
  fetched   \* what the fetch of each worker has come to: is, and its age

moduleVars == <<entry, fetched>>

NoEntry == [is |-> "none", age |-> 0, read |-> 0]
Nothing == [is |-> "none", read |-> 0]

ModulesTypeOK ==
  /\ entry \in [is : {"none", "data", "error"}, age : Nat, read : Nat]
  /\ fetched \in [Workers -> [is : {"none", "data", "error"}, read : Nat]]

ModulesInit == entry = NoEntry /\ fetched = [w \in Workers |-> Nothing]

Fresh(e) ==
  \/ e.is = "data" /\ e.age < TTL
  \/ e.is = "error" /\ e.age < NegativeTTL

After(outcome) == IF outcome = "data" THEN "directory" ELSE "failed"

(* Mutant of FetchCached: what is used stays fresh.                        *)
FetchCachedSliding(w) ==
  /\ At(w, "modules")
  /\ Fresh(entry)
  /\ Goto(w, After(entry.is))
  /\ entry' = [entry EXCEPT !.age = 0]
  /\ UNCHANGED fetched

(* Fetch, under its lock: a fresh entry answers, whatever it is.           *)
FetchCached(w) ==
  /\ At(w, "modules")
  /\ Fresh(entry)
  /\ Goto(w, After(entry.is))
  /\ UNCHANGED moduleVars

(* The lock is let go for the call: several workers may fetch at once.     *)
FetchBegin(w) == At(w, "modules") /\ ~Fresh(entry) /\ Goto(w, "fetching") /\ UNCHANGED moduleVars

(* The ConfigMap or the server is read, at some moment of the call.        *)
SourceRead(w) ==
  /\ At(w, "fetching")
  /\ fetched[w].is = "none"
  /\ \E outcome \in {"data", "error"} : fetched' = [fetched EXCEPT ![w] = [is |-> outcome, read |-> 0]]
  /\ UNCHANGED <<stage, elapsed, entry>>

(* The answer, or the end of the time for it, replaces what is cached by   *)
(* then, be it newer.                                                      *)
FetchEnd(w) ==
  /\ At(w, "fetching")
  /\ fetched[w].is # "none" \/ elapsed[w] >= FetchTimeout
  /\ \E outcome \in {"error", fetched[w].is} \ {"none"} :
       /\ entry' = [is |-> outcome, age |-> 0, read |-> IF outcome = "data" THEN fetched[w].read ELSE 0]
       /\ Goto(w, After(outcome))
  /\ fetched' = [fetched EXCEPT ![w] = Nothing]

FetchDue(w) == At(w, "fetching") /\ elapsed[w] >= FetchTimeout

(* A unit of time; an entry past its time to live does not grow older.     *)
ModulesAge ==
  /\ entry' = IF Fresh(entry) THEN [is |-> entry.is, age |-> entry.age + 1, read |-> entry.read + 1] ELSE NoEntry
  /\ fetched' = [w \in Workers |->
                   IF fetched[w].is = "none" THEN fetched[w] ELSE [fetched[w] EXCEPT !.read = @ + 1]]
=============================================================================
