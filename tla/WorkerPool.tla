------------------------------- MODULE WorkerPool -------------------------------
(***************************************************************************)
(* What the workers of one process share while each runs its handler: the  *)
(* cache of jq modules, the temporary directory of the OpenAPI document,   *)
(* and the token of authn with its lock.                                   *)
(*                                                                         *)
(* Time passes in units.  It does not pass over what is due: a timeout is  *)
(* acted upon when it ends.  What the calls of a handler do to its CR is   *)
(* the subject of module RestResources.                                    *)
(***************************************************************************)
EXTENDS OperationPoll

vars == <<stage, elapsed, lookupVars, moduleVars, documentVars, tokenVars, pollVars>>

Init ==
  /\ WorkersInit /\ LookupInit /\ ModulesInit /\ DocumentInit /\ TokenInit /\ PollInit

(* The handler is over, and what it knew is gone.                          *)
Finish(w) ==
  /\ Return(w)
  /\ ForgetDefinition(w)
  /\ ForgetClient(w)
  /\ UNCHANGED moduleVars

(* The definition is looked up.                                            *)
Lookup(w) == (Get(w) \/ ListFails(w)) /\ UNCHANGED <<moduleVars, documentVars, tokenVars, pollVars>>

(* No definition, no client, no token: the handler reports it.             *)
GiveUp(w) ==
  /\ stage[w] \in {"unlisted", "failed"}
  /\ Finish(w)
  /\ UNCHANGED <<tokenVars, pollVars>>

Modules(w) ==
  /\ FetchCached(w) \/ FetchBegin(w) \/ SourceRead(w) \/ FetchEnd(w)
  /\ UNCHANGED <<lookupVars, documentVars, tokenVars, pollVars>>

Document(w) ==
  /\ BuildClient(w) \/ Download(w) \/ Create(w) \/ Copy(w) \/ CopyFails(w) \/ ReadFile(w) \/ RemoveAll(w)
  /\ UNCHANGED <<lookupVars, moduleVars, tokenVars, pollVars>>

(* A call of the service.                                                  *)
Call(w) ==
  /\ stage[w] \in {"calling", "verifying"}
  /\ Finish(w)
  /\ UNCHANGED <<tokenVars, pollVars>>

(* A call delegated to a RESTAction: Observe makes it before it builds a   *)
(* client, the other handlers afterwards.                                  *)
Delegate(w) ==
  /\ stage[w] \in {"directory", "calling"}
  /\ Goto(w, "token")
  /\ UNCHANGED <<lookupVars, moduleVars, documentVars, tokenVars, pollVars>>

Authn(w) ==
  /\ Token(w) \/ Exchanged(w) \/ ExchangeFails(w)
  /\ UNCHANGED <<lookupVars, moduleVars, documentVars, pollVars>>

Issue == TokenIssued /\ UNCHANGED <<lookupVars, moduleVars, documentVars, pollVars>>

Request(w) == At(w, "requesting") /\ Finish(w) /\ UNCHANGED <<tokenVars, pollVars>>

(* A delegated delete is answered; whether the resource is gone is asked   *)
(* with a call of the handler's own.                                       *)
Verify(w) ==
  /\ At(w, "requesting") /\ client[w] # "none"
  /\ Goto(w, "verifying")
  /\ UNCHANGED <<lookupVars, moduleVars, documentVars, tokenVars, pollVars>>

(* A call is accepted, and the handler polls.                              *)
Accepted(w) == PollBegin(w) /\ UNCHANGED <<lookupVars, moduleVars, documentVars, tokenVars>>

Poll(w) ==
  \/ (PollPending(w) \/ PollAgain(w)) /\ UNCHANGED <<lookupVars, moduleVars, documentVars, tokenVars>>
  \/ (PollEnds(w) \/ PollCancelled(w)) /\ Finish(w) /\ UNCHANGED tokenVars

Due(w) == FetchDue(w) \/ ExchangeDue(w) \/ RequestDue(w) \/ WaitDue(w)

Timed(w) == stage[w] \in {"fetching", "exchanging", "polling", "waiting"}

Tick ==
  /\ \A w \in Workers : ~Due(w)
  /\ elapsed' = [w \in Workers |-> IF Timed(w) THEN elapsed[w] + 1 ELSE elapsed[w]]
  /\ ModulesAge /\ TokenAge /\ PollAge
  /\ UNCHANGED <<stage, lookupVars, documentVars>>

Step(w) ==
  \/ Lookup(w) \/ GiveUp(w) \/ Modules(w) \/ Document(w) \/ Call(w) \/ Delegate(w)
  \/ Authn(w) \/ Request(w) \/ Verify(w) \/ Accepted(w) \/ Poll(w)

Next == Issue \/ Tick \/ \E w \in Workers : Step(w)

(* The requests that no timeout of the code guards; the body of a document *)
(* may stall as its headers may.                                           *)
Unguarded == {"download", "copy", "calling", "verifying"}

(* What nothing outside can hold up: the process runs, and what is due     *)
(* ends.                                                                   *)
Prompt(w) ==
  \/ GiveUp(w) \/ Request(w) \/ Verify(w)
  \/ stage[w] \notin Unguarded /\ Document(w)
  \/ At(w, "modules") /\ Modules(w)
  \/ Due(w) /\ (Modules(w) \/ Authn(w) \/ Poll(w))

(* Time goes on, a runnable goroutine runs, and the lock is fair.          *)
Fairness ==
  /\ WF_vars(Tick)
  /\ \A w \in Workers : WF_vars(Prompt(w)) /\ SF_vars(At(w, "token") /\ Authn(w))

Spec == Init /\ [][Next]_vars /\ Fairness
-----------------------------------------------------------------------------
Stages ==
  {"idle", "unlisted", "failed", "modules", "fetching", "directory", "calling", "token", "exchanging",
   "requesting", "verifying", "polling", "waiting"} \cup DocumentStages

TypeOK ==
  /\ stage \in [Workers -> Stages] /\ elapsed \in [Workers -> Nat]
  /\ LookupTypeOK /\ ModulesTypeOK /\ DocumentTypeOK /\ TokenTypeOK /\ PollTypeOK

(* A handler finds that its CR has no definition, on which Delete lets the *)
(* CR go without its resource, only where none of the definitions listed   *)
(* is, or might be, the CR's.                                              *)
AbsentMeansAbsent == \A w \in Workers : At(w, "unlisted") => ~handled[w].exists

(* Where the configuration of a CR asks for credentials, no call is made   *)
(* without them: none of the failures on the way to a Secret is taken for  *)
(* a configuration that asks for none.                                     *)
CallsCarryCredentials ==
  \A w \in Workers :
    (client[w] # "none" /\ handled[w].credentials) => auth[w] = "credentials"

(* A jq module that is served was at its source no longer ago than its     *)
(* time to live and one fetch, however fetches overlap and overtake.       *)
ServedIsRecent == (Fresh(entry) /\ entry.is = "data") => entry.read < TTL + FetchTimeout

(* A client whose making no other worker overlapped is made of the whole   *)
(* document, whatever other workers and failures have left behind.         *)
BuiltAloneIsWhole ==
  \A w \in Workers : (client[w] # "none" /\ ~disturbed[w]) => client[w] = "whole"

(* A token that is served from the cache has not expired: the margin makes *)
(* up for the time its answer was on the way.                              *)
CachedTokenIsValid == Usable(token) => token.left > 0

(* How long a plan lasts whose requests all take their time.               *)
Longest(p) == p.attempts * RequestTimeout + (p.attempts - 1) * p.interval

(* The time until the request under way, or the next one, is over at last. *)
RequestEnds(w) ==
  RequestTimeout + IF At(w, "polling") THEN poll[w].since - elapsed[w]
                                       ELSE poll[w].since - elapsed[w] + poll[w].interval

(* Where the definition limits no poll, every attempt is made and has the  *)
(* whole of its request.  The only deadline that may cut one short is the  *)
(* greatest total there is, and that only in a plan that would last longer *)
(* itself, as the caps on interval and attempts allow: at the default      *)
(* interval, with 59 attempts.                                             *)
BudgetCoversPlan ==
  \A w \in Workers :
    (Polls(w) /\ poll[w].derived) =>
      \/ RequestEnds(w) <= poll[w].total
      \/ poll[w].total = MaxTotal /\ Longest(poll[w]) > MaxTotal

(* No poll holds its worker beyond its total, nor beyond the greatest one. *)
PinnedNoLonger ==
  \A w \in Workers : Polls(w) => poll[w].since <= poll[w].total /\ poll[w].total <= MaxTotal

(* Every handler comes to its end, so that its worker is free again,       *)
(* unless a request hangs that nothing limits; then it hangs there and     *)
(* holds up no other worker, at no lock and in no shared file.             *)
HandlersReturn == \A w \in Workers : []<>At(w, "idle") \/ <>[](stage[w] \in Unguarded)
=============================================================================
