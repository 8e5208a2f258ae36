---------------------------- MODULE WorkerPool_proofs ---------------------------
(***************************************************************************)
(* Proofs of the invariants of WorkerPool, for any number of workers, any  *)
(* lists, configurations and polls, and all times to live and timeouts.    *)
(*                                                                         *)
(* The inductive invariant has a part for each component: what its state   *)
(* and the stages of the workers that are at it have to do with each       *)
(* other.  Times are bounded by how long the worker has been at its stage. *)
(***************************************************************************)
EXTENDS WorkerPool, Integers, TLAPS

BeforeClient ==
  {"idle", "unlisted", "modules", "fetching", "directory", "download", "create", "copy", "read"}

LookupInv ==
  \A w \in Workers :
    /\ At(w, "unlisted") => ~handled[w].exists
    /\ (stage[w] \notin {"idle", "unlisted", "failed"} \/ client[w] # "none") =>
         (handled[w].credentials => auth[w] = "credentials")
    /\ stage[w] \in BeforeClient => client[w] = "none"

ModulesInv ==
  /\ entry.is = "data" => entry.read <= entry.age + FetchTimeout
  /\ \A w \in Workers :
       /\ At(w, "fetching") => elapsed[w] <= FetchTimeout
       /\ fetched[w].is # "none" => At(w, "fetching") /\ fetched[w].read <= elapsed[w]

DocumentInv ==
  \A w \in Workers :
    /\ stage[w] \notin {"copy", "read", "cleanup"} => written[w] = 0
    /\ At(w, "copy") => open[w] \in Inodes /\ written[w] \in 0..1
    /\ (~disturbed[w] /\ stage[w] \in DocumentStages) =>
         /\ \A v \in Workers \ {w} : stage[v] \notin DocumentStages
         /\ At(w, "copy") => link = open[w] /\ content[link] = 1..written[w]
         /\ At(w, "read") => link \in Inodes /\ content[link] = Halves
    /\ (~disturbed[w] /\ client[w] # "none") => client[w] = "whole"

TokenInv ==
  /\ \A w \in Workers :
       /\ At(w, "exchanging") <=> holder = w
       /\ At(w, "exchanging") => elapsed[w] <= ExchangeTimeout
  /\ token.cached => token.believed <= token.left + ExchangeTimeout
  /\ (issued.done /\ ~issued.readable) =>
       holder \in Workers /\ DefaultLifetime <= issued.left + elapsed[holder]

Capped(total) == IF total > MaxTotal THEN MaxTotal ELSE total

(* A poll that goes on is within its plan.                                 *)
Runs(w) ==
  LET p == poll[w]
      Round == p.interval + RequestTimeout
  IN  /\ p.interval \in Nat \ {0} /\ p.attempt \in 1..p.attempts
      /\ p.since <= p.total /\ p.total <= MaxTotal
      /\ p.derived => p.total = Capped(Budget(p.attempts, p.interval))
      /\ At(w, "polling") =>
           elapsed[w] <= RequestTimeout /\ p.since <= (p.attempt - 1) * Round + elapsed[w]
      /\ At(w, "waiting") =>
           /\ p.attempt < p.attempts /\ elapsed[w] <= p.interval
           /\ p.since <= (p.attempt - 1) * Round + RequestTimeout + elapsed[w]

PollInv == \A w \in Workers : Polls(w) => Runs(w)

IInv == TypeOK /\ LookupInv /\ ModulesInv /\ DocumentInv /\ TokenInv /\ PollInv
-----------------------------------------------------------------------------
(* A round has room for its request, whatever round it is.                 *)
LEMMA RoundsLeft ==
  ASSUME NEW n \in Nat, NEW a \in 1..n, NEW i \in Nat \ {0}, NEW r \in Nat,
         NEW since \in Nat, NEW e \in Nat, since <= (a - 1) * (i + r) + e
  PROVE  since + (r - e) <= n * r + (n - 1) * i
<1> DEFINE d == n - a
<1>1. d \in Nat /\ n = a + d
  OBVIOUS
<1>2. n * r + (n - 1) * i = (a - 1) * (i + r) + r + d * (i + r)
  BY <1>1
<1>3. d * (i + r) \in Nat /\ (a - 1) * (i + r) \in Nat
  BY <1>1
<1> QED BY <1>2, <1>3

(* The budget has two waits more than the plan.                            *)
LEMMA LongestWithinBudget ==
  ASSUME NEW n \in Nat \ {0}, NEW i \in Nat, NEW r \in Nat
  PROVE  /\ n * r + (n - 1) * i \in Nat
         /\ n * r + (n - 1) * i <= n * (i + r) + i
<1>1. n * r \in Nat /\ (n - 1) * i \in Nat
  OBVIOUS
<1>2. n * (i + r) + i = n * r + (n - 1) * i + i + i
  OBVIOUS
<1> QED BY <1>1, <1>2

(* Every invariant that is checked follows.                                *)
THEOREM InvariantsHold ==
  IInv => /\ AbsentMeansAbsent /\ CallsCarryCredentials /\ ServedIsRecent
          /\ BuiltAloneIsWhole /\ CachedTokenIsValid /\ BudgetCoversPlan /\ PinnedNoLonger
<1> SUFFICES ASSUME IInv
             PROVE  /\ AbsentMeansAbsent /\ CallsCarryCredentials /\ ServedIsRecent
                    /\ BuiltAloneIsWhole /\ CachedTokenIsValid /\ BudgetCoversPlan /\ PinnedNoLonger
  OBVIOUS
<1>1. AbsentMeansAbsent
  BY DEF AbsentMeansAbsent, IInv, LookupInv
<1>2. CallsCarryCredentials
  BY DEF CallsCarryCredentials, IInv, LookupInv
<1>3. ServedIsRecent
  BY ModuleAssumption DEF ServedIsRecent, IInv, TypeOK, ModulesTypeOK, ModulesInv, Fresh
<1>4. BuiltAloneIsWhole
  BY DEF BuiltAloneIsWhole, IInv, DocumentInv
<1>5. CachedTokenIsValid
  BY TokenAssumption DEF CachedTokenIsValid, Usable, IInv, TypeOK, TokenTypeOK, TokenInv
<1>6. BudgetCoversPlan
  <2> SUFFICES ASSUME NEW w \in Workers, Polls(w), poll[w].derived
               PROVE  \/ RequestEnds(w) <= poll[w].total
                      \/ poll[w].total = MaxTotal /\ Longest(poll[w]) > MaxTotal
    BY DEF BudgetCoversPlan
  <2>1. /\ poll[w].interval \in Nat \ {0} /\ poll[w].attempts \in Nat
        /\ poll[w].attempt \in 1..poll[w].attempts
        /\ poll[w].since \in Nat /\ poll[w].total = Capped(Budget(poll[w].attempts, poll[w].interval))
        /\ elapsed[w] \in Nat
    BY DEF IInv, TypeOK, PollTypeOK, PollInv, Runs, Polls
  <2>2. RequestTimeout \in Nat /\ MaxTotal \in Nat
    BY PollAssumption
  <2>3. RequestEnds(w) \in Int /\ RequestEnds(w) <= Longest(poll[w])
    <3>1. CASE At(w, "polling")
      <4>1. RequestEnds(w) = RequestTimeout + (poll[w].since - elapsed[w])
        BY <3>1 DEF RequestEnds
      <4>2. poll[w].since <= (poll[w].attempt - 1) * (poll[w].interval + RequestTimeout) + elapsed[w]
        BY <3>1 DEF IInv, PollInv, Runs, Polls
      <4>3. poll[w].since + (RequestTimeout - elapsed[w]) <= Longest(poll[w])
        BY <2>1, <2>2, <4>2, RoundsLeft DEF Longest
      <4> QED BY <2>1, <2>2, <4>1, <4>3
    <3>2. CASE At(w, "waiting")
      <4> DEFINE next == poll[w].attempt + 1
      <4>1. RequestEnds(w) = RequestTimeout + (poll[w].since - elapsed[w] + poll[w].interval)
        BY <3>2 DEF RequestEnds, At
      <4>2. /\ poll[w].attempt < poll[w].attempts
            /\ poll[w].since <= (poll[w].attempt - 1) * (poll[w].interval + RequestTimeout)
                                  + RequestTimeout + elapsed[w]
        BY <3>2 DEF IInv, PollInv, Runs, Polls
      <4>3. next \in 1..poll[w].attempts
        BY <2>1, <4>2
      <4>4. poll[w].since + poll[w].interval
              <= (next - 1) * (poll[w].interval + RequestTimeout) + elapsed[w]
        <5>1. (next - 1) * (poll[w].interval + RequestTimeout)
                = (poll[w].attempt - 1) * (poll[w].interval + RequestTimeout)
                    + poll[w].interval + RequestTimeout
          BY <2>1, <2>2
        <5>2. (poll[w].attempt - 1) * (poll[w].interval + RequestTimeout) \in Nat
          BY <2>1, <2>2
        <5> QED BY <2>1, <2>2, <4>2, <5>1, <5>2
      <4>5. (poll[w].since + poll[w].interval) + (RequestTimeout - elapsed[w]) <= Longest(poll[w])
        <5>1. poll[w].since + poll[w].interval \in Nat
          BY <2>1
        <5> HIDE DEF next
        <5> QED BY <2>1, <2>2, <4>3, <4>4, <5>1, RoundsLeft DEF Longest
      <4> QED BY <2>1, <2>2, <4>1, <4>5
    <3> QED BY <3>1, <3>2 DEF Polls, At
  <2>4. Longest(poll[w]) \in Nat /\ Longest(poll[w]) <= Budget(poll[w].attempts, poll[w].interval)
    BY <2>1, <2>2, LongestWithinBudget DEF Longest, Budget
  <2>5. Budget(poll[w].attempts, poll[w].interval) \in Nat
    BY <2>1, <2>2 DEF Budget
  <2>6. CASE Budget(poll[w].attempts, poll[w].interval) <= MaxTotal
    <3>1. poll[w].total = Budget(poll[w].attempts, poll[w].interval)
      BY <2>1, <2>2, <2>5, <2>6 DEF Capped
    <3> QED BY <2>1, <2>2, <2>3, <2>4, <2>5, <3>1
  <2>7. CASE Budget(poll[w].attempts, poll[w].interval) > MaxTotal
    <3>1. poll[w].total = MaxTotal
      BY <2>1, <2>7 DEF Capped
    <3> QED BY <2>1, <2>2, <2>3, <2>4, <3>1
  <2> QED BY <2>2, <2>5, <2>6, <2>7
<1>7. PinnedNoLonger
  BY DEF PinnedNoLonger, IInv, PollInv, Runs, Polls
<1> QED BY <1>1, <1>2, <1>3, <1>4, <1>5, <1>6, <1>7

LEMMA InitIInv == Init => IInv
<1> SUFFICES ASSUME Init PROVE IInv
  OBVIOUS
<1> USE DEF Init, WorkersInit, LookupInit, ModulesInit, DocumentInit, TokenInit, PollInit, At
<1>1. TypeOK
  <2>1. stage \in [Workers -> Stages] /\ elapsed \in [Workers -> Nat]
    BY DEF Stages
  <2>2. LookupTypeOK /\ ModulesTypeOK
    BY DEF LookupTypeOK, ModulesTypeOK, NothingHandled, NoEntry, Nothing
  <2>3. DocumentTypeOK
    <3>1. directory \in BOOLEAN /\ link \in Inodes \cup {NoFile} /\ content \in [Inodes -> SUBSET Halves]
      OBVIOUS
    <3>2. open \in [Workers -> Inodes \cup {NoFile}] /\ written \in [Workers -> 0..2]
      OBVIOUS
    <3>3. client \in [Workers -> Parts] /\ disturbed \in [Workers -> BOOLEAN]
      BY DEF Parts
    <3> QED BY <3>1, <3>2, <3>3 DEF DocumentTypeOK
  <2>4. TokenTypeOK
    BY DEF TokenTypeOK, NoToken, NotIssued
  <2>5. PollTypeOK
    BY DEF PollTypeOK, NoPoll
  <2> QED BY <2>1, <2>2, <2>3, <2>4, <2>5 DEF TypeOK
<1>2. LookupInv
  BY DEF LookupInv, BeforeClient
<1>3. ModulesInv
  BY DEF ModulesInv, NoEntry, Nothing
<1>4. DocumentInv
  BY DEF DocumentInv, DocumentStages
<1>5. TokenInv
  BY NoWorkerAssumption DEF TokenInv, NoToken, NotIssued
<1>6. PollInv
  BY DEF PollInv, Polls
<1> QED BY <1>1, <1>2, <1>3, <1>4, <1>5, <1>6 DEF IInv

(* How the stages of a worker follow one another, by component.            *)
LEMMA LookupMoves ==
  ASSUME NEW w \in Workers, Lookup(w)
  PROVE  /\ stage[w] = "idle"
         /\ \E s \in {"failed", "unlisted", "modules", "directory"} : Goto(w, s)
<1>1. CASE ListFails(w)
  BY <1>1 DEF ListFails, At
<1>2. CASE Get(w)
  <2>1. PICK answer \in LookupAnswers(w) :
          CASE answer.found = "notFound" ->
                 Goto(w, "unlisted") /\ UNCHANGED auth
            [] answer.found = "error" \/ (answer.found = "found" /\ answer.has = "error") ->
                 Goto(w, "failed") /\ UNCHANGED auth
            [] answer.found = "found" /\ answer.has # "error" ->
                 /\ auth' = [auth EXCEPT ![w] = answer.has]
                 /\ Goto(w, "modules") \/ Goto(w, "directory")
    BY <1>2 DEF Get
  <2>2. answer.found \in {"notFound", "error", "found"}
    BY DEF LookupAnswers, Definition
  <2>3. CASE answer.found = "notFound"
    <3>1. Goto(w, "unlisted")
      BY <2>1, <2>3
    <3> QED BY <3>1, <1>2 DEF Get, At
  <2>4. CASE answer.found = "error" \/ (answer.found = "found" /\ answer.has = "error")
    <3>1. Goto(w, "failed")
      BY <2>1, <2>4
    <3> QED BY <3>1, <1>2 DEF Get, At
  <2>5. CASE answer.found = "found" /\ answer.has # "error"
    <3>1. Goto(w, "modules") \/ Goto(w, "directory")
      BY <2>1, <2>5
    <3> QED BY <3>1, <1>2 DEF Get, At
  <2> QED BY <2>2, <2>3, <2>4, <2>5
<1> QED BY <1>1, <1>2 DEF Lookup

LEMMA ModulesMoves ==
  ASSUME NEW w \in Workers, Modules(w)
  PROVE  /\ stage[w] \in {"modules", "fetching"}
         /\ \/ UNCHANGED <<stage, elapsed>>
            \/ \E s \in {"fetching", "directory", "failed"} : Goto(w, s)
  BY DEF Modules, FetchCached, FetchBegin, SourceRead, FetchEnd, After, At

LEMMA DocumentMoves ==
  ASSUME NEW w \in Workers, Document(w)
  PROVE  /\ stage[w] \in DocumentStages \cup {"directory"}
         /\ \/ UNCHANGED <<stage, elapsed>>
            \/ \E s \in DocumentStages \cup {"calling", "failed"} : Goto(w, s)
<1> USE DEF At, DocumentStages
<1>1. CASE BuildClient(w)
  BY <1>1 DEF BuildClient
<1>2. CASE Download(w)
  BY <1>2 DEF Download
<1>3. CASE Create(w)
  BY <1>3 DEF Create
<1>4. CASE Copy(w) \/ CopyFails(w)
  BY <1>4 DEF Copy, CopyFails
<1>5. CASE ReadFile(w)
  BY <1>5 DEF ReadFile
<1>6. CASE RemoveAll(w)
  <2>1. Goto(w, "failed") \/ Goto(w, "calling")
    BY <1>6 DEF RemoveAll
  <2> QED BY <2>1, <1>6 DEF RemoveAll
<1> QED BY <1>1, <1>2, <1>3, <1>4, <1>5, <1>6 DEF Document

LEMMA AuthnMoves ==
  ASSUME NEW w \in Workers, Authn(w)
  PROVE  /\ stage[w] \in {"token", "exchanging"}
         /\ \E s \in {"requesting", "exchanging", "failed"} : Goto(w, s)
  BY DEF Authn, Token, Exchanged, ExchangeFails, ExchangeEnds, At

LEMMA PollMoves ==
  ASSUME NEW w \in Workers, Poll(w)
  PROVE  /\ stage[w] \in {"polling", "waiting"}
         /\ \E s \in {"polling", "waiting", "idle"} : Goto(w, s)
  BY DEF Poll, PollPending, PollAgain, PollEnds, PollCancelled, WaitDue, Finish, Return, At

LEMMA OtherMoves ==
  ASSUME NEW w \in Workers, GiveUp(w) \/ Call(w) \/ Request(w) \/ Verify(w) \/ Delegate(w) \/ Accepted(w)
  PROVE  /\ stage[w] \in {"unlisted", "failed", "directory", "calling", "requesting", "verifying"}
         /\ \E s \in {"idle", "token", "verifying", "polling"} : Goto(w, s)
  BY DEF GiveUp, Call, Request, Verify, Delegate, Accepted, PollBegin, Finish, Return, At
-----------------------------------------------------------------------------
(* One lemma for each component: its part of the invariant is preserved.   *)
LEMMA ModulesStep == IInv /\ [Next]_vars => ModulesInv'
<1> SUFFICES ASSUME IInv, [Next]_vars PROVE ModulesInv'
  OBVIOUS
<1> USE ModuleAssumption DEF At, Goto, ModulesInv
<1>0. stage \in [Workers -> Stages] /\ elapsed \in [Workers -> Nat] /\ ModulesTypeOK /\ ModulesInv
  BY DEF IInv, TypeOK
<1>1. ASSUME NEW w \in Workers, UNCHANGED moduleVars, stage[w] # "fetching",
             UNCHANGED <<stage, elapsed>> \/ \E s \in Stages \ {"fetching"} : Goto(w, s)
      PROVE  ModulesInv'
  BY <1>0, <1>1 DEF moduleVars, ModulesTypeOK
<1>2. ASSUME NEW w \in Workers, Step(w), ~Modules(w) PROVE ModulesInv'
  <2>1. UNCHANGED moduleVars
    BY <1>2 DEF Step, Lookup, GiveUp, Document, Call, Delegate, Authn, Request, Verify, Accepted, Poll, Finish
  <2>2. /\ stage[w] # "fetching"
        /\ UNCHANGED <<stage, elapsed>> \/ \E s \in Stages \ {"fetching"} : Goto(w, s)
    <3> USE DEF Stages, DocumentStages
    <3>1. CASE Lookup(w)
      BY <3>1, LookupMoves
    <3>2. CASE Document(w)
      BY <3>2, DocumentMoves
    <3>3. CASE Authn(w)
      BY <3>3, AuthnMoves
    <3>4. CASE Poll(w)
      BY <3>4, PollMoves
    <3>5. CASE GiveUp(w) \/ Call(w) \/ Request(w) \/ Verify(w) \/ Delegate(w) \/ Accepted(w)
      BY <3>5, OtherMoves
    <3> QED BY <1>2, <3>1, <3>2, <3>3, <3>4, <3>5 DEF Step
  <2> QED BY <2>1, <2>2, <1>1
<1>6. ASSUME NEW w \in Workers, Modules(w) PROVE ModulesInv'
  <2>1. CASE FetchCached(w) \/ FetchBegin(w)
    BY <1>0, <2>1 DEF FetchCached, FetchBegin, After, moduleVars, ModulesTypeOK
  <2>2. CASE SourceRead(w)
    BY <1>0, <2>2 DEF SourceRead, ModulesTypeOK
  <2>3. CASE FetchEnd(w)
    BY <1>0, <2>3 DEF FetchEnd, After, Nothing, ModulesTypeOK
  <2> QED BY <1>6, <2>1, <2>2, <2>3 DEF Modules
<1>7. CASE Issue
  BY <1>0, <1>7 DEF Issue, TokenIssued, moduleVars
<1>8. CASE Tick
  BY <1>0, <1>8 DEF Tick, ModulesAge, Due, FetchDue, Timed, NoEntry, ModulesTypeOK
<1>9. CASE UNCHANGED vars
  BY <1>0, <1>9 DEF vars, moduleVars
<1> QED BY <1>2, <1>6, <1>7, <1>8, <1>9 DEF Next

LEMMA TokenStep == IInv /\ [Next]_vars => TokenInv'
<1> SUFFICES ASSUME IInv, [Next]_vars PROVE TokenInv'
  OBVIOUS
<1> USE TokenAssumption, NoWorkerAssumption DEF At, Goto, TokenInv
<1>0. stage \in [Workers -> Stages] /\ elapsed \in [Workers -> Nat] /\ TokenTypeOK /\ TokenInv
  BY DEF IInv, TypeOK
<1>1. ASSUME NEW w \in Workers, UNCHANGED tokenVars, stage[w] # "exchanging",
             UNCHANGED <<stage, elapsed>> \/ \E s \in Stages \ {"exchanging"} : Goto(w, s)
      PROVE  TokenInv'
  BY <1>0, <1>1 DEF tokenVars, TokenTypeOK
<1>2. ASSUME NEW w \in Workers, Step(w), ~Authn(w) PROVE TokenInv'
  <2>1. UNCHANGED tokenVars
    BY <1>2 DEF Step, Lookup, GiveUp, Modules, Document, Call, Delegate, Request, Verify, Accepted, Poll
  <2>2. /\ stage[w] # "exchanging"
        /\ UNCHANGED <<stage, elapsed>> \/ \E s \in Stages \ {"exchanging"} : Goto(w, s)
    <3> USE DEF Stages, DocumentStages
    <3>1. CASE Lookup(w)
      BY <3>1, LookupMoves
    <3>2. CASE Document(w)
      BY <3>2, DocumentMoves
    <3>3. CASE Modules(w)
      BY <3>3, ModulesMoves
    <3>4. CASE Poll(w)
      BY <3>4, PollMoves
    <3>5. CASE GiveUp(w) \/ Call(w) \/ Request(w) \/ Verify(w) \/ Delegate(w) \/ Accepted(w)
      BY <3>5, OtherMoves
    <3> QED BY <1>2, <3>1, <3>2, <3>3, <3>4, <3>5 DEF Step
  <2> QED BY <2>1, <2>2, <1>1
<1>3. ASSUME NEW w \in Workers, Authn(w) PROVE TokenInv'
  <2>1. CASE Token(w)
    <3>1. CASE Usable(token)
      BY <1>0, <2>1, <3>1 DEF Token, tokenVars, TokenTypeOK
    <3>2. CASE ~Usable(token)
      <4>1. /\ stage' = [stage EXCEPT ![w] = "exchanging"] /\ elapsed' = [elapsed EXCEPT ![w] = 0]
            /\ holder = NoWorker /\ holder' = w /\ UNCHANGED <<token, issued>>
        BY <2>1, <3>2 DEF Token
      <4> QED BY <1>0, <4>1 DEF TokenTypeOK
    <3> QED BY <3>1, <3>2
  <2>2. CASE Exchanged(w)
    <3>1. holder = w /\ issued.done /\ elapsed[w] <= ExchangeTimeout
      BY <1>0, <2>2 DEF Exchanged, ExchangeEnds
    <3>2. token'.believed <= token'.left + ExchangeTimeout
      BY <1>0, <2>2, <3>1 DEF Exchanged, TokenTypeOK
    <3>3. /\ stage' = [stage EXCEPT ![w] = "requesting"] /\ elapsed' = [elapsed EXCEPT ![w] = 0]
          /\ holder' = NoWorker /\ ~issued'.done
      BY <2>2 DEF Exchanged, ExchangeEnds, NotIssued
    <3> QED BY <1>0, <3>1, <3>2, <3>3
  <2>3. CASE ExchangeFails(w)
    BY <1>0, <2>3 DEF ExchangeFails, ExchangeEnds, NotIssued, TokenTypeOK
  <2> QED BY <1>3, <2>1, <2>2, <2>3 DEF Authn
<1>4. CASE Issue
  <2>1. holder \in Workers /\ UNCHANGED <<stage, elapsed, token, holder>>
    BY <1>0, <1>4 DEF Issue, TokenIssued, TokenTypeOK
  <2>2. ~issued'.readable => DefaultLifetime <= issued'.left + elapsed[holder]
    BY <1>0, <1>4, <2>1 DEF Issue, TokenIssued
  <2> QED BY <1>0, <2>1, <2>2
<1>5. CASE Tick
  <2>1. \A w \in Workers : At(w, "exchanging") => elapsed[w] < ExchangeTimeout /\ elapsed'[w] = elapsed[w] + 1
    BY <1>0, <1>5 DEF Tick, Due, ExchangeDue, Timed
  <2>2. UNCHANGED <<stage, holder>>
    BY <1>5 DEF Tick, TokenAge
  <2>3. token'.cached => token'.believed <= token'.left + ExchangeTimeout
    BY <1>0, <1>5 DEF Tick, TokenAge, Usable, Less, NoToken, TokenTypeOK
  <2>4. (issued'.done /\ ~issued'.readable) =>
          holder \in Workers /\ DefaultLifetime <= issued'.left + elapsed'[holder]
    BY <1>0, <1>5, <2>1 DEF Tick, TokenAge, Less, TokenTypeOK
  <2> QED BY <1>0, <2>1, <2>2, <2>3, <2>4
<1>6. CASE UNCHANGED vars
  BY <1>0, <1>6 DEF vars, tokenVars
<1> QED BY <1>2, <1>3, <1>4, <1>5, <1>6 DEF Next

LEMMA DocumentStep == IInv /\ [Next]_vars => DocumentInv'
<1> SUFFICES ASSUME IInv, [Next]_vars PROVE DocumentInv'
  OBVIOUS
<1> USE DEF At, Goto, DocumentInv, DocumentStages
<1>0. /\ stage \in [Workers -> Stages] /\ DocumentTypeOK /\ DocumentInv
      /\ \A w \in Workers : stage[w] \in BeforeClient => client[w] = "none"
  BY DEF IInv, TypeOK, LookupInv
<1>1. ASSUME NEW w \in Workers, UNCHANGED documentVars, stage[w] \notin DocumentStages,
             UNCHANGED <<stage, elapsed>> \/ \E s \in Stages \ DocumentStages : Goto(w, s)
      PROVE  DocumentInv'
  BY <1>0, <1>1 DEF documentVars, DocumentTypeOK
<1>2. ASSUME NEW w \in Workers, ForgetClient(w), Goto(w, "idle"), stage[w] \notin DocumentStages
      PROVE  DocumentInv'
  BY <1>0, <1>2 DEF ForgetClient, DocumentTypeOK
<1>3. ASSUME NEW w \in Workers, Step(w), ~Document(w) PROVE DocumentInv'
  <2>1. /\ stage[w] \notin DocumentStages
        /\ UNCHANGED <<stage, elapsed>> \/ \E s \in Stages \ DocumentStages : Goto(w, s)
    <3> USE DEF Stages
    <3>1. CASE Lookup(w)
      BY <3>1, LookupMoves
    <3>2. CASE Modules(w)
      BY <3>2, ModulesMoves
    <3>3. CASE Authn(w)
      BY <3>3, AuthnMoves
    <3>4. CASE Poll(w)
      BY <3>4, PollMoves
    <3>5. CASE GiveUp(w) \/ Call(w) \/ Request(w) \/ Verify(w) \/ Delegate(w) \/ Accepted(w)
      BY <3>5, OtherMoves
    <3> QED BY <1>3, <3>1, <3>2, <3>3, <3>4, <3>5 DEF Step
  <2>2. UNCHANGED documentVars \/ (ForgetClient(w) /\ Goto(w, "idle"))
    BY <1>3 DEF Step, Lookup, GiveUp, Modules, Call, Delegate, Authn, Request, Verify, Accepted, Poll, Finish, Return
  <2> QED BY <2>1, <2>2, <1>1, <1>2
<1>4. ASSUME NEW w \in Workers, BuildClient(w) PROVE DocumentInv'
  BY <1>0, <1>4 DEF BuildClient, DocumentTypeOK, BeforeClient
<1>5. ASSUME NEW w \in Workers, Download(w) PROVE DocumentInv'
  BY <1>0, <1>5 DEF Download, DocumentTypeOK, documentVars
<1>6. ASSUME NEW w \in Workers, Create(w) PROVE DocumentInv'
  <2>1. CASE directory
    <3>1. PICK i \in Inodes : /\ link' = i /\ content' = [content EXCEPT ![i] = {}]
                               /\ open' = [open EXCEPT ![w] = i]
                               /\ Goto(w, "copy")
      BY <1>0, <1>6, <2>1, InodesAssumption DEF Create, DocumentTypeOK
    <3> QED BY <1>0, <1>6, <3>1 DEF Create, DocumentTypeOK
  <2>2. CASE ~directory
    BY <1>0, <1>6, <2>2 DEF Create, DocumentTypeOK
  <2> QED BY <2>1, <2>2
<1>7. ASSUME NEW w \in Workers, Copy(w) PROVE DocumentInv'
  <2>1. open[w] \in Inodes /\ written[w] \in 0..1 /\ w \in Workers /\ stage[w] = "copy"
    BY <1>0, <1>7 DEF Copy
  <2>2. \A v \in Workers \ {w} : (~disturbed[v] /\ stage[v] \in DocumentStages) => FALSE
    BY <1>0, <2>1
  <2>3. /\ written' = [written EXCEPT ![w] = @ + 1]
        /\ content' = [content EXCEPT ![open[w]] = @ \cup {written[w] + 1}]
        /\ UNCHANGED <<directory, link, open, client, disturbed>>
    BY <1>7 DEF Copy
  <2>4. ~disturbed[w] => link = open[w] /\ content'[link] = 1..written'[w]
    <3>1. (1..written[w]) \cup {written[w] + 1} = 1..(written[w] + 1)
      BY <2>1
    <3>2. written'[w] = written[w] + 1 /\ content'[open[w]] = content[open[w]] \cup {written[w] + 1}
      BY <1>0, <2>1, <2>3 DEF DocumentTypeOK
    <3> QED BY <1>0, <2>1, <3>1, <3>2
  <2>5. CASE written[w] = 1
    <3>1. stage' = [stage EXCEPT ![w] = "read"]
      BY <1>7, <2>5 DEF Copy
    <3>2. ~disturbed[w] => content'[link] = Halves
      BY <1>0, <2>1, <2>3, <2>4, <2>5 DEF Halves, DocumentTypeOK
    <3> QED BY <1>0, <2>1, <2>2, <2>3, <2>4, <3>1, <3>2 DEF DocumentTypeOK
  <2>6. CASE written[w] = 0
    <3>1. UNCHANGED stage
      BY <1>7, <2>6 DEF Copy
    <3>2. written'[w] \in 0..1 /\ open'[w] \in Inodes
      BY <1>0, <2>1, <2>3, <2>6 DEF DocumentTypeOK
    <3>3. \A v \in Workers \ {w} : written'[v] = written[v]
      BY <1>0, <2>3 DEF DocumentTypeOK
    <3> QED BY <1>0, <2>1, <2>2, <2>3, <2>4, <3>1, <3>2, <3>3
  <2> QED BY <2>1, <2>5, <2>6
<1>8. ASSUME NEW w \in Workers, CopyFails(w) PROVE DocumentInv'
  BY <1>0, <1>8 DEF CopyFails, DocumentTypeOK, documentVars
<1>9. ASSUME NEW w \in Workers, ReadFile(w) PROVE DocumentInv'
  <2>1. PICK part \in Parts : /\ part = "part" => (IF link = NoFile THEN {} ELSE content[link]) = {1}
                              /\ client' = [client EXCEPT ![w] = part]
    BY <1>9 DEF ReadFile
  <2>2. /\ stage[w] = "read" /\ stage' = [stage EXCEPT ![w] = "cleanup"]
        /\ UNCHANGED <<directory, link, content, open, written, disturbed>>
    BY <1>9 DEF ReadFile
  <2>3. ~disturbed[w] => link # NoFile /\ content[link] = Halves
    BY <1>0, <2>2, InodesAssumption
  <2>4. Halves # {1}
    BY DEF Halves
  <2>5. ~disturbed[w] => part \in {"none", "whole"}
    BY <2>1, <2>3, <2>4 DEF Parts
  <2> HIDE DEF DocumentInv
  <2>6. \A v \in Workers \ {w} : client'[v] = client[v] /\ stage'[v] = stage[v]
    BY <1>0, <2>1, <2>2 DEF DocumentTypeOK
  <2>7. client'[w] = part /\ stage'[w] = "cleanup"
    BY <1>0, <2>1, <2>2 DEF DocumentTypeOK
  <2> QED BY <1>0, <2>2, <2>5, <2>6, <2>7 DEF DocumentInv
<1>10. ASSUME NEW w \in Workers, RemoveAll(w) PROVE DocumentInv'
  BY <1>0, <1>10 DEF RemoveAll, DocumentTypeOK
<1>11. CASE Issue \/ Tick \/ UNCHANGED vars
  BY <1>0, <1>11 DEF Issue, TokenIssued, Tick, vars, documentVars
<1> QED BY <1>3, <1>4, <1>5, <1>6, <1>7, <1>8, <1>9, <1>10, <1>11 DEF Next, Step, Document

(* What a lookup that succeeds, and one that finds nothing, has found.     *)
LEMMA LookupFinds ==
  ASSUME NEW w \in Workers, NEW answer \in LookupAnswers(w)
  PROVE  /\ answer.found \in {"notFound", "error", "found"}
         /\ answer.exists \in BOOLEAN /\ answer.credentials \in BOOLEAN
         /\ answer.found = "notFound" => ~answer.exists
         /\ answer.has # "error" => answer.has \in {"none", "credentials"}
         /\ answer.has # "error" /\ answer.credentials => answer.has = "credentials"
<1>1. PICK catalog \in Catalogs, config \in Configurations[w] :
        answer \in {[found       |-> Definition(catalog),
                     exists      |-> MayExist(catalog),
                     has         |-> has,
                     credentials |-> config.named /\ config.readable /\ config.authentication]
                    : has \in Credentials(config)}
  BY DEF LookupAnswers
<1>2. PICK has \in Credentials(config) :
        answer = [found       |-> Definition(catalog),
                  exists      |-> MayExist(catalog),
                  has         |-> has,
                  credentials |-> config.named /\ config.readable /\ config.authentication]
  BY <1>1
<1>3. /\ answer.found = Definition(catalog) /\ answer.has = has
      /\ answer.exists = MayExist(catalog)
      /\ answer.credentials = (config.named /\ config.readable /\ config.authentication)
  BY <1>2
<1>4. Definition(catalog) \in {"notFound", "error", "found"}
  BY DEF Definition
<1>5. Definition(catalog) = "notFound" => ~MayExist(catalog)
  <2>1. Definition(catalog) = "notFound" => {i \in DOMAIN catalog : Decides(catalog[i])} = {}
    BY DEF Definition
  <2>2. MayExist(catalog) => \E i \in DOMAIN catalog : Decides(catalog[i])
    BY DEF MayExist, Decides
  <2> QED BY <2>1, <2>2
<1>6. /\ has # "error" => has \in {"none", "credentials"}
      /\ (has # "error" /\ config.named /\ config.readable /\ config.authentication) => has = "credentials"
  <2>1. CASE config.named /\ config.readable /\ config.authentication
    <3>1. has \in ParseAuthentication(config)
      BY <2>1 DEF Credentials
    <3> QED BY <3>1 DEF ParseAuthentication
  <2>2. CASE ~(config.named /\ config.readable /\ config.authentication)
    <3>1. has \in {"none", "error"}
      BY <2>2 DEF Credentials
    <3> QED BY <3>1, <2>2
  <2> QED BY <2>1, <2>2
<1>7. answer.exists \in BOOLEAN /\ answer.credentials \in BOOLEAN
  BY <1>3 DEF MayExist
<1> QED BY <1>3, <1>4, <1>5, <1>6, <1>7

LEMMA LookupStep == IInv /\ [Next]_vars => LookupInv' /\ LookupTypeOK'
<1> SUFFICES ASSUME IInv, [Next]_vars PROVE LookupInv' /\ LookupTypeOK'
  OBVIOUS
<1> USE DEF At, Goto, LookupInv, LookupTypeOK
<1>0. /\ stage \in [Workers -> Stages] /\ client \in [Workers -> Parts]
      /\ LookupTypeOK /\ LookupInv
  BY DEF IInv, TypeOK, DocumentTypeOK
<1>1. ASSUME NEW w \in Workers, UNCHANGED <<lookupVars, client>>, stage[w] \notin {"idle", "unlisted", "failed"},
             \/ UNCHANGED stage
             \/ \E s \in Stages \ {"idle", "unlisted"} :
                  Goto(w, s) /\ (s \in BeforeClient => stage[w] \in BeforeClient)
      PROVE  LookupInv' /\ LookupTypeOK'
  BY <1>0, <1>1 DEF lookupVars
<1>2. ASSUME NEW w \in Workers, ForgetDefinition(w), client' = [client EXCEPT ![w] = "none"], Goto(w, "idle")
      PROVE  LookupInv' /\ LookupTypeOK'
  BY <1>0, <1>2 DEF ForgetDefinition, NothingHandled
<1>3. ASSUME NEW w \in Workers, Lookup(w) PROVE LookupInv' /\ LookupTypeOK'
  <2>0. client' = client /\ stage[w] = "idle" /\ client[w] = "none"
    BY <1>0, <1>3, LookupMoves DEF Lookup, documentVars, BeforeClient
  <2>1. CASE ListFails(w)
    BY <1>0, <2>0, <2>1 DEF ListFails, lookupVars, BeforeClient
  <2>2. CASE Get(w)
    <3>1. PICK answer \in LookupAnswers(w) :
            /\ handled' = [handled EXCEPT ![w] = [exists |-> answer.exists, credentials |-> answer.credentials]]
            /\ CASE answer.found = "notFound" ->
                      Goto(w, "unlisted") /\ UNCHANGED auth
                 [] answer.found = "error" \/ (answer.found = "found" /\ answer.has = "error") ->
                      Goto(w, "failed") /\ UNCHANGED auth
                 [] answer.found = "found" /\ answer.has # "error" ->
                      /\ auth' = [auth EXCEPT ![w] = answer.has]
                      /\ Goto(w, "modules") \/ Goto(w, "directory")
      BY <2>2 DEF Get
    <3> HIDE DEF Goto
    <3>2. \/ answer.found = "notFound" /\ Goto(w, "unlisted") /\ UNCHANGED auth
          \/ Goto(w, "failed") /\ UNCHANGED auth
          \/ /\ answer.has # "error" /\ auth' = [auth EXCEPT ![w] = answer.has]
             /\ Goto(w, "modules") \/ Goto(w, "directory")
      BY <3>1, LookupFinds
    <3> USE DEF Goto
    <3> QED BY <1>0, <2>0, <3>1, <3>2, LookupFinds DEF BeforeClient
  <2> QED BY <1>3, <2>1, <2>2 DEF Lookup
<1>4. ASSUME NEW w \in Workers, GiveUp(w) \/ Call(w) \/ Request(w) PROVE LookupInv' /\ LookupTypeOK'
  BY <1>2, <1>4 DEF GiveUp, Call, Request, Finish, Return, ForgetClient
<1>5. ASSUME NEW w \in Workers, Modules(w) PROVE LookupInv' /\ LookupTypeOK'
  <2>1. UNCHANGED <<lookupVars, client>>
    BY <1>5 DEF Modules, documentVars
  <2> QED BY <1>1, <1>5, <2>1, ModulesMoves DEF Stages, BeforeClient
<1>6. ASSUME NEW w \in Workers, Verify(w) \/ Delegate(w) \/ Authn(w) \/ Accepted(w) PROVE LookupInv' /\ LookupTypeOK'
  <2>1. UNCHANGED <<lookupVars, client>>
    BY <1>6 DEF Verify, Delegate, Authn, Accepted, documentVars
  <2>2. stage[w] \in {"requesting", "directory", "calling", "token", "exchanging"}
    BY <1>6, AuthnMoves DEF Verify, Delegate, Accepted, PollBegin
  <2>3. \E s \in {"verifying", "token", "polling", "requesting", "exchanging", "failed"} : Goto(w, s)
    BY <1>6, AuthnMoves DEF Verify, Delegate, Accepted, PollBegin
  <2> QED BY <1>1, <2>1, <2>2, <2>3 DEF Stages, BeforeClient
<1>7. ASSUME NEW w \in Workers, Poll(w) PROVE LookupInv' /\ LookupTypeOK'
  <2>1. CASE (PollPending(w) \/ PollAgain(w)) /\ UNCHANGED <<lookupVars, moduleVars, documentVars, tokenVars>>
    BY <1>1, <2>1 DEF PollPending, PollAgain, WaitDue, documentVars, Stages, BeforeClient
  <2>2. CASE Finish(w)
    BY <1>2, <2>2 DEF Finish, Return, ForgetClient
  <2> QED BY <1>7, <2>1, <2>2 DEF Poll
<1>8. ASSUME NEW w \in Workers, Document(w) PROVE LookupInv' /\ LookupTypeOK'
  <2>0. UNCHANGED lookupVars
    BY <1>8 DEF Document
  <2>1. CASE ReadFile(w)
    <3>1. PICK part \in Parts : client' = [client EXCEPT ![w] = part]
      BY <2>1 DEF ReadFile
    <3> QED BY <1>0, <2>0, <2>1, <3>1 DEF ReadFile, lookupVars, BeforeClient
  <2>2. CASE RemoveAll(w)
    <3>1. stage[w] = "cleanup" /\ UNCHANGED client /\ (Goto(w, "failed") \/ Goto(w, "calling"))
      BY <2>2 DEF RemoveAll
    <3> QED BY <1>1, <2>0, <3>1 DEF Stages, BeforeClient
  <2>3. CASE ~ReadFile(w) /\ ~RemoveAll(w)
    <3>1. UNCHANGED client
      BY <1>8, <2>3 DEF Document, BuildClient, Download, Create, Copy, CopyFails, documentVars
    <3>2. /\ stage[w] \in {"directory", "download", "create", "copy"}
          /\ UNCHANGED stage \/ \E s \in {"download", "create", "copy", "read", "cleanup"} : Goto(w, s)
      <4> HIDE DEF Goto
      <4> QED BY <1>8, <2>3 DEF Document, BuildClient, Download, Create, Copy, CopyFails
    <3> QED BY <1>1, <2>0, <3>1, <3>2 DEF Stages, DocumentStages, BeforeClient
  <2> QED BY <2>1, <2>2, <2>3
<1>9. CASE Issue \/ Tick \/ UNCHANGED vars
  BY <1>0, <1>9 DEF Issue, TokenIssued, Tick, vars, lookupVars, documentVars
<1> QED BY <1>3, <1>4, <1>5, <1>6, <1>7, <1>8, <1>9 DEF Next, Step

(* The plan of a poll is within its bounds, whatever is declared.          *)
LEMMA PlanIsOrderly ==
  ASSUME NEW cfg \in PollConfigs
  PROVE  LET plan == Plan(cfg)
         IN  /\ plan.interval \in Nat \ {0} /\ plan.attempts \in Nat \ {0}
             /\ plan.total \in Nat /\ plan.total <= MaxTotal /\ plan.derived \in BOOLEAN
             /\ plan.derived => plan.total = Capped(Budget(plan.attempts, plan.interval))
<1> DEFINE interval == Orderly(cfg.interval, DefaultInterval, MaxInterval)
           attempts == Orderly(cfg.attempts, DefaultAttempts, AttemptsCap)
           derived  == Budget(attempts, interval)
           total    == IF cfg.timeout = 0 THEN derived ELSE cfg.timeout
<1>1. /\ cfg.interval \in Nat /\ cfg.attempts \in Nat /\ cfg.timeout \in Nat
      /\ DefaultInterval \in Nat \ {0} /\ MaxInterval \in Nat \ {0}
      /\ DefaultAttempts \in Nat \ {0} /\ AttemptsCap \in Nat \ {0}
      /\ MaxTotal \in Nat /\ RequestTimeout \in Nat
  BY PollAssumption
<1>2. interval \in Nat \ {0} /\ attempts \in Nat \ {0}
  BY <1>1 DEF Orderly
<1>3. derived \in Nat
  BY <1>1, <1>2 DEF Budget
<1>4. Plan(cfg) = [interval |-> interval, attempts |-> attempts,
                   total    |-> IF total > MaxTotal THEN MaxTotal ELSE total,
                   derived  |-> cfg.timeout = 0]
  BY DEF Plan
<1> HIDE DEF interval, attempts, derived
<1>5. /\ Plan(cfg).interval = interval /\ Plan(cfg).attempts = attempts
      /\ Plan(cfg).total = (IF total > MaxTotal THEN MaxTotal ELSE total)
      /\ Plan(cfg).derived = (cfg.timeout = 0)
  BY <1>4
<1>6. Plan(cfg).derived \in BOOLEAN
  BY <1>5
<1>7. total \in Nat
  BY <1>1, <1>3
<1>8. Plan(cfg).derived => Plan(cfg).total = Capped(derived)
  <2>1. Plan(cfg).derived => total = derived
    BY <1>5
  <2> QED BY <1>5, <2>1 DEF Capped
<1> QED BY <1>1, <1>2, <1>3, <1>5, <1>6, <1>7, <1>8 DEF derived

LEMMA PollStep == IInv /\ [Next]_vars => PollInv' /\ PollTypeOK'
<1> SUFFICES ASSUME IInv, [Next]_vars PROVE PollInv' /\ PollTypeOK'
  OBVIOUS
<1> USE PollAssumption DEF At, Goto, PollTypeOK, Polls
<1>0. /\ stage \in [Workers -> Stages] /\ elapsed \in [Workers -> Nat]
      /\ PollTypeOK /\ PollInv
  BY DEF IInv, TypeOK
<1>1. ASSUME NEW w \in Workers, UNCHANGED poll, stage[w] \notin {"polling", "waiting"},
             UNCHANGED <<stage, elapsed>> \/ \E s \in Stages \ {"polling", "waiting"} : Goto(w, s)
      PROVE  PollInv' /\ PollTypeOK'
  BY <1>0, <1>1 DEF PollInv, Runs
<1>2. ASSUME NEW w \in Workers, Step(w), ~Accepted(w), ~Poll(w) PROVE PollInv' /\ PollTypeOK'
  <2>1. UNCHANGED poll
    BY <1>2 DEF Step, Lookup, GiveUp, Modules, Document, Call, Delegate, Authn, Request, Verify, pollVars
  <2>2. /\ stage[w] \notin {"polling", "waiting"}
        /\ UNCHANGED <<stage, elapsed>> \/ \E s \in Stages \ {"polling", "waiting"} : Goto(w, s)
    <3> HIDE DEF Goto
    <3> USE DEF Stages, DocumentStages
    <3>1. CASE Lookup(w)
      BY <3>1, LookupMoves
    <3>2. CASE Document(w)
      BY <3>2, DocumentMoves
    <3>3. CASE Modules(w)
      BY <3>3, ModulesMoves
    <3>4. CASE Authn(w)
      BY <3>4, AuthnMoves
    <3>5. CASE GiveUp(w) \/ Call(w) \/ Request(w) \/ Verify(w) \/ Delegate(w)
      BY <3>5 DEF GiveUp, Call, Request, Verify, Delegate, Finish, Return
    <3> QED BY <1>2, <3>1, <3>2, <3>3, <3>4, <3>5 DEF Step
  <2> QED BY <2>1, <2>2, <1>1
<1>3. ASSUME NEW w \in Workers, Accepted(w) PROVE PollInv' /\ PollTypeOK'
  <2>1. PICK cfg \in PollConfigs :
          poll' = [poll EXCEPT ![w] =
                    [interval |-> Plan(cfg).interval, attempts |-> Plan(cfg).attempts,
                     total |-> Plan(cfg).total, derived |-> Plan(cfg).derived, attempt |-> 1, since |-> 0]]
    BY <1>3 DEF Accepted, PollBegin
  <2>2. stage' = [stage EXCEPT ![w] = "polling"] /\ elapsed' = [elapsed EXCEPT ![w] = 0]
    BY <1>3 DEF Accepted, PollBegin
  <2>3. PollTypeOK'
    BY <1>0, <2>1, PlanIsOrderly
  <2>4. /\ poll'[w].interval = Plan(cfg).interval /\ poll'[w].attempts = Plan(cfg).attempts
        /\ poll'[w].total = Plan(cfg).total /\ poll'[w].derived = Plan(cfg).derived
        /\ poll'[w].attempt = 1 /\ poll'[w].since = 0
        /\ stage'[w] = "polling" /\ elapsed'[w] = 0
    BY <1>0, <2>1, <2>2
  <2>5. \A v \in Workers \ {w} : poll'[v] = poll[v] /\ stage'[v] = stage[v] /\ elapsed'[v] = elapsed[v]
    BY <1>0, <2>1, <2>2
  <2>6. (poll'[w].attempt - 1) * (poll'[w].interval + RequestTimeout) = 0
    BY <2>4, PlanIsOrderly
  <2>7. \A v \in Workers \ {w} : Polls(v)' => Runs(v)'
    <3> SUFFICES ASSUME NEW v \in Workers \ {w}, Polls(v)' PROVE Runs(v)'
      OBVIOUS
    <3>1. Runs(v)
      BY <1>0, <2>5 DEF PollInv, Runs
    <3> QED BY <3>1, <2>5 DEF Runs
  <2>8. Runs(w)'
    BY <1>0, <2>4, <2>6, PlanIsOrderly DEF Runs
  <2> QED BY <2>3, <2>7, <2>8 DEF PollInv, Runs
<1>4. ASSUME NEW w \in Workers, Poll(w) PROVE PollInv' /\ PollTypeOK'
  <2>1. CASE PollPending(w)
    BY <1>0, <2>1 DEF PollPending, PollInv, Runs
  <2>2. CASE PollAgain(w)
    <3> DEFINE p == poll[w]
               round == p.interval + RequestTimeout
    <3>1. /\ stage' = [stage EXCEPT ![w] = "polling"] /\ elapsed' = [elapsed EXCEPT ![w] = 0]
          /\ poll' = [poll EXCEPT ![w].attempt = @ + 1] /\ stage[w] = "waiting"
      BY <2>2 DEF PollAgain, WaitDue
    <3>2. /\ p.interval \in Nat \ {0} /\ p.attempt \in Nat \ {0} /\ p.attempts \in Nat
          /\ p.attempt < p.attempts /\ p.since <= p.total /\ p.total <= MaxTotal
          /\ p.derived => p.total = Capped(Budget(p.attempts, p.interval))
          /\ p.since \in Nat /\ elapsed[w] <= p.interval /\ elapsed[w] \in Nat
          /\ p.since <= (p.attempt - 1) * round + RequestTimeout + elapsed[w]
      BY <1>0, <3>1 DEF PollInv, Runs
    <3>3. p.since <= p.attempt * round
      <4>1. p.attempt * round = (p.attempt - 1) * round + round
        BY <3>2
      <4>2. (p.attempt - 1) * round \in Nat
        BY <3>2
      <4> QED BY <3>2, <4>1, <4>2
    <3>4. poll'[w] = [p EXCEPT !.attempt = @ + 1]
      BY <1>0, <3>1
    <3>5. /\ poll'[w].interval = p.interval /\ poll'[w].attempts = p.attempts /\ poll'[w].total = p.total
          /\ poll'[w].derived = p.derived /\ poll'[w].since = p.since /\ poll'[w].attempt = p.attempt + 1
      BY <1>0, <3>4
    <3>6. stage'[w] = "polling" /\ elapsed'[w] = 0
      BY <1>0, <3>1
    <3>7. \A v \in Workers \ {w} : poll'[v] = poll[v] /\ stage'[v] = stage[v] /\ elapsed'[v] = elapsed[v]
      BY <1>0, <3>1
    <3>8. PollTypeOK'
      BY <1>0, <3>1
    <3>9. poll'[w].since <= (poll'[w].attempt - 1) * (poll'[w].interval + RequestTimeout) + elapsed'[w]
      BY <3>2, <3>3, <3>5, <3>6
    <3>10. PollInv'
      BY <1>0, <3>2, <3>5, <3>6, <3>7, <3>9 DEF PollInv, Runs
    <3> QED BY <3>8, <3>10
  <2>3. CASE (PollEnds(w) \/ PollCancelled(w)) /\ Finish(w)
    <3>1. poll' = [poll EXCEPT ![w] = NoPoll]
      BY <2>3 DEF PollEnds, PollCancelled
    <3>2. stage' = [stage EXCEPT ![w] = "idle"] /\ elapsed' = [elapsed EXCEPT ![w] = 0]
      BY <2>3 DEF Finish, Return
    <3> QED BY <1>0, <3>1, <3>2 DEF PollInv, Runs, NoPoll
  <2> QED BY <1>4, <2>1, <2>2, <2>3 DEF Poll
<1>5. CASE Tick
  <2>1. ASSUME NEW w \in Workers, Polls(w)
        PROVE  /\ elapsed'[w] = elapsed[w] + 1 /\ poll'[w] = [poll[w] EXCEPT !.since = @ + 1]
               /\ poll[w].since < poll[w].total
               /\ At(w, "polling") => elapsed[w] < RequestTimeout
               /\ At(w, "waiting") => elapsed[w] < poll[w].interval
    BY <1>0, <1>5, <2>1 DEF Tick, PollAge, Due, RequestDue, WaitDue, Cancelled, Timed, PollInv, Runs
  <2>2. UNCHANGED stage /\ PollTypeOK'
    BY <1>0, <1>5 DEF Tick, PollAge
  <2>3. ASSUME NEW w \in Workers, Polls(w)
        PROVE  /\ poll'[w].interval = poll[w].interval /\ poll'[w].attempts = poll[w].attempts
               /\ poll'[w].total = poll[w].total /\ poll'[w].derived = poll[w].derived
               /\ poll'[w].attempt = poll[w].attempt /\ poll'[w].since = poll[w].since + 1
    <3>1. poll[w] \in [interval : Nat, attempts : Nat, total : Nat, derived : BOOLEAN,
                        attempt : Nat, since : Nat]
      BY <1>0
    <3>2. poll'[w] = [poll[w] EXCEPT !.since = @ + 1]
      BY <2>1, <2>3
    <3> QED BY <3>1, <3>2
  <2>4. ASSUME NEW w \in Workers, Polls(w)
        PROVE  (poll[w].attempt - 1) * (poll[w].interval + RequestTimeout) \in Nat
    <3>1. poll[w].interval \in Nat /\ poll[w].attempt \in Nat \ {0}
      BY <1>0, <2>4 DEF PollInv, Runs
    <3> QED BY <3>1
  <2>5. PollInv'
    BY <1>0, <2>1, <2>2, <2>3, <2>4 DEF PollInv, Runs
  <2> QED BY <2>2, <2>5
<1>6. CASE Issue \/ UNCHANGED vars
  BY <1>0, <1>6 DEF Issue, TokenIssued, vars, pollVars, PollInv, Runs
<1> QED BY <1>2, <1>3, <1>4, <1>5, <1>6 DEF Next

LEMMA StageStep ==
  IInv /\ [Next]_vars => (stage \in [Workers -> Stages])' /\ (elapsed \in [Workers -> Nat])'
<1> SUFFICES ASSUME IInv, [Next]_vars PROVE stage' \in [Workers -> Stages] /\ elapsed' \in [Workers -> Nat]
  OBVIOUS
<1>0. stage \in [Workers -> Stages] /\ elapsed \in [Workers -> Nat]
  BY DEF IInv, TypeOK
<1>1. ASSUME NEW w \in Workers, Step(w) PROVE UNCHANGED <<stage, elapsed>> \/ \E s \in Stages : Goto(w, s)
  BY <1>1, LookupMoves, ModulesMoves, DocumentMoves, AuthnMoves, PollMoves, OtherMoves
     DEF Step, Stages, DocumentStages
<1>2. ASSUME NEW w \in Workers, Step(w) PROVE stage' \in [Workers -> Stages] /\ elapsed' \in [Workers -> Nat]
  BY <1>0, <1>1, <1>2 DEF Goto
<1>3. CASE Tick
  BY <1>0, <1>3 DEF Tick
<1>4. CASE Issue \/ UNCHANGED vars
  BY <1>0, <1>4 DEF Issue, TokenIssued, vars
<1> QED BY <1>2, <1>3, <1>4 DEF Next

LEMMA ModulesTypeStep == IInv /\ [Next]_vars => ModulesTypeOK'
<1> SUFFICES ASSUME IInv, [Next]_vars PROVE ModulesTypeOK'
  OBVIOUS
<1> USE DEF ModulesTypeOK
<1>0. ModulesTypeOK
  BY DEF IInv, TypeOK
<1>1. ASSUME NEW w \in Workers, Modules(w) PROVE ModulesTypeOK'
  <2>1. CASE FetchCached(w) \/ FetchBegin(w)
    BY <1>0, <2>1 DEF FetchCached, FetchBegin, moduleVars
  <2>2. CASE SourceRead(w)
    BY <1>0, <2>2 DEF SourceRead
  <2>3. CASE FetchEnd(w)
    BY <1>0, <2>3 DEF FetchEnd, Nothing
  <2> QED BY <1>1, <2>1, <2>2, <2>3 DEF Modules
<1>2. ASSUME NEW w \in Workers, Step(w), ~Modules(w) PROVE ModulesTypeOK'
  <2>1. UNCHANGED moduleVars
    BY <1>2 DEF Step, Lookup, GiveUp, Document, Call, Delegate, Authn, Request, Verify, Accepted, Poll, Finish
  <2> QED BY <1>0, <2>1 DEF moduleVars
<1>3. CASE Tick
  <2>1. entry' = (IF Fresh(entry) THEN [is |-> entry.is, age |-> entry.age + 1, read |-> entry.read + 1] ELSE NoEntry)
    BY <1>3 DEF Tick, ModulesAge
  <2>2. entry' \in [is : {"none", "data", "error"}, age : Nat, read : Nat]
    <3>1. NoEntry \in [is : {"none", "data", "error"}, age : Nat, read : Nat]
      BY DEF NoEntry
    <3>2. entry.is \in {"none", "data", "error"} /\ entry.age + 1 \in Nat /\ entry.read + 1 \in Nat
      BY <1>0
    <3> QED BY <2>1, <3>1, <3>2
  <2>3. \A w \in Workers :
          (IF fetched[w].is = "none" THEN fetched[w] ELSE [fetched[w] EXCEPT !.read = @ + 1])
            \in [is : {"none", "data", "error"}, read : Nat]
    BY <1>0
  <2>4. fetched' \in [Workers -> [is : {"none", "data", "error"}, read : Nat]]
    BY <1>3, <2>3 DEF Tick, ModulesAge
  <2> QED BY <2>2, <2>4
<1>4. CASE Issue \/ UNCHANGED vars
  BY <1>0, <1>4 DEF Issue, TokenIssued, vars, moduleVars
<1> QED BY <1>1, <1>2, <1>3, <1>4 DEF Next

LEMMA DocumentTypeStep == IInv /\ [Next]_vars => DocumentTypeOK'
<1> SUFFICES ASSUME IInv, [Next]_vars PROVE DocumentTypeOK'
  OBVIOUS
<1> USE DEF DocumentTypeOK
<1>0. DocumentTypeOK /\ DocumentInv
  BY DEF IInv, TypeOK
<1>1. ASSUME NEW w \in Workers, BuildClient(w) PROVE DocumentTypeOK'
  BY <1>0, <1>1 DEF BuildClient
<1>2. ASSUME NEW w \in Workers, Create(w) PROVE DocumentTypeOK'
  <2>1. CASE directory
    <3>1. PICK i \in Inodes : /\ link' = i /\ content' = [content EXCEPT ![i] = {}]
                               /\ open' = [open EXCEPT ![w] = i]
      BY <1>0, <1>2, <2>1, InodesAssumption DEF Create
    <3> QED BY <1>0, <1>2, <3>1 DEF Create
  <2>2. CASE ~directory
    BY <1>0, <1>2, <2>2 DEF Create
  <2> QED BY <2>1, <2>2
<1>3. ASSUME NEW w \in Workers, Copy(w) PROVE DocumentTypeOK'
  <2>1. open[w] \in Inodes /\ written[w] \in 0..1
    BY <1>0, <1>3 DEF Copy, DocumentInv, At
  <2>2. /\ written' = [written EXCEPT ![w] = @ + 1]
        /\ content' = [content EXCEPT ![open[w]] = @ \cup {written[w] + 1}]
        /\ UNCHANGED <<directory, link, open, client, disturbed>>
    BY <1>3 DEF Copy
  <2>3. content' \in [Inodes -> SUBSET Halves]
    <3>1. written[w] + 1 \in Halves
      BY <2>1 DEF Halves
    <3> QED BY <1>0, <2>1, <2>2, <3>1
  <2>4. written' \in [Workers -> 0..2]
    BY <1>0, <2>1, <2>2
  <2> QED BY <1>0, <2>2, <2>3, <2>4
<1>4. ASSUME NEW w \in Workers, ReadFile(w) PROVE DocumentTypeOK'
  <2>1. PICK part \in Parts : client' = [client EXCEPT ![w] = part]
    BY <1>4 DEF ReadFile
  <2> QED BY <1>0, <1>4, <2>1 DEF ReadFile
<1>5. ASSUME NEW w \in Workers, RemoveAll(w) PROVE DocumentTypeOK'
  <2>1. /\ directory' = FALSE /\ link' = NoFile
        /\ open' = [open EXCEPT ![w] = NoFile] /\ written' = [written EXCEPT ![w] = 0]
        /\ content' = [i \in Inodes |-> IF i \in {open'[v] : v \in Workers} THEN content[i] ELSE {}]
        /\ UNCHANGED <<client, disturbed>>
    BY <1>5 DEF RemoveAll
  <2>2. content' \in [Inodes -> SUBSET Halves]
    <3> DEFINE kept == {open'[v] : v \in Workers}
    <3>1. content' = [i \in Inodes |-> IF i \in kept THEN content[i] ELSE {}]
      BY <2>1
    <3> HIDE DEF kept
    <3> QED BY <1>0, <3>1
  <2>3. open' \in [Workers -> Inodes \cup {NoFile}] /\ written' \in [Workers -> 0..2]
    BY <1>0, <2>1
  <2> QED BY <1>0, <2>1, <2>2, <2>3
<1>6. ASSUME NEW w \in Workers, Step(w), ~BuildClient(w), ~Create(w), ~Copy(w), ~ReadFile(w), ~RemoveAll(w)
      PROVE  DocumentTypeOK'
  <2>1. UNCHANGED documentVars \/ ForgetClient(w)
    BY <1>6 DEF Step, Lookup, GiveUp, Modules, Document, Download, CopyFails, Call, Delegate, Authn,
                Request, Verify, Accepted, Poll, Finish
  <2> QED BY <1>0, <2>1 DEF documentVars, ForgetClient, Parts
<1>7. CASE Issue \/ Tick \/ UNCHANGED vars
  BY <1>0, <1>7 DEF Issue, TokenIssued, Tick, vars, documentVars
<1> QED BY <1>1, <1>2, <1>3, <1>4, <1>5, <1>6, <1>7 DEF Next

LEMMA TokenTypeStep == IInv /\ [Next]_vars => TokenTypeOK'
<1> SUFFICES ASSUME IInv, [Next]_vars PROVE TokenTypeOK'
  OBVIOUS
<1> USE TokenAssumption DEF TokenTypeOK
<1>0. TokenTypeOK
  BY DEF IInv, TypeOK
<1>1. ASSUME NEW w \in Workers, Authn(w) PROVE TokenTypeOK'
  <2>1. CASE Token(w)
    BY <1>0, <2>1 DEF Token, tokenVars
  <2>2. CASE Exchanged(w) \/ ExchangeFails(w)
    <3>1. holder' = NoWorker /\ issued' = NotIssued
      BY <2>2 DEF Exchanged, ExchangeFails, ExchangeEnds
    <3>2. NotIssued \in [done : BOOLEAN, left : Nat, readable : BOOLEAN]
      BY DEF NotIssued
    <3>3. issued.left \in Nat /\ (IF issued.readable THEN issued.left ELSE DefaultLifetime) \in Nat
      BY <1>0
    <3>4. token' \in [cached : BOOLEAN, left : Nat, believed : Nat]
      <4>1. CASE ExchangeFails(w)
        BY <1>0, <4>1 DEF ExchangeFails
      <4>2. CASE Exchanged(w)
        <5> DEFINE seen == IF issued.readable THEN issued.left ELSE DefaultLifetime
        <5>1. token' = [cached |-> TRUE, left |-> issued.left, believed |-> seen]
          BY <4>2 DEF Exchanged
        <5> HIDE DEF seen
        <5>2. seen \in Nat
          BY <3>3 DEF seen
        <5> QED BY <3>3, <5>1, <5>2
      <4> QED BY <2>2, <4>1, <4>2
    <3> QED BY <3>1, <3>2, <3>4
  <2> QED BY <1>1, <2>1, <2>2 DEF Authn
<1>2. ASSUME NEW w \in Workers, Step(w), ~Authn(w) PROVE TokenTypeOK'
  <2>1. UNCHANGED tokenVars
    BY <1>2 DEF Step, Lookup, GiveUp, Modules, Document, Call, Delegate, Request, Verify, Accepted, Poll
  <2> QED BY <1>0, <2>1 DEF tokenVars
<1>3. CASE Issue
  BY <1>0, <1>3 DEF Issue, TokenIssued
<1>4. CASE Tick
  <2>1. /\ token' = (IF Usable(token) THEN [token EXCEPT !.left = Less(@), !.believed = @ - 1] ELSE NoToken)
        /\ issued' = [issued EXCEPT !.left = Less(@)] /\ UNCHANGED holder
    BY <1>4 DEF Tick, TokenAge
  <2>2. Less(token.left) \in Nat /\ Less(issued.left) \in Nat /\ (Usable(token) => token.believed - 1 \in Nat)
    BY <1>0 DEF Less, Usable
  <2>3. token' \in [cached : BOOLEAN, left : Nat, believed : Nat]
    BY <1>0, <2>1, <2>2 DEF NoToken
  <2>4. issued' \in [done : BOOLEAN, left : Nat, readable : BOOLEAN]
    BY <1>0, <2>1, <2>2
  <2> QED BY <1>0, <2>1, <2>3, <2>4
<1>5. CASE UNCHANGED vars
  BY <1>0, <1>5 DEF vars, tokenVars
<1> QED BY <1>1, <1>2, <1>3, <1>4, <1>5 DEF Next
-----------------------------------------------------------------------------
(* The invariant is inductive, and holds in every state that is reached.   *)
THEOREM Invariance == Spec => []IInv
<1>1. IInv /\ [Next]_vars => IInv'
  BY LookupStep, ModulesStep, DocumentStep, TokenStep, PollStep, StageStep, ModulesTypeStep,
     DocumentTypeStep, TokenTypeStep
     DEF IInv, TypeOK
<1> QED BY <1>1, InitIInv, PTL DEF Spec

(* Each variable keeps its type: no clock runs below zero, no copy beyond  *)
(* the document.                                                           *)
THEOREM TypeCorrect == Spec => []TypeOK
<1>1. IInv => TypeOK
  BY DEF IInv
<1> QED BY <1>1, Invariance, PTL

(* A CR that is reported to have no definition has none.                   *)
THEOREM Absence == Spec => []AbsentMeansAbsent
  BY Invariance, InvariantsHold, PTL

(* No call is made without the credentials that the configuration asks for. *)
THEOREM Credentialed == Spec => []CallsCarryCredentials
  BY Invariance, InvariantsHold, PTL

(* What the cache of modules serves is not older than it may be.           *)
THEOREM Recency == Spec => []ServedIsRecent
  BY Invariance, InvariantsHold, PTL

(* A client that was built alone is built of the whole document.           *)
THEOREM Wholeness == Spec => []BuiltAloneIsWhole
  BY Invariance, InvariantsHold, PTL

(* The token that is served from the cache has not expired.                *)
THEOREM TokenValidity == Spec => []CachedTokenIsValid
  BY Invariance, InvariantsHold, PTL

(* A derived total lets every attempt be made and have the whole of its    *)
(* request, unless the plan takes longer than any poll may.                *)
THEOREM BudgetSuffices == Spec => []BudgetCoversPlan
  BY Invariance, InvariantsHold, PTL

(* No poll lasts beyond its total, nor beyond the greatest one.            *)
THEOREM PollBounded == Spec => []PinnedNoLonger
  BY Invariance, InvariantsHold, PTL

(* One worker at a time exchanges a token, and the lock is that worker's.  *)
THEOREM OneExchange ==
  Spec => [](\A v, w \in Workers : At(v, "exchanging") /\ At(w, "exchanging") => v = w)
<1>1. IInv => \A v, w \in Workers : At(v, "exchanging") /\ At(w, "exchanging") => v = w
  BY DEF IInv, TokenInv
<1> QED BY <1>1, Invariance, PTL
=============================================================================
