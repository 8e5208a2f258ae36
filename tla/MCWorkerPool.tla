------------------------------ MODULE MCWorkerPool -----------------------------
(* The definitions and configurations WorkerPool is checked with.          *)
EXTENDS WorkerPool, TLC

Own == [resource |-> TRUE, group |-> "own", kind |-> "own", oasPath |-> TRUE, decodes |-> TRUE]
Others == [Own EXCEPT !.kind = "other"]
Namesakes == [Own EXCEPT !.group = "other"]
Broken == {[Own EXCEPT !.resource = FALSE], [Own EXCEPT !.group = "missing"], [Own EXCEPT !.kind = "missing"],
           [Own EXCEPT !.oasPath = FALSE], [Own EXCEPT !.decodes = FALSE],
           [Namesakes EXCEPT !.oasPath = FALSE]}
Items == {Own, Others, Namesakes} \cup Broken
SomeCatalogs == {<<>>} \cup {<<i>> : i \in Items} \cup {<<i, j>> : i, j \in Items}

Anonymous == [named |-> FALSE, readable |-> TRUE, authentication |-> FALSE, methods |-> {}, usable |-> {}]
NoCredentials ==
  {Anonymous, [Anonymous EXCEPT !.named = TRUE], [Anonymous EXCEPT !.named = TRUE, !.readable = FALSE]}
WithCredentials ==
  {[named |-> TRUE, readable |-> TRUE, authentication |-> TRUE, methods |-> methods, usable |-> usable] :
     methods \in {{}, {"bearer"}, {"oauth"}, {"basic", "apiKey"}}, usable \in {{}, {"bearer", "basic"}}}
CONSTANTS w1, w2
SomeConfigurations == w1 :> NoCredentials @@ w2 :> WithCredentials

(* Interval, attempts and timeout unset, set, and beyond their caps.  Of   *)
(* the plans without a timeout MaxTotal leaves one alone, takes from one   *)
(* no more than what it has to spare, and is too short for the third.      *)
SomePolls ==
  [interval : {2}, attempts : {0, 1, 4}, timeout : {0}]
    \cup [interval : {0}, attempts : {1}, timeout : {9}]

Derived == {Plan(cfg) : cfg \in {c \in PollConfigs : c.timeout = 0}}

ASSUME CapsAreReached ==
  /\ \E p \in Derived : Longest(p) + 2 * p.interval <= MaxTotal
  /\ \E p \in Derived : Longest(p) <= MaxTotal /\ MaxTotal < Longest(p) + 2 * p.interval
  /\ \E p \in Derived : Longest(p) > MaxTotal
  /\ \E cfg \in PollConfigs : cfg.timeout > MaxTotal
=============================================================================
