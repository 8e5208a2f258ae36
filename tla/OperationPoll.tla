------------------------------ MODULE OperationPoll -----------------------------
(***************************************************************************)
(* The blocking poll of an asynchronous operation (async.go), within the   *)
(* handler that started it.                                                *)
(***************************************************************************)
EXTENDS AuthnToken

CONSTANTS
  PollConfigs,       \* records interval, attempts, timeout; 0 where not set
  DefaultInterval, MaxInterval, DefaultAttempts, AttemptsCap, MaxTotal, RequestTimeout

ASSUME PollAssumption ==
  /\ PollConfigs \subseteq [interval : Nat, attempts : Nat, timeout : Nat]
  /\ DefaultInterval \in 1..MaxInterval /\ DefaultAttempts \in 1..AttemptsCap
  /\ MaxInterval \in Nat /\ AttemptsCap \in Nat
  /\ MaxTotal \in Nat \ {0} /\ RequestTimeout \in Nat \ {0}

VARIABLE poll   \* of each worker: the plan it follows, the attempt, and the time since it began

pollVars == <<poll>>

Orderly(n, default, cap) == IF n = 0 THEN default ELSE IF n > cap THEN cap ELSE n

(* Mutant of Budget: only the waiting counts.                              *)
BudgetOfWaits(attempts, interval) == attempts * interval

(* The time the attempts of a plan may take.                               *)
Budget(attempts, interval) == attempts * (interval + RequestTimeout) + interval

(* The plan of a poll: what is declared within its bounds, and a total     *)
(* that is derived where none is declared.  No total, declared or derived, *)
(* is greater than MaxTotal.                                               *)
Plan(cfg) ==
  LET interval == Orderly(cfg.interval, DefaultInterval, MaxInterval)
      attempts == Orderly(cfg.attempts, DefaultAttempts, AttemptsCap)
      derived  == Budget(attempts, interval)
      total    == IF cfg.timeout = 0 THEN derived ELSE cfg.timeout
  IN  [interval |-> interval, attempts |-> attempts,
       total    |-> IF total > MaxTotal THEN MaxTotal ELSE total,
       derived  |-> cfg.timeout = 0]

NoPoll == [interval |-> 0, attempts |-> 0, total |-> 0, derived |-> FALSE, attempt |-> 0, since |-> 0]

PollTypeOK ==
  poll \in [Workers -> [interval : Nat, attempts : Nat, total : Nat, derived : BOOLEAN,
                        attempt : Nat, since : Nat]]

PollInit == poll = [w \in Workers |-> NoPoll]

Polls(w) == stage[w] \in {"polling", "waiting"}
Cancelled(w) == poll[w].since >= poll[w].total

(* PollUntilTerminal, with the first request.                              *)
PollBegin(w) ==
  /\ At(w, "calling")
  /\ \E cfg \in PollConfigs :
       LET plan == Plan(cfg)
       IN  poll' = [poll EXCEPT ![w] =
                     [interval |-> plan.interval, attempts |-> plan.attempts, total |-> plan.total,
                      derived |-> plan.derived, attempt |-> 1, since |-> 0]]
  /\ Goto(w, "polling")

(* The operation goes on: wait, unless this was the last attempt.          *)
PollPending(w) ==
  /\ At(w, "polling")
  /\ poll[w].attempt < poll[w].attempts
  /\ Goto(w, "waiting")
  /\ UNCHANGED poll

(* The end of a poll: a terminal status, an error, no attempt left.        *)
PollEnds(w) == At(w, "polling") /\ poll' = [poll EXCEPT ![w] = NoPoll]

(* A request is given up after its own timeout, and with the whole poll.   *)
RequestDue(w) == At(w, "polling") /\ (elapsed[w] >= RequestTimeout \/ Cancelled(w))

(* Mutant of WaitDue: sleeps through the deadline.                         *)
WaitSleeps(w) == At(w, "waiting") /\ elapsed[w] >= poll[w].interval

(* The wait ends with the interval, and with the whole poll.               *)
WaitDue(w) == At(w, "waiting") /\ (elapsed[w] >= poll[w].interval \/ Cancelled(w))

(* The next attempt, unless the time is over; with the interval just over  *)
(* either may be seen first.                                               *)
PollAgain(w) ==
  /\ WaitDue(w)
  /\ ~Cancelled(w)
  /\ poll' = [poll EXCEPT ![w].attempt = @ + 1]
  /\ Goto(w, "polling")

PollCancelled(w) ==
  /\ WaitDue(w)
  /\ Cancelled(w)
  /\ poll' = [poll EXCEPT ![w] = NoPoll]

(* A unit of time.                                                         *)
PollAge ==
  poll' = [w \in Workers |-> IF Polls(w) THEN [poll[w] EXCEPT !.since = @ + 1] ELSE poll[w]]
=============================================================================
