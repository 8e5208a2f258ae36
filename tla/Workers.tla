--------------------------------- MODULE Workers --------------------------------
(***************************************************************************)
(* The workers of the process.  Each runs one handler at a time, for some  *)
(* CR, and a handler goes from one stage to the next: it looks up its      *)
(* definition, builds a client from the OpenAPI document, and calls.       *)
(***************************************************************************)
EXTENDS Naturals

CONSTANT Workers

VARIABLES
  stage,     \* what each worker is at
  elapsed    \* for how long, where a clock runs

At(w, s) == stage[w] = s

Goto(w, s) ==
  /\ stage' = [stage EXCEPT ![w] = s]
  /\ elapsed' = [elapsed EXCEPT ![w] = 0]

(* The handler ends, with an answer or with an error.                      *)
Return(w) == Goto(w, "idle")

WorkersInit ==
  /\ stage = [w \in Workers |-> "idle"]
  /\ elapsed = [w \in Workers |-> 0]
=============================================================================
