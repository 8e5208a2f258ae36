------------------------------- MODULE AuthnToken -------------------------------
(***************************************************************************)
(* The token that calls of RESTActions carry: exchanged at authn, cached   *)
(* for all workers, under a lock that is held during the exchange (authn). *)
(***************************************************************************)
EXTENDS OasDocument

CONSTANTS
  Lifetimes,         \* what tokens authn may issue live for
  DefaultLifetime,   \* what is assumed of one whose expiry cannot be read
  RefreshSkew,
  ExchangeTimeout

ASSUME TokenAssumption ==
  /\ Lifetimes \subseteq Nat \ {0}
  /\ DefaultLifetime \in Nat /\ ExchangeTimeout \in Nat \ {0}
  /\ RefreshSkew \in Nat /\ RefreshSkew >= ExchangeTimeout

NoWorker == "no worker"
ASSUME NoWorkerAssumption == NoWorker \notin Workers

VARIABLES
  token,    \* the cached one: cached, the time it has left, and the time it seems to have
  issued,   \* what authn has issued and the exchange under way has not returned
  holder    \* who has the lock

tokenVars == <<token, issued, holder>>

NoToken == [cached |-> FALSE, left |-> 0, believed |-> 0]
NotIssued == [done |-> FALSE, left |-> 0, readable |-> FALSE]

TokenTypeOK ==
  /\ token \in [cached : BOOLEAN, left : Nat, believed : Nat]
  /\ issued \in [done : BOOLEAN, left : Nat, readable : BOOLEAN]
  /\ holder \in Workers \cup {NoWorker}

TokenInit == token = NoToken /\ issued = NotIssued /\ holder = NoWorker

(* Mutant of Usable: a token is used until it expires.                     *)
UsableToTheLast(t) == t.cached /\ t.believed > 0

Usable(t) == t.cached /\ t.believed > RefreshSkew

(* Token: with the lock, the cached token is returned where it has time    *)
(* enough, or an exchange begins.                                          *)
Token(w) ==
  /\ At(w, "token")
  /\ holder = NoWorker
  /\ IF Usable(token)
     THEN Goto(w, "requesting") /\ UNCHANGED tokenVars
     ELSE Goto(w, "exchanging") /\ holder' = w /\ UNCHANGED <<token, issued>>

(* authn issues a token; the answer may still be on its way.  A token whose *)
(* expiry cannot be read is one that lives as long as is assumed.          *)
TokenIssued ==
  /\ holder # NoWorker
  /\ ~issued.done
  /\ \E life \in Lifetimes, readable \in BOOLEAN :
       /\ readable \/ life >= DefaultLifetime
       /\ issued' = [done |-> TRUE, left |-> life, readable |-> readable]
  /\ UNCHANGED <<stage, elapsed, token, holder>>

ExchangeEnds(w) == At(w, "exchanging") /\ holder' = NoWorker /\ issued' = NotIssued

Exchanged(w) ==
  /\ ExchangeEnds(w)
  /\ issued.done
  /\ token' = [cached   |-> TRUE, left |-> issued.left,
               believed |-> IF issued.readable THEN issued.left ELSE DefaultLifetime]
  /\ Goto(w, "requesting")

ExchangeDue(w) == At(w, "exchanging") /\ elapsed[w] >= ExchangeTimeout

(* Mutant of ExchangeFails: returns with the lock.                         *)
ExchangeFailsLocked(w) ==
  /\ At(w, "exchanging")
  /\ Goto(w, "failed")
  /\ UNCHANGED tokenVars

(* Refused, unreadable or late.                                            *)
ExchangeFails(w) ==
  /\ ExchangeEnds(w)
  /\ Goto(w, "failed")
  /\ UNCHANGED token

Less(n) == IF n = 0 THEN 0 ELSE n - 1

(* A unit of time.                                                         *)
TokenAge ==
  /\ token' = IF Usable(token)
              THEN [token EXCEPT !.left = Less(@), !.believed = @ - 1]
              ELSE NoToken
  /\ issued' = [issued EXCEPT !.left = Less(@)]
  /\ UNCHANGED holder
=============================================================================
