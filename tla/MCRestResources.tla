---------------------------- MODULE MCRestResources ----------------------------
(***************************************************************************)
(* The definitions the runs of RestResources are configured with.          *)
(***************************************************************************)
EXTENDS RestResources, TLC

CONSTANTS r1, r2, r3, r4, r5, o1, o2

Symmetry == Permutations({r1, r2, r3, r4, r5}) \cup Permutations({o1, o2})

(* A conventional API: every verb completes before it answers.             *)
Plain ==
  [get |-> TRUE, findby |-> TRUE, observe |-> "verbs",
   create |-> "sync", update |-> "sync", delete |-> "sync",
   postGet |-> FALSE, created |-> "identified", updated |-> "identified",
   notFoundBody |-> FALSE, tolerate |-> {}]

(* Model B for create and update.                                          *)
Requeue == [Plain EXCEPT !.create = "requeue", !.update = "requeue"]

(* Model A for all three verbs.                                            *)
Blocking == [Plain EXCEPT !.create = "blocking", !.update = "blocking",
                          !.delete = "blocking"]

(* Requests are merely accepted, and nothing says when the work is done.   *)
Accepted == [Plain EXCEPT !.create = "accepted", !.update = "accepted"]

(* An API that signals absence in the body of its 200s.                    *)
BodySignalled == [Plain EXCEPT !.notFoundBody = TRUE]

(* Every verb is delegated, observe with both predicates or with none, or  *)
(* left to the get verb, with and without which a delete is verified.      *)
Delegated == [Plain EXCEPT !.observe = "predicates", !.create = "restaction",
                           !.update = "restaction", !.delete = "restaction"]
DelegatedDefinitions ==
  {Delegated,
   [Delegated EXCEPT !.observe = "restaction"],
   [Delegated EXCEPT !.observe = "verbs"],
   [Delegated EXCEPT !.get = FALSE],
   [Delegated EXCEPT !.tolerate = {"get"}]}

AllDefinitions ==
  {Plain, Requeue, Blocking, Accepted, BodySignalled} \cup DelegatedDefinitions

PlainDefinitions == {Plain}

(* The definition is edited while an operation is in flight: async blocks  *)
(* come and go, verbs disappear or are delegated, postGet is asked for     *)
(* without a get.                                                          *)
RedefinedDefinitions ==
  {Requeue,
   [Plain EXCEPT !.delete = "accepted"],
   [Requeue EXCEPT !.get = FALSE, !.findby = FALSE, !.update = "absent", !.postGet = TRUE],
   [Requeue EXCEPT !.create = "restaction", !.delete = "absent", !.postGet = TRUE,
                   !.tolerate = {"get"}]}

(* A delete that must be repeatable has to tolerate 404.                   *)
Repeatable == [Plain EXCEPT !.tolerate = {"delete"}]
RepeatableDefinitions ==
  {Repeatable, [Repeatable EXCEPT !.create = "requeue", !.update = "requeue"]}

(* The identifier is a name from the spec, operations are re-read.         *)
Named == [Plain EXCEPT !.findby = FALSE, !.postGet = TRUE]
NamedDefinitions ==
  {[Named EXCEPT !.create = "requeue", !.update = "blocking"],
   [Named EXCEPT !.create = "blocking", !.update = "requeue",
                 !.created = "empty", !.updated = "anonymous"]}
-----------------------------------------------------------------------------
(* Configurations the code's comments or docs promise more for than the    *)
(* code does.                                                              *)

(* Model A with postGet, for an API that assigns the identifiers.          *)
BlockingRereadDefinitions == {[Blocking EXCEPT !.postGet = TRUE]}

(* Model B; the identifier is found by findby once the create is over.     *)
RequeueAnonymousDefinitions == {[Requeue EXCEPT !.created = "anonymous"]}

(* Create is merely accepted, absence is signalled in the body.            *)
AcceptedBodySignalledDefinitions == {[BodySignalled EXCEPT !.create = "accepted"]}
-----------------------------------------------------------------------------
(* Which of these the theorems about the resource of a CR cover: all that  *)
(* the passing runs check for duplicates and leftovers, and none of those  *)
(* that show them.                                                         *)
ASSUME CoveredByTheorems ==
  /\ Adoptable = {} =>
       \A d \in AllDefinitions : CreatesOnce({d}) /\ LeavesNothing({d})
  /\ FindsAgain(RepeatableDefinitions)
  /\ ServerAssignsIds =>
       /\ \A d \in BlockingRereadDefinitions \cup AcceptedBodySignalledDefinitions :
             ~CreatesOnce({d})
       /\ \A d \in RequeueAnonymousDefinitions : ~LeavesNothing({d})
=============================================================================
