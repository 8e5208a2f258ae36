# A TLA+ model of krateo-rest-dynamic-controller

The controller reconciles custom resources (CRs) of kinds that are described by
a `RestDefinition`: for every CR it keeps one resource of an external REST
service in step with the CR's spec. This directory models the part in which the
program's own logic lives, as four specifications:

- `RestResources`: the four handlers of `internal/controllers` for one CR, and the
  protocols they follow with the Kubernetes API and the external service;
- `FindBy`: the search by identifiers that `Observe` rests on;
- `DriftCycle`: what the handlers do with documents - reading answers, comparing
  them with the spec, and building the body of an update;
- `WorkerPool`: several handlers of one process, what they share, and time.

All are checked with TLC and proved about with TLAPS; section 4 says what is proved
and what is only checked.

## 1. Inventory

| Component | Source (`src/`) | State it keeps | Operations | Correct when |
|---|---|---|---|---|
| Handlers | `internal/controllers/restResources.go`, `existence.go`, `helpers.go` | none in memory; the CR's status, `Ready` condition | `Observe`, `Create`, `Update`, `Delete` | one external resource per CR, in the end equal to the spec; none left after the finalizer |
| Async, Model A | `async_handler.go`, `tools/async` | none (the worker blocks) | `driveAsync`, `PollUntilTerminal` | an operation is waited for, its result stored; giving up loses nothing |
| Async, Model B | `async_requeue.go` | annotations `async-operation-id`, `-action`, `-params` | `recordAsyncOperation`, `driveAsyncRequeue`, `clearAsyncOperation` | no request while an operation is recorded; the handle goes after the operation, Pending before the handle |
| RESTActions | `observe_restaction.go`, `mutate_restaction.go`, `tools/snowplow` | none | delegated observe, create, update, delete | a delete counts only when verified |
| Self-granted RBAC | `tools/secretrbac`, `secretrbac_integration.go` | a Role and a RoleBinding per CR | `EnsureSecretRole`, `DeleteSecretRole` | complete before a request that reads Secrets, gone with the CR |
| Definition lookup | `tools/definitiongetter` | none | `Get` | finds the CR's definition, tells "absent" from "unreadable", and no credentials from credentials that cannot be read |
| Request builder | `tools/client/builder` | none | `APICallBuilder`, `BuildCallConfig`, `UnresolvedPathParams`, `IsResourceKnown` | a request is sent only with all path parameters; its body says what the spec says |
| REST client | `tools/client` | a document file under `/tmp` while a client is built | `BuildClient`, `Call`, `FindBy`, `CallForPagination` | absence, error and success are told apart; the search ends; a client is built from a whole document |
| Pagination | `tools/pagination` | the continuation token | `ShouldContinue`, `UpdateRequest` | every page is visited once |
| Drift comparison | `tools/comparison` | none | `CompareExisting` | a difference in a field of the spec is found, a difference of form is none |
| Field mapping, paths | `tools/fieldmapping`, `tools/pathparsing` | none | `NormalizeResponseBody`, `SetNestedField`, `RemoveNestedField` | no value is lost or overwritten by order |
| Token client | `tools/authn` | the cached token and its expiry, under a lock | `Token` | no expired token is used; a failing exchange holds nobody up |
| jq modules | `tools/jqmodule` | a cache of sources with their age | `Fetch` | what is served is recent |
| File download | `tools/filegetter` | the file it writes | `GetFile` | all of the document or an error |
| jq, logging, text, mock server, `main.go` | | | | libraries, I/O, wiring |

How they interact: the runtime (`unstructured-runtime`, a library) calls
`Observe` for a live CR and, on its answer, `Create` or `Update`; for a CR with a
deletion timestamp it calls `Delete`, and releases the finalizer when that
returns nil. A handler keeps nothing between calls. Everything it has to remember
- the identifier the service assigned, that a request is pending, the handle of
a running operation - is in the CR's status, its `Ready` condition and three
annotations, each written by its own call. The service, the users of the CR, the
author of the RestDefinition and whoever else uses the service act between any
two of those calls.

What is hard: a request and the write that stores its answer are two steps;
status writes conflict with edits while annotation patches do not; absence is
inferred from a 404, from a list, from a predicate on a body, or not at all;
Pending turns a 404 into "fine"; the definition is read anew by every handler;
errors on some paths are warnings on others. Mappings are applied one after the
other to one body, so that their order matters. Workers of different CRs share a
cache, a token and a path in the file system, and some calls have no timeout. `PROJECT.json` lists each hazard at
its line.

## 2. The modules

| Module | Models | State |
|---|---|---|
| `ExternalAPI` | the REST service and its operations endpoint (external) | `live`, `issued`, `remote`, `ops` |
| `SecretRbac` | Role and RoleBinding of one CR | `rbac`, `rbacTouched` |
| `CustomResource` | the CR and its RestDefinition as stored | `crPhase`, `generation`, `secretRefs`, `statusId`, `ready`, `opId`, `opAction`, `def` |
| `Handler` | the worker of the CR and the writes the handlers share | `pc`, `verb`, `info`, `mg`, `reply`, `seen`, `faults` and three history variables |
| `ObserveHandler` | `Observe`, the Model B driver, the delegated observe | |
| `CreateUpdateHandler` | `Create` and `Update`, `driveAsync`, `recordAsyncOperation` | |
| `DeleteHandler` | `Delete` and the verification of a delegated one | |
| `RestResources` | the composition, its specification and properties | `disturbances` |
| `ResourceLife` | what a CR promises of its external resource: the abstract specification | `phase`, `owned`, `others`, `forgotten`, `shown` |
| `MCRestResources` | the definitions the runs are configured with | |
| `RestResources_proofs` | theorems about `RestResources` that hold whatever the definitions are | |
| `Ownership_proofs` | theorems about the resources a CR owns: no second one, none left behind | |
| `Undisturbed_proofs` | the theorem about creates that are cut short | |
| `ResourceLife_proofs` | the refinement of `ResourceLife` | |
| `Collection` | the list a findby verb returns, changed by others (external) | `collection`, histories `ever`, `always` |
| `Lookup` | what `Observe` relies on when it looks a resource up: the abstract specification | `may`, `must`, `verdict`, `hit` |
| `FindBy` | `FindBy`, `CallFindBySingle`, `CallForPagination`, the paginator, the matching of items | `search`, `content`, `pc`, `nextToken`, `isFirstCall`, `verdict`, `hit`, history `excused` |
| `MCFindBy` | the findby verbs and items its runs are configured with | |
| `FindBy_proofs` | theorems about `FindBy`, the refinement of `Lookup` among them | |
| `Documents` | JSON documents, and `GetNestedField`, `SetNestedField`, `RemoveNestedField` on them | |
| `FieldMapping` | the response side of a mapping: `NormalizeResponseBody` | |
| `RequestBuilder` | the body of `BuildCallConfig`, `stripResolverSources`, `ApplyRequestTransform` | |
| `Comparison` | `CompareExisting`, `isCRUpdated` and the projections by `compareScope` | |
| `DriftCycle` | `Observe` and `Update` as the cycle these functions form | `def`, `cr`, `remote`, `sent`, `verdict`, `changes` |
| `MCDriftCycle` | the definitions, specs and resources it is checked with | |
| `Documents_proofs` | theorems about reading, writing and removing nested fields: what stays a document, what changes and what does not | |
| `DriftCycle_proofs` | theorems about the bodies the cycle makes, its type invariant, and that Secrets are resolved | |
| `Workers` | the workers and their stages | `stage`, `elapsed` |
| `DefinitionLookup` | `Get` over all RestDefinitions, the CR's configuration, `parseAuthentication` | `handled`, `auth` |
| `JqModules` | `Fetch` and its cache | `entry`, `fetched` |
| `OasDocument` | `BuildClient` and `GetFile` over one temporary directory | `directory`, `link`, `content`, `open`, `written`, `client`, history `disturbed` |
| `AuthnToken` | `Token`, its cache and its lock | `token`, `issued`, `holder` |
| `OperationPoll` | `PollUntilTerminal` and its budget | `poll` |
| `WorkerPool` | the composition of these, time, and their properties | |
| `MCWorkerPool` | the definitions, configurations and polls it is checked with | |
| `WorkerPool_proofs` | theorems about `WorkerPool` | |

`ExternalAPI` to `RestResources` EXTEND one another, so that one state space holds
the worker and everybody who acts between its calls. One action is one call to the
Kubernetes API or to the service, together with everything the code does up to
the next call: evaluating the answer, returning early, changing the in-memory
object. `pc` names the call that comes next. So `Create` on a Model B definition
is `CreateBegin` (definition lookup) - `EnsureRole` - `EnsureBinding` -
`CreateRequest` - `Record` (annotation patch) - `Persist` (status update), and
an edit, a deletion, a crash or the end of an operation may fall between any two.

Correspondence of the data:

- A body is reduced to whether it carries the identifiers (`Replies`), whether it
  equals the spec (`remote[r] = generation`, `seen.matches`) and whether
  `notFoundBody` holds of it (the resource is not live).
- `generation` stands for the content of the spec; it grows with every edit and
  with the deletion. It doubles as the resourceVersion a status update is checked
  against (`Fresh`): the controller is the only writer of status, so only edits
  and the deletion can make its write conflict. A merge patch never conflicts and
  refreshes the handler's copy (`PatchHandle`).
- A definition is a record that says, per verb, which of the code's paths it
  takes (`Modes`), which observe verbs exist, what a body holds, which verbs
  tolerate a 404, whether `notFoundBody` and `postGet` are declared.
- `Abandon` stands for every way a handler can stop half-way: a crash, a failing
  call to the Kubernetes API, a lost response, a poll that gives up. All of them
  return to `idle` and keep what was done. Where the code goes on after a failure
  instead, there is an action for it (`EnsureFailureIgnored`,
  `TeardownFailureIgnored`).
- A handle that neither the CR nor the worker holds, of an operation that is over,
  may be used again (`FreeOperations`): the bound on `Operations` then limits what
  runs at once and not how many requests a behaviour may send.
- The `Deleting` condition is set only on the in-memory object and never stored,
  so it is not a value of `ready`.

Assumptions about what is outside `src/`: the runtime runs one handler of a CR at
a time, gives each a copy read when it starts, begins with Observe, and calls
again after every error and at every resync; RESTActions are idempotent, as
`mutate_restaction.go` requires; the service assigns an identifier once. Errors
of `APICallBuilder` while looking for a findby verb (which `Observe` discards)
and a document without the operation a verb names are not modelled.

**The promise.** `ResourceLife` is `RestResources` without handlers, status, operations and
definitions: a CR takes a resource only when it has none, gives it up only after its
deletion was asked for, and goes only when it has none left. `ImplementsResourceLife`
maps `owned` to `Owned`, which counts a resource from the request of its create on and
not only from the moment it is live, `forgotten` to `cutShort`, and `shown` to the
verdicts on which a release rests ("deleted" and "unaddressable"). So a second
create, an update that takes a resource away, a delete for a live CR, or a release
while a create is still running would each be a step the promise does not have.

**The search.** In `RestResources` a lookup is one step: `LookupFound` finds what is
live, `LookupNotFound` answers that nothing is. In the code a findby is a list
request, or several, whose answers are classified, flattened to a list and compared
item by item, while others add and remove items. `Lookup` states what the one step
stands for: a hit was there at some time of the search and may be taken for the
CR's, and "not found" - on which `Observe` has the resource created - is answered
only if no item that is certainly the CR's was there from the first request to the
last. `FindBy` is the code, and `ImplementsLookup` says that it keeps the promise.
The promise is weaker than an atomic lookup: when one certain match is replaced by
another while pages are read, both may be missed. A CR has one resource, so in
`RestResources` no such pair arises.

A step of `FindBy` is one request and everything done with its answer. An item is a
position in the service's sort order; a page holds what there is up to some
position, and the continuation token is that position. `CallOutcome` and
`CallForPaginationOutcome` are the two classifications of an answer, which differ
in what `notFoundCodes` and `tolerateCodes` do. `Compared` is the comparison of one
identifier, with a path that cannot be parsed (skipped), one that runs into a
scalar of the CR (an error, which rejects the item) and one the item lacks.
`MayMatch` and `MustMatch` are the policy without any order of identifiers.

**Documents.** In `RestResources` a body is a few bits; here it is a document. A document
is a function from the paths it has to what is found there ("map", "list", "null" or
the text of a scalar), so that reading is restriction, and writing a function with
another domain. Lists are maps whose segments are indices without a gap, which
`RemoveNestedField` has to keep so. `DriftCycle` has one step per handler: `Observe`
normalises the answer of get, mirrors fields in the status and compares; `Update`
builds the body, sends it, and mirrors what is answered. The properties do not
repeat the mapping. A definition of the run also says what it means (`fields`: which
path of the spec is which path of the API, which texts are synonyms, what absence
stands for), and `Drifted` compares the spec with the resource by that alone.
Verbs, conditions and failing calls are those of `RestResources`; `Edit` does not come
between an Observe that found a drift and its Update, because both work on one copy
of the CR, while `Alter`, a change at the service, comes anywhere. jq programs are
three representatives: one that unwraps a body, one that wraps it, one that fails.
`Inferred` is the constant that stands for the parsing in `InferType`.

**Workers.** A worker's handler goes from stage to stage: definition, jq modules, client,
call. A call may be the service's own, one that ends in a blocking poll, or one
delegated to a RESTAction with a token (which `Observe` makes before it builds a
client, the other handlers afterwards, and a delete verifies with a get). Each module
states one resource the workers share and its actions; `WorkerPool` adds to each what
the others leave alone. `Tick` is a unit of time. It does not pass while a timeout is
due, so that a timeout is acted upon when it ends; what is not limited by one may
take for ever. All workers serve one kind (the process is configured with one group,
version and resource), so that they share one document path. A file is an inode:
the path leads to one, a worker may hold another open, and an unlinked one is emptied
once nobody has it open. `InodesAssumption` says there are enough.

Assumptions of `WorkerPool`: calls of the Kubernetes API that never answer leave the
worker where it was and are not counted; `RefreshSkew` (60 s) is no shorter than
`ExchangeTimeout` (30 s); authn gives a token whose expiry cannot be read at least
`DefaultLifetime` (5 min), which the code assumes; a definition that references jq
modules references one, as entries of different references never meet; contexts of
handlers end with the process only. Half a document may pass for a document
(`ReadFile` allows both).

## 3. Runs

A run of `MCRestResources` names the definitions a CR may have, what others may do
(`Disturbances`) and how often, and how many handlers may be cut short.

| Run | Definitions | What may happen | Checked |
|---|---|---|---|
| `safety` | ten: synchronous, accepted (202), Model A, Model B, `notFoundBody`, delegated with and without predicates and get | 2 faults, an edit, a deletion, 2 events: resource deleted or changed by others, operation failing | `NoDuplicate`, `ReleasedMeansGone`, `FailureOutlivesPending`, `HandleKeptUntilTerminal`, `ImplementsResourceLife` |
| `redefined` | four, swapped at any time, or none; the spec may name Secrets | 1 fault, an edit, a deletion, 2 events: definition edited or removed, Role removed by others | `TypeOK`, `RecordedOperationIsReal`, `NoRequestWhileRecorded`, `RbacTornDown`, `GrantedBeforeRequest` |
| `live` | synchronous and Model B, with findby; delete tolerates 404; the resource may exist already | a fault, an edit, a deletion, an event: resource changed, or deleted once operations are followed up, operation failing | `NoDuplicateEver`, `Converges`, `DeletionCompletes`, `HandleEventuallyCleared` |
| `named` | names from the spec, no findby; Model A, Model B and postGet mixed, answers without identifiers | a fault, an edit, a change or a failing operation | `Converges`, `HandleEventuallyCleared` |
| `search` (`MCFindBy`) | single and paged, both policies, four sets of identifier paths, every form of an empty answer the call understands | items added and removed at any time, requests failing | `TypeOK`, `AbsenceIsNoError`, `ImplementsLookup`, `SearchEnds` |
| `drift` (`MCDriftCycle`) | fifteen: plain, renamed with synonyms, swapped, chained, nested with an index, Secret by a predicate, a password beside a field of another name, wrapped, defaulted, each `compareScope`, programs and comparisons that fail | 3 edits or changes by others | `TypeOK`, `SecretsResolved`, `VerdictIsRight`, `StatusIsTranslated`, `UpdateRepairs`, `Settles` |
| `workers` (`MCWorkerPool`) | lists of up to two RestDefinitions, own, others', namesakes and broken ones; configurations with and without credentials; polls with interval, attempts and timeout unset, set, and beyond their caps | two workers, unlimited handlers; every request may fail or take its time | `TypeOK`, `AbsentMeansAbsent`, `CallsCarryCredentials`, `ServedIsRecent`, `BuiltAloneIsWhole`, `CachedTokenIsValid`, `BudgetCoversPlan`, `PinnedNoLonger`, `HandlersReturn` |

Bounds. Three identifiers allow a create, its repetition, and one more (four in
`live`, where the resource may exist already and a removed one is created anew; a
second fault there would need still more); two operations allow one to be
forgotten while another runs. `MaxGeneration = 2` is one edit, and a deletion comes
on top of it. Every counterexample met while the model was written, the ones below
included, needs at most one fault, one edit and one event; the runs allow
one more where the state space permits. In `search`, three positions and pages of at
most two make a search of up to three requests, with a change before, between and
after any two of them; two identifiers are enough for their order to matter. In `drift`, three
changes make a conflict of a user, the service and an update possible, and each
definition has the two to four specs and resources in which its feature matters. In
`workers`, every time is one or two units, the smallest with which "just in time" and
"too late" differ; three inodes are one more than the workers can have open; polls have
one to three attempts, and `MaxTotal` is such that of the totals derived where no timeout is
set it leaves one as it is, takes from one only what it has to spare, and is too short
for the third (`CapsAreReached`, an assumption TLC evaluates). The proofs cover all others.
The event `lateDelete` of `live` is a deletion by others at any time at which no operation
is unfinished and Ready is not Pending: for a synchronous API at any time at all, for
Model B it leaves out just the window in which the code never recovers (the hazard at
`async_requeue.go:236`).
`Symmetry` permutes identifiers and operations and is used only where no liveness
property is checked.

The other runs expect a violation. Each shows one place where the code does not do
what a comment or the documentation says of it, on the smallest configuration that
shows it; `findings` in `PROJECT.json` quotes the line.

| Run | Property | What the counterexample shows |
|---|---|---|
| `blocking_reread` | `NoDuplicate` | Model A's postGet by a stale identifier fails before status is cleared: create is repeated without end |
| `requeue_orphan` | `ReleasedMeansGone` | a CR deleted during its Model B create is released as unaddressable, the resource appears afterwards |
| `provisioning_body` | `NoDuplicate` | the Pending guard of `notFoundBody` protects one observe; the next creates again |
| `late_secret` | `Converges` | a Secret named after Create makes Update fail on a Role that nobody removed |
| `paged_absence` | `AbsenceIsNoError` | with pagination, `notFoundCodes` is not consulted: an empty list is an error for ever and nothing is created |

Known limits of the code that no passing run includes, and that no sentence of the
repository contradicts, are hazards with a note in `PROJECT.json`: Pending outlives a
successful Model B operation whose resource then vanishes; Model B's postGet needs
the identifier it is to find; the check after a delegated delete knows neither
`notFoundBody` nor a missing identifier; a 404 of DELETE holds the finalizer unless
tolerated; a body with two lists is read in map order; with the AND policy and no
parsable identifier every item matches; a stale identifier in status keeps Observe
from consulting findby; a null in the spec lets the status supply the value; a
resolved value written to the place of its own pointer is stripped; `compareScope`
updatable does not know renamed fields; NaN differs from itself.

Fairness. `RestResources`: `WF_vars(Reconcile)` - the runtime requeues a CR after every
error and at every resync (`main.go` passes both), and a handler that is not interrupted
makes its next call. That is an assumption about the service and the cluster: each call
returns, with an answer or an error. Only polls and the re-reads after them (30 s),
RESTActions (60 s), tokens (30 s) and jq modules (15 s) have a timeout in the code; the
mutating calls, the gets and findbys of Observe and the calls of the Kubernetes API have
none, and where one hangs for ever its CR makes no progress, as `HandlersReturn` says of
workers. And `WF_vars(Service)` - the service finishes what it accepted, without which
no operation can be waited for. Users, disturbances and interruptions are never obliged
to happen, and are bounded by `MaxGeneration`, `MaxDisturbances` and `MaxFaults`, so
liveness is about what happens after the last of them. `FindBy`: `WF_vars(Search)`, for
the same reason; the collection may change without end, and a search ends all the same
because each token lies beyond the one before. `DriftCycle`: weak fairness of the steps
of `verdict` - an Observe is followed by its Update, and the runtime reconciles again.
`WorkerPool`: `WF_vars(Tick)`, time goes on; weak fairness of what nothing outside a
worker can hold up (`Prompt`), which includes the end of what is due but not the two
kinds of request that the code does not limit (`Unguarded`: the download, headers and
body, whose client has no timeout and which ignores the context, so that it may also
stall in the middle of a copy; and plain calls, bounded by the handler's context alone);
and strong fairness of a worker at the token's lock, because Go's mutexes do not starve
a waiter. The lookup may fail or answer at any time, or never, which leaves the worker
idle.

History variables (`verdict`, `cutShort`, `leaked`, `rbacTouched`; `ever`, `always`,
`excused`; `disturbed`) are read by properties only. `cutShort` marks behaviours in which a create
was interrupted between its request and the write of its answer: there the code
itself asks for an idempotent trigger (`async_requeue.go:30-33`), and `NoDuplicate`
says nothing; `NoDuplicateEver` shows that a findby verb closes the gap as long as
nothing was done asynchronously or by others.

## 4. Proofs

The theorems hold for every set of resources, operations and definitions, every
bound and every set of disturbances. They assume what the constants' ASSUMEs say:
`NoResource` and `NoOperation` are no members of the sets they stand beside, a
service that does not assign identifiers has one per CR, definitions are
records of `DefinitionSet`, bounds are naturals.

`RestResources_proofs`. None of the properties is inductive: each speaks of a moment
whose cause lies some calls earlier. `IInv` adds what the worker knows at each `pc`:

| Conjunct | Says | Needed for |
|---|---|---|
| `TypeOK`, `DefinitionResolved`, `RequestDeclared` | a handler under way has resolved a definition that declares the verb it sends | everything |
| `RunningHasTarget` | a running operation works on a resource | `TypeCorrect` (it becomes `live`) |
| `DeleteIsLast` | Delete handles no live CR, no handler touches one that is gone | `NeverTwo`, `HandlersKeepThePromise` |
| `AnsweredOperationIsReal` | the handle about to be recorded is that of the request just answered | `HandleIsReal` |
| `NothingRecorded` | past the poll no operation is recorded until `Record` | `PollsBeforeTriggering` |
| `PolledOutcome` | what the poll found stays true until the handle is dropped, and Pending is left first | `OnlyTerminalHandlesAreDropped`, `FailureIsReportedFirst` |
| `PairInProgress` | the RBAC pair is built and taken down one object after the other | `GrantsBeforeSending`, `NoGrantOutlivesTheCR` |

There is one lemma per handler, one step per action below it, and `NextKeepsIInv`
combines them; the action properties follow from `IInv` in the state before the step.

`NoRequestWhileRecorded` and `GrantedBeforeRequest` speak of `RequestSent`, the step in which
a handler makes its call for a create or update. It is told by the handler's position and not
by what the call does, so that a synchronous update, a repeated create and a RESTAction
that starts nothing count like any other (`CallsAreSeen` proves that each of the model's
five such actions is one), as do calls that are turned down or cut short.

`Ownership_proofs`. Whether a CR comes to own two resources depends on what its
definition declares, and the theorems say on what. The premises are operators of
`RestResources`, applied to the set `D` of definitions one CR may meet in its life (its own
one, or all when the RestDefinition may be edited: `Lives`):

| Premise | Asks for | Because otherwise |
|---|---|---|
| `CreatesOnce(D)` | get or findby in each definition | Observe finds nothing and creates for ever |
| | where a create may outlive its handler (`Deferred`: accepted, Model B): the verbs observe, no `notFoundBody`, get tolerates no 404 | absence is told of a resource still being created |
| | where the service assigns identifiers: no postGet after a blocking create, a body from a delegated one, get beside `notFoundBody`, and either each answer names the resource (`Identified`) or findby finds it | Observe looks for the predecessor, or for nothing |
| `LeavesNothing(D)` | identifiers in the answers, and no delete that is merely accepted | the CR is released as unaddressable or while the delete runs |
| | where a create may be running: no delegated delete, and a tolerated 404 only of an asynchronous delete | the 404 of what does not exist yet counts as deleted |
| `FindsAgain(D)` | findby wherever the verbs observe | what an interrupted create made is not seen |

Each conjunct is needed: with any one dropped, TLC finds a definition without it and a
behaviour that violates the property. `CoveredByTheorems` of `MCRestResources` says, and
every run evaluates it, that all definitions of `safety` meet `CreatesOnce` and
`LeavesNothing`, those of `live` meet `FindsAgain`, and that the definitions of the runs
`blocking_reread` and `provisioning_body` do not meet the first, nor those of `requeue_orphan` the
second: the premises separate what the code handles from what it does not.

`SInv` adds to `IInv` what the definition says of the step the worker is at, and needs no
premise. `OInv` says, as long as no create was cut short:

| Conjunct of `Attended` | Says |
|---|---|
| `OneOwned` | the resources that live or are being created are one at most |
| `OneCreation` | one create runs at most, of what does not live yet, under the recorded handle if there is one |
| `NothingYet` | from the decision to create until its request there is nothing |
| `CreationIsNoticed` | a create that runs is waited for by its worker, or Ready is Pending and no other handler gets past the lookup |
| `CreateIsAwaited`, `DeleteIsAwaited` | the outcome of the operation the worker waits for tells what is left |
| `AnswerLocates`, `StatusLocates` | the answer, and before and after it the status, names the resource, unless it can only be searched for |
| `ConclusionHolds` | Delete concludes what is so |

`NeverTwo` and `NothingIsLeft` are its first and last conjunct. The heart of the argument is
`OnlyCreateAdds`: of all steps only the two requests of Create add to what the CR owns, and
those find `NothingYet`; to have found nothing, the lookup must have looked for the
right identifier (`StatusLocates`) when no create was running (`CreationIsNoticed`).

`Undisturbed_proofs` covers the creates that are cut short, for which `OInv` says nothing: while
the service carries out every request before it answers and nobody else interferes,
every identifier handed out, stored, answered or found is that of a live resource
(`OneLive`), and nothing is live when a create is decided on (`NoneLive`), because
the lookup searches when the status names nothing. A lost answer costs nothing then.

`ResourceLife_proofs` maps every step to a step of `ResourceLife` or a stutter, from `IInv`, `SInv`,
`OInv` and `DeletesAreAsked`, by which no delete runs for a live CR. A request of Create is
`Acquire`, also after a create was cut short, where the promise allows it; an answer that
gets lost is `Forget`; what others do, and an operation that fails, is `Interfere`; Delete is
`Dispose` and `Release`.

`FindBy_proofs`. `IInv` says that only a verb with pagination is ever at `"page"`
(`PagingVerb`), that `always` lies within `collection` and that within `ever`
(`HistoryBounds`), and that no item that was there all the time, at a position
the cursor has passed, matches (`ReadInVain`). The last is the reason a search that
runs out of pages may answer "not found"; `MatchBounds` puts the code's comparison
between `MustMatch` and `MayMatch`. `FindByImplementsLookup` maps initial states to
initial states and every step to a step of `Lookup` or a stutter. Its premise
`Supported` leaves out bodies with two lists and tokens in the body; `AbsenceIsReported`
also assumes `EmptyUnderstood`, that a paged list is empty as a list or a 404 - what
`paged_absence` refutes without it.

`WorkerPool_proofs`. `IInv` has one part per shared thing, each with one lemma that
every step preserves it; none of the properties is inductive:

| Conjunct | Says | Needed for |
|---|---|---|
| `LookupInv` | from the lookup to the end of the handler credentials are there where they are asked for; before a client is built there is none | `Absence`, `Credentialed` |
| `ModulesInv` | what was read is older than its entry by a fetch at most, and a fetch lasts no longer than its timeout | `Recency` |
| `DocumentInv` | a worker that was alone so far is alone now, writes the file the path leads to, and has read all of it | `Wholeness` |
| `TokenInv` | the lock is held by whoever exchanges, and a token seems to live longer than it does by an exchange at most | `TokenValidity`, `OneExchange` |
| `PollInv` (`Runs`) | after so many attempts at most so many rounds have passed; a total that was derived is its plan's budget or the greatest there is | `BudgetSuffices`, `PollBounded` |

`RoundsLeft` is the arithmetic of the last. `BudgetCoversPlan` looks at both ways in which a
deadline may cut a plan short: it ends in the middle of a request, or while the handler waits
for its next attempt, which is then not made. It does not say that no plan without a
timeout is cut, because some are: 30 minutes are less than 59 attempts at the default
interval, or 21 at the greatest, can take, and the cap on attempts is 120. It says that these
are the only ones: a plan that can be over in time (`Longest`) makes every attempt and keeps
every request whole, even where the cap has taken from its derived total, which has two
intervals to spare (`LongestWithinBudget`). The assumptions are those of the constants:
defaults within their caps, `RefreshSkew >= ExchangeTimeout`, enough inodes; no finite
number of workers is assumed.

`Documents_proofs`. `IsDocument` is easy to break: nothing may be left below a path that
goes, and a list must keep its indices without a gap, which `RemoveNestedField` does by
moving everything behind a removed element forward, and `SetNestedField` by filling a
list with nulls up to the index it writes. `Hangs` is what `WellFormed` says of one path,
in terms of the path before it; reading below a path (`SubIsDocument`), replacing a
subtree (`PutIsDocument`) and taking out an element (`ElementRemoved`) each keep it.
The nested functions walk along a path with a fold. What the library defines by
recursion over data cannot be reasoned about by induction over an operator; instead
`Folding` shows that there is such a fold, and `FoldSteps` that it is the last of a
sequence of intermediate results, each one step from the one before. `Reading` and
`Writing` say so of the two walks, step by step, and every theorem about them is an
invariant of the walk. `ReadWithinDocument`, `ValueIsDocument`, `WritingKeepsDocument` and
`RemovalKeepsDocument`: the place reached is in the document, what was grown so far is
one, and the root is what it was.

The other four say where a change is to be seen and where not. Along a path of
fields, without index or predicate (`OnlyFields`), what is written is there
(`WrittenIsThere`), even where a scalar or a list was in the way, because the walk has at
each step entered an object it found, made or put in its place; and what is removed is
gone (`RemovedIsGone`), because `GetNestedField` finds such a path exactly when the document
has it (`FieldsFound`). Nothing happens to a path of fields that parts from the one
written or removed at a field (`Part`): `WritingLeavesAlone`, `RemovalLeavesAlone`. Up to
where they part the walk goes through objects that are there and replaces none of
them; from there on, whatever indices and predicates follow, it is `Beyond`, below a place
the other path does not go through. An element moved up in a list is never on a path of
fields.

`DriftCycle_proofs`. `TypeOK` is inductive, once the documents it speaks of are
well-formed ones. Each function the handlers apply has a lemma that it makes objects of
objects - `Writes`, `Lifts`, `Mirrors`, `MapsRequest`, `Strips`, `PatchedResource` and others -
and each step of `Next` a lemma that combines them. `NormalBodies` and `RequestBodies` are the
two halves of a mapping: no order and no overlap of its entries, no index or
predicate in its paths, and no text a value has, leads to a body that is no object.
`SegmentsAssumption` says that an index has one segment and all smaller ones have theirs, and
`DefinitionsAssumption` what a definition is: that its mappings are sequences of entries with
paths and programs; that the service takes objects, in an envelope when it answers
with one, so that a definition for such a service has a `requestTransform`; and that what
the service never answers with are fields and no elements of lists, because an answer
without one of its elements would have a gap.

`SecretsAreResolved` states `SecretsResolved` for the definitions whose Secrets have places of
their own, `SecretsHavePlaces`: the path of the value has fields only, no other entry of the
mapping writes above, below or at it and no pointer that is taken out is above or below
it (their paths part from it at a field), and no program wraps the body. Nothing is said of the other entries' values, of the fields
`processFields` copied before, or of the CR. `Mapping` and `Stripping` turn the two folds of
`BuildBody` into sequences of bodies, one per entry. From the entry of the Secret on the value
is in its place (`SecretIsWritten`, then `SecretIsKept` by `WritingLeavesAlone`), stays there
while pointers are taken out (`StrippedSecret`), and from the entry of its pointer on there is
no pointer (`StrippedPointer`). The premise is one a definition can be held against: TLC
evaluates with every run of `MCDriftCycle` (`CoveredByTheorems`) that it holds of `Login`, where
another entry writes a sibling of the password, and not of `Secret`, whose place is
chosen by a predicate and so depends on the list in the CR.

Only model-checked: of the properties of `drift`, `SecretsResolved` for places chosen by
predicates, and `VerdictIsRight`, `StatusIsTranslated` and `UpdateRepairs`, which depend on what
the paths of each definition mean and hence on the definitions of the run; and all liveness (`Converges`, `DeletionCompletes`, `HandleEventuallyCleared`,
`SearchEnds`, `Settles`, `HandlersReturn`), which is beyond the prover.

## 5. Not modelled

- Query, header and cookie parameters, the first half of `Call` (URL, headers,
  authentication, validation against the document): filled from the same values by
  the same rules as the body, or data no property tells apart.
- The text of paths and of numbers (`ParsePath`, `InferType`): constants of the
  modules say what they come to. Deep copies: documents are values.
- jq evaluation, HTTP, logging, tracing: libraries and I/O. What a predicate answers
  is nondeterministic where the handlers depend on it.
- `main.go` beyond the workers and the shared clients it creates; the mock server, a
  fixture of the tests.
- Errors that end a handler without effect before its first call are covered by
  `Abandon` and not distinguished.
- Restarts of the process in `WorkerPool`: everything it keeps is empty then, which is
  `Init`; what is left in the temporary directory is covered by `DocumentInv`, whose
  parts do not depend on the directory's contents.

## 6. Plan

- `WrittenIsThere` for whole values, and for paths with indices: what `SetNestedField` wrote
  is what `GetNestedField` reads there. With it, `SecretsResolved` for places chosen by a
  predicate of which the CR's list has one match.
- A premise on definitions, in the manner of `CreatesOnce`, under which `VerdictIsRight` holds: the
  entries of a mapping do not overlap, and say what `fields` says.
