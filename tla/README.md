# Verification of template-operator

This directory holds TLA+ models of the template operator (`src/`), the TLC
configurations that check them, and proofs about them that TLAPS checks.  The
operator watches custom resources of a Kubernetes cluster.  A `Template` makes
it generate objects from the source objects that match a selector; a `REST`
object makes it keep a resource on a remote HTTP server.

## 1. The system

| Component | Code | State | Operations |
|---|---|---|---|
| REST controller | `controllers/rest_controller.go` | none of its own: the object's finalizer and status at the API server; locals of one run | `Reconcile`, `updateStatus`, `removeFinalizers` |
| REST manager | `k8s/rest_manager.go` | none | `Update`, `Delete`, `doRequest` |
| Template controller | `controllers/template_controller.go` | work queue (controller-runtime) | `Reconcile`, `reconcileObject` (the informer's callback) |
| Template manager | `k8s/template_manager.go` | none: a mark and a condition on the source | `Run`, `selectResources`, `HandleSource`, rendering |
| Watcher | `k8s/watcher.go` | a flag per kind and template name; the informers it started | `Watch`, `onUpdate` |
| Schema cache | `k8s/schema_cache.go` | OpenAPI schema, server resources and CRDs with a time stamp each, an LRU of converted schemas, one mutex | `FetchSchema`, `FetchResources`, `FetchCRD`, `CachedConvertSchema`, `Expire...` |
| CRD controller | `controllers/crd_controller.go` | the largest resource version it saw | `Reconcile` |
| Schema manager | `k8s/schema_manager.go` | none: reads the cache | `DuckType`, `FindTypeForKey` and the conversions |
| Patch applier | `k8s/patches.go` | none | `Apply` (kustomize) |
| Git source | `k8s/template_manager.go` 595-726 | none | `handleGitRepository` |
| Wiring | `main.go` | flags | starts the manager |

**Interactions.**  controller-runtime calls `Reconcile` with keys from a work
queue, one worker per controller, and enqueues a key again when a run returns an
error, asks for it, or when the resync period (5 minutes) is over.  The REST
controller reads from an informer's cache and writes to the API server with an
optimistic version check.  The template controller's run asks the watcher for an
informer of the sources; the informer calls `reconcileObject` **in its own
goroutine**, at the same time as the worker.  Both call `HandleSource` with a
snapshot.  All controllers share the schema cache.

**What is hard.**  Reads from a cache that lags behind; two threads working on
snapshots of different revisions; requests that fail after they were carried out;
restarts between a request and the record of it; retries that end without being
enqueued again; a callback whose errors are only logged; objects that disappear
between a check and its use.  `PROJECT.json` lists each hazard at its line.

**What makes each part correct.**

* REST: whatever the remote server holds is guarded by the finalizer until it was
  asked to remove it; a recorded generation was sent; records never go back;
  nothing is made after the removal; a recorded generation has its resource's id;
  an object that no queue holds needs nothing, unless requests failed too often; the
  last generation is recorded in the end and deletions finish.
* Templates: no object before its dependencies; the condition claims nothing that never was; with patches no object from an unpatched
  source, and with patches for once no edit is undone; a pass over the sources ends;
  sources settle, and once they have they stay so.
* Schema cache: no object is rendered with CRDs older than the last change the
  cache was reset for, whoever asks later gets no older ones, and no change is lost.
  Two promises of its comments fail:
  conversions and the client's mapper stay old.
* Watcher: no change that an informer covers is lost between the worker's list, the
  informer's first list, its queue and the callback, while templates are edited; a
  source that the template no longer selects is only taken up after such an edit.
* Schema manager: a scalar gets the type that the schema has for its place and keeps
  its value, as far as a float64 can hold it where one is asked for, and an object is
  converted as a whole or not at all.

## 2. Modules

| Module | What it is |
|---|---|
| `RemoteObligation` | abstract: what the operator owes the remote server |
| `RESTReconciler` | REST controller and manager, API server, cache, users, remote server |
| `RESTReconcilerProofs` | theorems about it |
| `MCRESTReconciler` | values of its constants |
| `GatedRollout` | abstract: objects are created after those they depend on settled |
| `TemplateManager` | worker and informer of one template, its sources and objects |
| `TemplateManagerProofs` | theorems about it |
| `MCTemplateManager` | values of its constants |
| `ExpiringList` | abstract: a list that is read in one step and no older than its last reset |
| `SchemaCache` | the schema cache, the threads that fill it, the CRD controller that expires it |
| `SchemaCacheProofs` | theorems about it |
| `MCSchemaCache` | values of its constants |
| `SourceWatch` | templates that users edit, what they select, the worker and the informers |
| `SourceWatchProofs` | theorems about it |
| `MCSourceWatch` | values of its constants |
| `TypedField` | the conversions of a scalar, and what the type of a field promises |
| `DuckType` | the walk from the root of a schema to each scalar of an object |
| `DuckTypeProofs` | theorems about both |
| `MCDuckType` | values of their constants |

### RESTReconciler

`log` is the history of one REST object at the API server; a resource version is
an index.  `cached` is the version the informer has.  `pc`, `rest`, `upd` and
`steps` are the worker's place and the locals `rest`, `statusUpdates` and
`backoff.Steps`; `live` and `nextId` are the remote server.  Actions are the code
between two requests:

| Action | Code |
|---|---|
| `Begin` (with `Branch`) | `Reconcile` up to its first request |
| `AddFinalizer` | `Reconcile` 133-143 |
| `SendUpdate` | `RESTManager.Update` and `doRequest` |
| `AttemptStatus`, `RefetchStatus` | the loop of `updateStatus` |
| `SendRemove` | `RESTManager.Delete` |
| `AttemptRelease`, `RefetchRelease` | the loop of `removeFinalizers` |
| `Edit`, `Delete`, `ReleaseForeign` | users and other controllers |
| `Deliver`, `Resync`, `Crash` | informer, resync period, restart |

A request to either server fails in two ways (`Fault`): before it was carried out,
or after it, with the answer lost.  After the second the object's version has moved
on without the worker's copy, so the next attempt of a write loop meets a conflict
with its own write, reads the object again and writes what is there already, which
makes no new version (`CarryOut`).
A status holds the observed generation and the id that the response gave; other
fields of the response are left out.  What a request renders to is abstracted to
the id it names: 0 when the status has none.

### TemplateManager

`src` are the sources and `obj` the objects made from them, both known by a
revision; `events` is what the informer has yet to hand over; `pc` and `job` are
the place and the locals of the two threads, `worker` and `informer`.
`HandleSource` is cut at each request: `Patch`, `Depend` (one dependency of
`checkDependentObjects`), `Apply`, `Refresh` (`isResourceReady`) and
`SetCondition`.  `Reconcile`, `Run` and `Callback` start a thread.  `Watch` is
part of `Run`: `watch` is `"off"`, `"starting"`, `"on"`, or `"broken"` when a
step after the flag was set has failed.  Rendering is a table, `Renderings[r]`:
the lists revision `r` may be rendered to, several when `forEach` walks a map and
none when the template fails.  Patching is the mark that `markApplied` sets, and
restores the content of the snapshot it was computed from.

### SchemaCache

The cluster is the log of the changes of CRDs, and what was read from it is known by
the length the log had.  `cache` and `fresh` are the three values and their time
stamps, `converted` the LRU, `lock` the mutex with the thread that holds it, `got`
the response that thread waits for, and `mapper` the client's REST mapper.

| Action | Code |
|---|---|
| `Check`, `CheckOfREST` | the controllers' `SchemaHasExpired` and `ResetRestMapper` |
| `FetchSchema`, `FetchResources`, `FetchCRD` | the functions of the same names: `Ask` takes the mutex, `Keep` and `Lose` release it, `Hit` is the way without a request |
| `Convert` | `CachedConvertSchema` |
| `NextObject`, `Apply` | the rest of a run of the template controller |
| `Deliver`, `Reconcile`, `ExpireSchema` | the CRD controller's informer, `CRDReconciler.Reconcile`, `resetCache` |
| `ChangeCRD`, `Elapse` | users, and the clock |

A request for a value reads the cluster when it is sent: the oldest answer it can
get.  The server publishes the schema of a CRD after it took the change, so the
schema may lag, while a list of CRDs is exact.  `Reconcile` leaves the key of a
deleted CRD in the queue, as the `Get` that fails makes controller-runtime do.
`ExpiringList` is what the threads are promised of the list of CRDs, as if reading it
were one step: it has no mutex, no time stamps and no response on its way.
`ImplementsExpiringList` maps its floor to `lastRv` and its newest list to
`cache["crds"]`.
`TemplateManager` does not compose with this module: what a schema converts is part
of its table of renderings.

### SourceWatch

`TemplateManager` has one template that never changes; this module has what depends
on the template.  A template is its generation and its selector: a kind, a label and
the namespaces it lists.  `tmpl` and `src` are the templates and the sources, `job`
the worker's locals, `informer` what `Watch` has started under the key of a kind and a
template's name, `pending` what an informer has queued for a source, and `hand` the
callback with the template it read.  `last` is what `HandleSource` was last called
with for a template and a source, and `note` whether that call was due, done or failed.

| Action | Code |
|---|---|
| `Reconcile`, `List`, `Watch`, `HandleNext` | `TemplateReconciler.Reconcile` and `TemplateManager.Run`, a namespace and a source at a time |
| `Download` | `handleGitRepository` up to its first file |
| `Start`, `Notify` | the informer's first list, and its event handlers |
| `Receive`, `CallBack` | `reconcileObject` before and in `HandleSource`, whose error `onUpdate` logs |
| `EditTemplate`, `EditSource` | users; an edit may create, change or delete |
| `Resync`, `Restart` | the resync period, and the operator's process |

What `HandleSource` does is `TemplateManager`'s matter: here it is one step that
succeeds or fails.

### TypedField and DuckType

A scalar is a Go kind and what it denotes: a whole number, one with decimals, a truth
value or a text.  `Convert` and the operators it uses are the transform functions;
`Admits` and `HasRoom` say what a type promises and do not use them.  The widths are
constants: `int8`, `int32` and `int64` have 2, 3 and 5 bits in TLC and any in the proofs.

A number in a string has a spelling where `strconv` tells them apart: `5` and `05` are
read by all its functions, `+5` and `-0` not by `ParseUint`, `7.0` and `7e0` only by
`ParseFloat`, and `ParseBool` reads no number but `0` and `1`.  What is not read is an
error, and the object stays unconverted.  `ParseFloat` (`schema_manager.go:445`, the
format `double`) returns the nearest float64.  Up to `Exact`, 2^53, that is the number;
the floats beyond are multiples of one of the `Units`, and `Rounded` takes the nearest,
of two the even one.  Out of range it fails, and NaN and the infinities it accepts
(`"special"`).  Decimals whose nearest float64 is whole are a form of their own,
`"nearly"`.

A schema is a graph of `Nodes` with properties, additional properties, items and
references; an object is a function from paths to scalars.  `Place` says which node
describes each part of a path *by the meaning of schemas*; the code's walk is a state
machine, one call of `findTypeForKey` a step, and finds its node by other means: it
drops indexes, follows a reference only where it goes on, and looks keys up with their
dots replaced.  `FindSchemaForKind` and `FindSchemaForCrd` find the root, `Visit` and
`Assign` are `duckType` before and after the walk, `Finish` the end of `DuckType`.
`Plain` is the condition under which the walk can be right: no nested arrays, no array
behind a reference, no reference for an element that is a scalar, no dots.

## 3. Runs

| Run | Bounds | Result |
|---|---|---|
| `rest_safety` | 2 generations, 3 attempts, 3 failed requests, 1 restart, 1 stale resync | holds |
| `rest_liveness` | the same with 1 attempt and 1 failed request, all four forms of URLs | holds |
| `rest_success_metric` | 1 generation, 2 attempts, 2 failed requests | violated |
| `rest_left_behind` | 1 generation, no failure | violated |
| `template_safety` | 1 source, 2 revisions, `forEach` order, patches and onceoff, 1 trouble | holds |
| `template_liveness` | 1 source, 2 revisions, `forEach` order, a copy, 1 trouble | holds |
| `template_reversed` | 1 source, 1 revision | violated |
| `watch_safety` | 1 template with 3 generations, an object and a file, 2 revisions each, 2 namespaces, 1 trouble | holds |
| `schema_safety` | 2 threads, 2 kinds, 2 versions, 2 troubles | holds |
| `schema_conversions` | the same with 1 trouble | violated |
| `schema_mapper` | the same with 1 trouble | violated |
| `typing_safety` | 36 paths, 79 scalars, integers of 2, 3 and 5 bits, floats exact up to 8 | holds |

**REST.**  Two generations and the one a deletion adds are the least that lets a
run with an old copy meet a newer one and a deleted one.  Three attempts are the
least where a loop can lose the answer of a write, meet the conflict with it and
write once more; the code has ten.  A failure may hit any request, to the API server
or to the remote server, before or after it was carried out; three of them use up all
attempts of a write loop, so that the case which `NothingForgotten` excuses occurs as
well as those it does not.  The proofs below do not depend on the bounds.

**Templates.**  Two revisions are enough for a thread to hold an old snapshot
while the other works on the new one; a trouble is a failed request, an object
that somebody breaks or deletes, or a restart, and one of them may happen
anywhere.  The objects of one source do not depend on those of another, so one
source suffices for the safety properties.  It does not for what the sources share, the
result of `Run`, which keeps what the last of them asked for (`template_manager.go:209`):
`template_liveness` cannot meet that loss.  The same configuration with `NumSources = 2`,
`MaxRev = 1` and `MaxTroubles = 0` does, and holds; it is not one of the runs.  In
`template_safety` the objects of the first revision come in any order, the application
before or after its database.  The configuration without a second revision leaves the changes of
users out.  With two revisions a source can settle and be edited, so
`SettledStays` meets late threads of either kind, and `OnceoffSettles` one that read
the source before its mark.

**Schema cache.**  Two kinds let the CRD controller handle two changes in either
order, and two versions let a response be older than the change that is reported
while it is on its way.  A trouble is a request that fails or a value whose time
runs out.  A third version exceeds what TLC explores in minutes; the proofs hold for
any number.  `NothingMissed` is a safety property in place of a liveness one: it
says of each kind what must be so once its key is not queued any more, and needs no
fairness.  It covers deletions: the key of a CRD that is gone stays queued, so only that
kind is served as it was.

**Watcher.**  Three generations let a template turn away from a selector and back, or
be deleted and created again, while the informer of the first one stays.  The four
selectors differ in the label, in the namespaces and in the kind, a git repository
among them.  One object and one file suffice because sources meet only in what the
worker has left to do; the proofs hold for any number.

**Conversions.**  The schema has every type and format the code knows, under fields, in
arrays, behind references, behind additional properties and in a kind that refers to
itself, and places that no schema describes.  Numbers are those at the ends of each
width and next to them, and for floats also those between two units, halfway and past the
largest.  Objects have one scalar, or up to three at five kinds of
place, so that a scalar that fails meets some that do not.

**Fairness.**  `FairSpec` of `RESTReconciler` assumes that the worker takes its
next step, that watch events arrive and that the resync timer fires: what
controller-runtime provides.  `FairSpec` of `TemplateManager` assumes it of both
threads, of the informer's first list and of the timer.  `HealthySpec` adds that
the controllers of the generated objects make an object that stays ready.
`SourceWatch` assumes the same of its worker, informers and timer; its queue gives
every template a turn, hence the strong fairness of `Reconcile`.  `DuckType` is a
function that goes on while it can.
Failures and restarts are bounded, and are never forced.  `Resync` fires for ever,
which is why no run of the liveness properties relies on a single event.

`Converges` of the template manager is checked without patches.  With patches each
of two threads may restore the revision of its own snapshot and so wake up the
other; whether they come to rest depends on what the client library does with an
outdated snapshot, which is not in `src/`.

### Findings

* `rest_success_metric`: `updateStatus` declares `err` again inside its loop and
  returns the outer one, nil: a status that was never written counts as success.
* `rest_left_behind`: a deletion handled from a copy without the id sends a remove
  request that names no resource, and the finalizer goes.
* `template_reversed`: an object listed before its dependency ends the pass with an
  error, so that neither the dependency nor an independent object is created.
* `schema_conversions`: the LRU of converted schemas is never cleared, so the fields
  of an object are converted by the first version of its CRD that was ever used.
* `schema_mapper`: the schema expires between `SchemaHasExpired` and `FetchSchema`;
  the run has the new schema and the old mapper, and the next check sees no reason
  to reset it.

Two properties of passing runs name the cases in which what one would expect fails.
`StrayNeedsEdit` leaves it to an edited template that its old informer still hands over
what it no longer selects (`watcher.go:168`).  `FailsForCause` leaves it to a kind whose
name is not the guessed one, to a place that is not plain and to an array without items
that it is given up, or ends the operator.

## 4. Proofs

`RESTReconcilerProofs` proves, for every value of the bounds, the properties of
`rest_safety` as theorems of `Spec`.  The assumptions are those of
`RESTReconciler` on its constants.  `RecordedWasSent` is proved for objects with
an update URL: without one `doRequest` wraps a nil error (`rest_manager.go:107`) and
the generation is recorded although nothing was sent.  The inductive invariant `IInv`
is the conjunction of

* `TypeInv`: the types, edits stay within the bound, and a write loop that is at an
  attempt has one left;
* `HistoryInv`: from version to version of the object generations grow, a
  deletion is final, the recorded generation does not go back, and the operator's
  finalizer stays until a remove request has returned;
* `CopyInv`: before a request the worker's copy is a version that the cache has
  had, and it took the branch that the worker is on;
* `DebtInv`: a request is only accepted for an object that had the finalizer, and
  once the removal has returned the cache shows the deletion;
* `ObservedInv`: a generation is recorded only after the cache has shown it, and
  nothing newer than what the worker is about to record has been recorded;
* `SentInv`: with a URL, what is or will be recorded was accepted.

`FinalizerHeld` alone is not inductive: a stale copy without the finalizer must be
known to lead to `AddFinalizer`, and one that is not being deleted never to a
removal.  The refinement of `RemoteObligation` and the action property
`NothingCreatedAfterRemove` follow step by step from `IInv`.  Two properties need
more.

* `StatusNamesResource` rests on `NamesInv`: as long as nobody has deleted the object,
  the resource that any of its versions names exists, and so does the one that a status
  still to be written names.  A removal starts from a copy that is being deleted only.
* `NothingForgotten` rests on `AwareInv`: while the key is not queued, a run works on the
  version that the cache has, and what it is about to write is news to that version.  A write that is refused is refused because of a later
  version, whose event is still to come and will enqueue the key, so a conflict is never
  why an object is forgotten; nor is a status or finalizer that had been written before,
  with the answer lost, because the event of that write is still to come.  What is left are failed requests, and it takes one for
  each attempt of the loop.

`RunGetsOn` gives a run a measure, `Left`, that each of its steps lowers: the retry loops
count their attempts down, also when a conflict makes them read the object again.

`TemplateManagerProofs` proves the properties of `template_safety` for any number of
sources and revisions, any objects, dependencies and renderings, with and without
patches and `onceoff`.  It assumes `TemplateAssumption`: the dependencies and the
renderings are lists of the template's objects, a copy depends on nothing and nothing
depends on a copy.  Its `IInv` has three parts.

* `ThreadsInv`: what each thread has made sure of (`Grounds`), given as a predicate
  of its place, its locals, the sources and the objects that were ready.  A thread
  about to apply an object has found all its dependencies ready; one that still takes
  the source for ready has seen or skipped all objects before the current one; with
  patches, the source it is at carries the mark; no snapshot shows a mark that the
  source lacks.
* `ClusterInv`: `DependenciesFirst` and `PatchedFirst`, and that an object that is
  ready is remembered (`ReadyInv`).
* `QueueInv`: types, and the marks in the snapshots the informer has not handed over.

The argument is that what a thread knows only rests on facts that never become false
(`Grown`): marks stay and what was ready once stays remembered.  So a step of one
thread cannot take away the grounds of the other (`LocalGrows`), and each lemma
looks at one thread only: that the places it goes to are sound (`Moves`).  The
property would not be inductive for "is ready" in place of "was ready once": a
dependency may break between its check and the use of the check.

Three action properties follow from `IInv`, or from what it rests on.

* `PassGetsOn`: `Onward` says that each step of a thread brings it further in a
  well-founded order, the sources first, then the objects of a source, the requests
  for an object and its dependencies.  It is the part of a pass's termination that needs no
  fairness.
* `OnceoffSettles` and `SettledStays` say that something which everybody has seen stays:
  the mark of a source, or its last revision.  Both rest on what an informer tells and
  what a thread puts in its list coming from the source or from what is told
  (`SourceStep`, `EventsWithin`, `ListsWithin`, stated for any set of snapshots).
  `SettledStays`, which is what remains to be shown of `Converges` once a source has
  settled, also needs `PlanInv`: the list that a thread goes through is a rendering of
  the snapshot it holds, and it asks only of objects that are not trivial whether they
  are ready.

`SchemaCacheProofs` proves the properties of `schema_safety` for any threads and kinds
and any number of changes.  Beside the types, its `IInv` says

* `KnownInv`: nothing that was read is newer than the cluster;
* `FlightInv`: a list of CRDs that counts as current has the change the cache was last
  reset for, and so has one that is on its way and will count as current;
* `HandledInv`: a change that the CRD controller has seen is queued, or is covered by
  the version it reset the cache for or is about to.

`FlightInv` is what the mutex is for: a reset waits for the response on its way, and
only then drops it.  `HandledInv` is why one maximum for all CRDs is enough: a change
that is dropped is older than one that the cache was reset for after both had happened.
`NothingMissed` follows from both, and from the types the refinement of `ExpiringList`:
a hit is a read of the newest list, the answer to a request is the time it was sent, and a
reset that waits for the mutex is one that raises the floor when nothing is on its way.

`SourceWatchProofs` proves the safety properties of `watch_safety` for any templates,
kinds, sources and namespaces.  Its `IInv` adds to them `PhaseInv` (a source is
handled only after all namespaces were listed, and a git repository has no informer),
`PendingInv` (what an informer has queued is of its kind and its label) and `FirstInv`
(while a template is as it was created, the worker's copy is that template and an
informer has its selector).  `InformerMissesNothing` is inductive with the types alone:
whatever makes a source due while an informer covers it puts it on its way.
`StrayNeedsEdit` needs the other two.

`DuckTypeProofs` proves the safety properties of `typing_safety` for any graph of
schemas and any objects, widths and units.  The conversions come first, as lemmas about
operators: `FloatsNear` says that rounding keeps within half a unit and up to 2^53 changes
nothing, `ConvertGood` that what `Convert` yields denotes the same number, or the nearest
float64, and is admitted by the type, `ConvertTakes` that it yields something whenever
the type has room.  The
invariant `WalkInv` is the heart of the rest: on a plain path, the node the walk is at
is the one that describes the part it has reached, and the next part is a key.  It
needs that the array at a part is not behind a reference (`ElementIsPlace`) and that
what is no array is not indexed (`NoArrayNoIndex`).  `FieldInv` and `NewInv` carry it
to the field and to the new object.  The assumptions are that a reference has nothing
but its target, that only integers have a format of integers, that definitions are
published under the names of kinds, and what `Place` means.  `CallGetsOn` says that each step
of a call ends it, comes to the next scalar or goes down the path, also through a
schema that refers to itself.

Liveness under fairness is out of the prover's reach: `Converges` of the three
modules, `DeletionCompletes` and `Ends` are only model-checked, and the refuted
properties are counterexamples of TLC.  What of them is a property of single steps is
proved: that runs, passes and calls come to an end when they are scheduled (`RunGetsOn`,
`PassGetsOn`, `CallGetsOn`), that the queue holds what still needs work
(`NothingForgotten`), and that what has settled stays (`SettledStays`).

## 5. Not modelled

* The rendering of templates (`when`, `forEach`, gotemplate, jsonpath) and the merge
  of patches are pure functions of libraries.  `TemplateManager` has a table in place
  of the one and a mark in place of the other.
* `onceoff` is modelled with the patches it guards (`OnceoffSettles`); that objects are
  rendered again all the same is not stated as a property, and neither is that a source
  which can never be rendered starves those listed after it.
* The labels of namespaces.  `SourceWatch` has the namespaces that a selector lists fixed
  for each generation of a template, while `GetSourceNamespaces`
  (`template_manager.go:119-143`) lists them by their labels on every call: a namespace that
  is created, deleted or gets another label between two runs is not covered by what is said
  of sources that are selected.
* The format of archives and the glob of a git source; more than one file of a
  repository in TLC's instance.
* `transformFloatToType`, which nothing calls, and `transformBytesToType`, whose input
  no decoder yields.  A string in a field of the format `byte` becomes bytes, and is
  encoded once more when the object is written; the model ends before that.
* Whether nulls of `<no value>` are wanted, and what `kommons` does with an object that
  was not converted: neither is in `src/`.
* Authorization of REST requests beyond that it may fail; events and metrics except the
  success count; logging, flags and leader election in `main.go`; the generated deep
  copies, the type declarations and the tests.
