----------------------------- MODULE SchemaCache -----------------------------
(***************************************************************************)
(* The schema cache (src/k8s/schema_cache.go), which the two threads of    *)
(* the template controller fill and read, and the CRD controller           *)
(* (src/controllers/crd_controller.go), which expires it.                  *)
(*                                                                         *)
(* The cluster is its log of changes of CRDs; a resourceVersion is a place *)
(* in the log.  What was read from the API server is known by the          *)
(* resourceVersion it was read at.  The cache holds three such values      *)
(* behind one mutex, each with a time stamp, and the converted schema of   *)
(* every kind.  The REST mapper of the client library is a fourth value,   *)
(* which the controllers reset when they find the schema expired.          *)
(***************************************************************************)
EXTENDS Naturals, Sequences

CONSTANTS
  Threads,       \* the worker of the template controller and the informers
  Kinds,         \* kinds that CRDs define
  MaxRv,         \* bound: changes of CRDs
  MaxTroubles    \* bound: values whose time runs out and requests that fail

ASSUME BoundsAssumption ==
  MaxRv \in Nat \ {0} /\ MaxTroubles \in Nat

ASSUME ThreadsAssumption == "free" \notin Threads

ASSUME KindsAssumption == Kinds # {}

VARIABLES
  log,        \* the cluster: what was changed, oldest first
  cache,      \* cache[v]: sc.schema, sc.resources and sc.crds, 0 for nil
  fresh,      \* the values whose expire timestamp has not passed
  converted,  \* schemaUnmarshalCache: a version of each kind, 0 for none
  lock,       \* sc.lock: the thread that waits for a response with it, if any
  got,        \* the response on its way to that thread
  mapper,     \* the client's REST mapper, 0 when it is to be built again
  pc,         \* where each thread of the template controller is
  used,       \* used[t]: what the run of t works with
  seen,       \* the CRD controller's informer has seen log[1..seen]
  keys,       \* the CRDs in its work queue
  lastRv,     \* CRDReconciler.ResourceVersion
  report,     \* the resourceVersion it is resetting the cache for, or 0
  troubles    \* what was used of the bound

values  == <<cache, fresh, lock, got>>
threads == <<pc, used>>
control == <<seen, keys, lastRv, report>>
vars == <<log, cache, fresh, converted, lock, got, mapper, pc, used,
          seen, keys, lastRv, report, troubles>>

-----------------------------------------------------------------------------
(* Data.                                                                   *)

Values  == {"schema", "resources", "crds"}
PCs     == {"idle", "schema", "resources", "object", "convert", "rendered"}

Change == [kind: Kinds, gone: BOOLEAN]

\* v is the resourceVersion that kind k has in what was read at n.
VersionAt(k, v, n) ==
  /\ v \in 1..n /\ log[v].kind = k /\ ~log[v].gone
  /\ \A w \in 1..n : w > v => log[w].kind # k

\* What a run has read: the schema, the CRDs, the kind of the object it
\* renders and the version of the kind it converts the object's fields to.
\* since is lastRv when the run asked the cache for the CRDs.
Reads == [schema: 0..MaxRv, since: 0..MaxRv, crds: 0..MaxRv,
          kind: Kinds \cup {"none"}, version: 0..MaxRv]

Nothing == [schema |-> 0, since |-> 0, crds |-> 0, kind |-> "none", version |-> 0]

Init ==
  /\ \E k \in Kinds : log = << [kind |-> k, gone |-> FALSE] >>
  /\ cache = [v \in Values |-> 0]
  /\ fresh = {}
  /\ converted = [k \in Kinds |-> 0]
  /\ lock = "free"
  /\ got = 0
  /\ mapper = 0
  /\ pc = [t \in Threads |-> "idle"]
  /\ used = [t \in Threads |-> Nothing]
  /\ seen = 0
  /\ keys = {}
  /\ lastRv = 0
  /\ report = 0
  /\ troubles = 0

Trouble == troubles < MaxTroubles /\ troubles' = troubles + 1
Well == UNCHANGED troubles

-----------------------------------------------------------------------------
(* The cluster, and time.                                                  *)

\* A CRD is created, edited or deleted.
ChangeCRD(c) ==
  /\ Len(log) < MaxRv
  /\ c.gone => \E v \in 1..Len(log) : VersionAt(c.kind, v, Len(log))
  /\ log' = Append(log, c)
  /\ UNCHANGED <<values, converted, mapper, threads, control, troubles>>

\* The expire timestamp of v passes.
Elapse(v) ==
  /\ v \in fresh /\ Trouble
  /\ fresh' = fresh \ {v}
  /\ UNCHANGED <<log, cache, converted, lock, got, mapper, threads, control>>

-----------------------------------------------------------------------------
(* The cache.  A thread that finds a value stale asks the API server for   *)
(* it with the mutex held; the others wait.                                *)

\* CRDs are listed as they are now.  The server publishes the schema of a
\* CRD some time after it took the change.  Of the resources only matters
\* whether there are any.
Responses(v) == CASE v = "crds"      -> {Len(log)}
                  [] v = "schema"    -> {n \in 1..Len(log) : n >= cache["schema"]}
                  [] v = "resources" -> {1}

Stale(v, held) == cache[held] = 0 \/ v \notin fresh

Ask(t, v, held) ==
  /\ lock = "free" /\ Stale(v, held)
  /\ lock' = t
  /\ got' \in Responses(v)
  /\ UNCHANGED <<cache, fresh, troubles>>

\* The response, which is result, is kept.
Keep(t, v, result) ==
  /\ lock = t /\ Well
  /\ lock' = "free"
  /\ result = got
  /\ cache' = [cache EXCEPT ![v] = result]
  /\ fresh' = fresh \cup {v}
  /\ got' = 0

\* The request has failed (first with the mutex left locked, for a mutant).
LoseLocked(t) ==
  /\ lock = t /\ Trouble
  /\ UNCHANGED <<cache, fresh, lock, got>>

Lose(t) ==
  /\ lock = t /\ Trouble
  /\ lock' = "free"
  /\ got' = 0
  /\ UNCHANGED <<cache, fresh>>

Hit(v, held, result) ==
  /\ lock = "free" /\ ~Stale(v, held)
  /\ result = cache[v]
  /\ UNCHANGED <<values, troubles>>

\* The thread has the value v one way or the other.
Fetched(t, v, held, result) == Keep(t, v, result) \/ Hit(v, held, result)

Goto(t, l) == pc' = [pc EXCEPT ![t] = l]
Read(t, r) == used' = [used EXCEPT ![t] = r]
End(t) == Goto(t, "idle") /\ Read(t, Nothing)
-----------------------------------------------------------------------------
(* A thread of the template controller: Reconcile of the worker, and       *)
(* reconcileObject, which the informer of a source kind calls.             *)

\* SchemaHasExpired does not take the mutex.
ResetMapper == mapper' = IF "schema" \in fresh THEN mapper ELSE 0

Check(t) ==
  /\ pc[t] = "idle"
  /\ ResetMapper
  /\ Goto(t, "schema")
  /\ UNCHANGED <<log, values, converted, used, control, troubles>>

\* A run cannot go on without the schema and the resources.
FetchSchema(t) ==
  /\ pc[t] = "schema"
  /\ \/ Ask(t, "schema", "resources") /\ UNCHANGED threads
     \/ \E n \in 0..Len(log) :
          /\ Fetched(t, "schema", "resources", n)
          /\ Goto(t, "resources")
          /\ Read(t, [used[t] EXCEPT !.schema = n])
     \/ Lose(t) /\ End(t)
  /\ UNCHANGED <<log, converted, mapper, control>>

\* Every template has an object; k is the kind of the first.
FetchResources(t) ==
  /\ pc[t] = "resources"
  /\ \/ Ask(t, "resources", "resources") /\ UNCHANGED threads
     \/ \E n \in 0..Len(log), k \in Kinds :
          /\ Fetched(t, "resources", "resources", n)
          /\ Goto(t, "object")
          /\ Read(t, [used[t] EXCEPT !.kind = k])
     \/ Lose(t) /\ End(t)
  /\ UNCHANGED <<log, converted, mapper, control>>

\* An object that cannot be converted is applied as it was rendered.
FetchCRD(t) ==
  /\ pc[t] = "object"
  /\ \/ /\ Ask(t, "crds", "crds")
        /\ Read(t, [used[t] EXCEPT !.since = lastRv])
        /\ UNCHANGED pc
     \/ \E n \in 0..Len(log) :
          /\ Goto(t, "convert")
          /\ \/ Keep(t, "crds", n) /\ Read(t, [used[t] EXCEPT !.crds = n])
             \/ /\ Hit("crds", "crds", n)
                /\ Read(t, [used[t] EXCEPT !.crds = n, !.since = lastRv])
     \/ Lose(t) /\ Goto(t, "rendered") /\ UNCHANGED used
  /\ UNCHANGED <<log, converted, mapper, control>>

\* The cached conversion, if the kind has one; otherwise that of the CRD.
Convert(t) ==
  LET k == used[t].kind
      known(v) == VersionAt(k, v, used[t].crds)
      \* CachedConvertSchema
      convertTo(v) == IF converted[k] # 0 THEN converted[k] ELSE v
  IN /\ pc[t] = "convert" /\ lock = "free"
     /\ Goto(t, "rendered")
     /\ \/ \E v \in 1..used[t].crds :
             /\ known(v)
             /\ converted' = [converted EXCEPT ![k] = convertTo(v)]
             /\ Read(t, [used[t] EXCEPT !.version = convertTo(v), !.crds = 0])
        \/ /\ \A v \in 1..used[t].crds : ~known(v)
           /\ Read(t, [used[t] EXCEPT !.crds = 0])
           /\ UNCHANGED converted
     /\ UNCHANGED <<log, values, mapper, control, troubles>>

\* The template has another object.
NextObject(t) ==
  /\ pc[t] = "rendered"
  /\ Goto(t, "object")
  /\ \E k \in Kinds : Read(t, [used[t] EXCEPT !.kind = k, !.since = 0, !.version = 0])
  /\ UNCHANGED <<log, values, converted, mapper, control, troubles>>

\* The objects are applied; the client builds its mapper if it has to.
Apply(t) ==
  /\ pc[t] = "rendered"
  /\ mapper' = IF mapper = 0 THEN Len(log) ELSE mapper
  /\ End(t)
  /\ UNCHANGED <<log, values, converted, control, troubles>>

\* The REST controller checks the schema as well, and fetches nothing.
CheckOfREST ==
  /\ ResetMapper
  /\ UNCHANGED <<log, values, converted, threads, control, troubles>>

InRun(t) ==
  FetchSchema(t) \/ FetchResources(t) \/ FetchCRD(t) \/ Convert(t) \/ NextObject(t) \/ Apply(t)

-----------------------------------------------------------------------------
(* The CRD controller.  Its informer reads the changes of CRDs in order;   *)
(* its one worker takes the queued CRDs in any order.                      *)

Deliver ==
  /\ seen < Len(log)
  /\ seen' = seen + 1
  /\ keys' = keys \cup {log[seen'].kind}
  /\ UNCHANGED <<log, values, converted, mapper, threads, lastRv, report, troubles>>

\* Only a later change than the last one is reported.  (First any change, for
\* a mutant.)
ReportedAny(v) == v
Reported(v) == IF v > lastRv THEN v ELSE 0

\* A run that fails to ask for the server's groups is retried, and so is one
\* of a CRD that is gone, whose key stays in the queue.  (ReconcileOnce, for a
\* mutant, does not retry.)
ReconcileOnce(k) ==
  /\ k \in keys /\ report = 0
  /\ \/ Trouble /\ UNCHANGED report
     \/ Well /\ \E v \in 1..seen : VersionAt(k, v, seen) /\ report' = Reported(v)
  /\ keys' = keys \ {k}
  /\ UNCHANGED <<log, values, converted, mapper, threads, seen, lastRv>>

Reconcile(k) ==
  /\ k \in keys /\ report = 0
  /\ \/ Trouble /\ UNCHANGED <<keys, report>>
     \/ /\ Well
        /\ \E v \in 1..seen :
             /\ VersionAt(k, v, seen)
             /\ report' = Reported(v)
        /\ keys' = keys \ {k}
  /\ UNCHANGED <<log, values, converted, mapper, threads, seen, lastRv>>

\* The mutex is taken (ExpireUnlocked, for a mutant, does not wait for it).
ExpireUnlocked ==
  /\ report # 0
  /\ fresh' = fresh \ {"schema", "crds"}
  /\ lastRv' = report
  /\ report' = 0
  /\ UNCHANGED <<log, cache, converted, lock, got, mapper, threads, seen, keys, troubles>>

ExpireSchema ==
  /\ report # 0 /\ lock = "free"
  /\ fresh' = fresh \ {"schema", "crds"}
  /\ lastRv' = report
  /\ report' = 0
  /\ UNCHANGED <<log, cache, converted, lock, got, mapper, threads, seen, keys, troubles>>

-----------------------------------------------------------------------------
Next ==
  \/ \E c \in Change : ChangeCRD(c)
  \/ \E v \in Values : Elapse(v)
  \/ \E t \in Threads : Check(t) \/ InRun(t)
  \/ CheckOfREST
  \/ Deliver
  \/ \E k \in Kinds : Reconcile(k)
  \/ ExpireSchema

Spec == Init /\ [][Next]_vars

-----------------------------------------------------------------------------
(* What ExpiringList promises to the threads.                              *)

Expiring == INSTANCE ExpiringList WITH
  Readers <- Threads,
  now     <- Len(log),
  floor   <- lastRv,
  newest  <- cache["crds"],
  asked   <- [t \in Threads |-> used[t].since],
  served  <- [t \in Threads |-> IF pc[t] = "convert" THEN used[t].crds ELSE 0]

-----------------------------------------------------------------------------
(* Properties.                                                             *)

\* Every variable has its type; only a thread that waits for a response holds
\* the mutex.
TypeOK ==
  /\ log \in Seq(Change) /\ Len(log) \in 1..MaxRv
  /\ cache \in [Values -> 0..MaxRv] /\ fresh \subseteq Values
  /\ converted \in [Kinds -> 0..MaxRv]
  /\ lock \in Threads \cup {"free"} /\ got \in 0..MaxRv
  /\ lock # "free" => pc[lock] \in {"schema", "resources", "object"}
  /\ mapper \in 0..MaxRv
  /\ pc \in [Threads -> PCs] /\ used \in [Threads -> Reads]
  /\ seen \in 0..Len(log) /\ keys \subseteq Kinds
  /\ lastRv \in 0..Len(log) /\ report \in 0..Len(log)
  /\ troubles \in 0..MaxTroubles

\* The CRDs an object is rendered with are no older than the last change the
\* CRD controller had reset the cache for when the run asked for them, also
\* when the list was already on its way as the change was reported.
PickedUp == \A t \in Threads : pc[t] = "convert" => used[t].crds >= used[t].since

\* The threads share the mutex-guarded list as if it were read in one step:
\* whoever asks later gets no older one, though a response may be on its way
\* while changes are reported, and no reset is for an older change.
ImplementsExpiringList == Expiring!Spec

\* A list of CRDs that is held for current has every change that the CRD
\* controller has seen, unless the key of that CRD is still queued: changes
\* that are handled late may be dropped, a deletion may not, and only that of
\* a CRD which is gone is never dealt with (CRDReconciler.Reconcile).
NothingMissed ==
  report = 0 /\ "crds" \in fresh =>
    \A v \in 1..seen : log[v].kind \notin keys => cache["crds"] >= v

\* The fields of an object are converted by a version of its kind that is no
\* older than the last one the cache was reset for.  The code keeps the first.
ConversionsPickedUp ==
  \A t \in Threads : pc[t] = "rendered" /\ used[t].version # 0 =>
    \A v \in 1..used[t].since :
      VersionAt(used[t].kind, v, used[t].since) => used[t].version >= v

\* A run applies its objects with a mapper that knows what its schema knows.
SameInformation ==
  \A t \in Threads : pc[t] = "rendered" /\ mapper # 0 => mapper >= used[t].schema
=============================================================================
