--------------------------- MODULE RESTReconciler ---------------------------
(***************************************************************************)
(* The REST controller (src/controllers/rest_controller.go and             *)
(* src/k8s/rest_manager.go) for one cluster-scoped REST object.            *)
(*                                                                         *)
(* A REST object makes the operator keep a resource on a remote HTTP       *)
(* server: an "update" request when the object's generation has not been   *)
(* seen, a "remove" request when the object is being deleted.  The         *)
(* operator guards the removal with a finalizer and writes what it did     *)
(* (the generation, and fields of the response such as the resource's id)  *)
(* to the object's status.                                                 *)
(*                                                                         *)
(* The API server is modelled by the history `log' of the object: log[i]   *)
(* is the object at resourceVersion i and the last entry is the current    *)
(* one.  Writes are optimistic: they carry the resourceVersion they were   *)
(* read at.  ControllerClient.Get reads the informer's cache, which is     *)
(* some earlier entry of the log.  One worker reconciles the object.       *)
(***************************************************************************)
EXTENDS Naturals, Sequences, FiniteSets

CONSTANTS
  MaxGen,           \* bound: generations that edits of the spec can reach
  MaxSteps,         \* backoff.Steps of the two write loops (10 in the code)
  MaxFaults,        \* bound: requests, to either server, that fail
  MaxCrashes,       \* bound: restarts of the operator
  MaxStaleResyncs,  \* bound: periodic resyncs that find the cache lagging
  UrlForms          \* which of the two actions have a URL: a set of
                    \* records [update: BOOLEAN, remove: BOOLEAN]

ASSUME BoundsAssumption ==
  /\ MaxGen \in Nat \ {0}
  /\ MaxSteps \in Nat \ {0}
  /\ MaxFaults \in Nat
  /\ MaxCrashes \in Nat
  /\ MaxStaleResyncs \in Nat

ASSUME UrlFormsAssumption == UrlForms \subseteq [update: BOOLEAN, remove: BOOLEAN]

VARIABLES
  log,       \* the API server's versions of the object, oldest first
  cached,    \* the version the informer's cache holds
  queued,    \* the object's key is in the work queue
  pc,        \* where the worker is in Reconcile
  rest,      \* the worker's copy: [rv, ver]
  upd,       \* statusUpdates: [obs, id]
  steps,     \* backoff.Steps of the running write loop
  live,      \* ids of the resources that exist on the remote server
  nextId,    \* the id the remote server gives to the next new resource
  accepted,  \* history: generations an update request was accepted for
  removed,   \* history: a remove request has returned without error
  reported,  \* history: generations counted as a successful run
  urls,      \* the URLs the object defines, an element of UrlForms
  faults, crashes, staleResyncs   \* what was used of the bounds

apiVars  == <<log>>
workVars == <<pc, rest, upd, steps>>
remote   == <<live, nextId>>
history  == <<accepted, removed, reported>>
bounds   == <<faults, crashes, staleResyncs>>
vars == <<log, cached, queued, pc, rest, upd, steps, live, nextId,
          accepted, removed, reported, urls, faults, crashes, staleResyncs>>

-----------------------------------------------------------------------------
(* Data.  obs is status.observedGeneration and id the status field that    *)
(* update.status fills from the response; 0 stands for an empty field and  *)
(* for a value that names no resource.                                     *)

Version == [present: BOOLEAN, gen: 1..(MaxGen + 1), deleting: BOOLEAN,
            own: BOOLEAN, foreign: BOOLEAN, obs: 0..(MaxGen + 1), id: Nat]

PCs == {"idle", "finalize", "send", "status", "refetchStatus",
        "remove", "release", "refetchRelease"}

Latest == log[Len(log)]

\* What the API server keeps of an object written as v: one that is being
\* deleted and has lost its last finalizer is gone.
Stored(v) ==
  [v EXCEPT !.present = v.present /\ ~(v.deleting /\ ~v.own /\ ~v.foreign)]

Write(v) == log' = Append(log, Stored(v))

\* The optimistic check of a write: the copy is the current version.
Current == rest.rv = Len(log) /\ Latest.present

\* The write is refused with objectModifiedError.
Conflict == rest.rv # Len(log) /\ Latest.present

SameGenerationAny(v) == v.obs # 0
SameGeneration(v) == v.obs = v.gen

\* addStatusUpdates: the status fields of v after statusUpdates u.
MergeStampsCopy(v, u) == [v EXCEPT !.obs = v.gen, !.id = u.id]
MergeResets(v, u) ==
  [v EXCEPT !.obs = IF v.gen = u.obs THEN u.obs ELSE 0, !.id = u.id]
Merge(v, u) == [v EXCEPT !.obs = u.obs, !.id = u.id]

NoUpdates == [obs |-> 0, id |-> 0]

\* The write loops go on while backoff.Steps > 0, tested after a decrement.
StepsLeftOffByOne == steps >= 0
StepsLeft == steps > 1

\* backoff.Step counts an attempt, also one that met a conflict.
BackoffStepConflictFree == IF Conflict THEN steps ELSE steps - 1
BackoffStep == steps - 1

\* Between two runs the worker holds no copy.
NoCopy == [rv |-> 0, ver |-> log[1]]

\* A write of the worker that the API server carries out.  One that changes
\* nothing makes no new version.
CarryOut(v) ==
  /\ Current
  /\ IF v = Latest THEN UNCHANGED log ELSE Write(v)

\* A request to either server fails, before or after it was carried out.
Fault == faults < MaxFaults /\ faults' = faults + 1
NoFault == faults' = faults

Init ==
  /\ \E foreign \in BOOLEAN :
       log = << [present |-> TRUE, gen |-> 1, deleting |-> FALSE, own |-> FALSE,
                 foreign |-> foreign, obs |-> 0, id |-> 0] >>
  /\ cached = 1
  /\ queued = TRUE
  /\ pc = "idle"
  /\ rest = NoCopy
  /\ upd = NoUpdates
  /\ steps = 0
  /\ live = {}
  /\ nextId = 1
  /\ accepted = {}
  /\ removed = FALSE
  /\ reported = {}
  /\ urls \in UrlForms
  /\ faults = 0 /\ crashes = 0 /\ staleResyncs = 0

-----------------------------------------------------------------------------
(* Users and the API server.                                               *)

\* A user edits the spec.
Edit ==
  /\ Latest.present /\ Latest.gen < MaxGen
  /\ Write([Latest EXCEPT !.gen = @ + 1])
  /\ UNCHANGED <<cached, queued, workVars, remote, history, urls, bounds>>

\* A user deletes the object: it goes at once when it has no finalizer,
\* else it is marked, which counts as a new generation.
Delete ==
  /\ Latest.present /\ ~Latest.deleting
  /\ Write([Latest EXCEPT !.deleting = TRUE, !.gen = @ + 1])
  /\ UNCHANGED <<cached, queued, workVars, remote, history, urls, bounds>>

\* Somebody else's finalizer is removed.
ReleaseForeign ==
  /\ Latest.present /\ Latest.foreign
  /\ Write([Latest EXCEPT !.foreign = FALSE])
  /\ UNCHANGED <<cached, queued, workVars, remote, history, urls, bounds>>

\* The informer learns the next version and enqueues the object.
Deliver ==
  /\ cached < Len(log)
  /\ cached' = cached + 1
  /\ queued' = TRUE
  /\ UNCHANGED <<log, workVars, remote, history, urls, bounds>>

\* The manager's SyncPeriod enqueues every object of the cache.
Resync ==
  /\ ~queued
  /\ log[cached].present
  /\ IF cached = Len(log)
       THEN UNCHANGED staleResyncs
       ELSE staleResyncs < MaxStaleResyncs /\ staleResyncs' = staleResyncs + 1
  /\ queued' = TRUE
  /\ UNCHANGED <<log, cached, workVars, remote, history, urls, faults, crashes>>

\* The run ends, and the worker forgets its local variables.
Return ==
  /\ pc' = "idle"
  /\ rest' = NoCopy
  /\ upd' = NoUpdates
  /\ steps' = 0

\* The operator dies and starts again: the new cache is filled by a list.
Crash ==
  /\ crashes < MaxCrashes
  /\ crashes' = crashes + 1
  /\ Return
  /\ queued' = TRUE
  /\ cached' = Len(log)
  /\ UNCHANGED <<log, remote, history, urls, faults, staleResyncs>>

-----------------------------------------------------------------------------
(* The worker: Reconcile, cut at its requests.                             *)

\* Where Reconcile goes with the object it has read.  The first four are
\* what it would be with a step left out, or with one too many.
BranchReplaces(v) ==
  CASE v.deleting \/ (v.own /\ v.obs # 0 /\ ~SameGeneration(v)) -> "remove"
    [] ~v.deleting /\ ~v.own -> "finalize"
    [] ~v.deleting /\ v.own /\ v.obs = 0 -> "send"
    [] OTHER -> "idle"
BranchUnguarded(v) ==
  CASE v.deleting -> "remove"
    [] ~v.deleting /\ ~SameGeneration(v) -> "send"
    [] OTHER -> "idle"
BranchHeldUp(v) ==
  CASE v.deleting /\ v.own -> "remove"
    [] ~v.deleting /\ ~v.own -> "finalize"
    [] (v.deleting # v.own) /\ ~SameGeneration(v) -> "send"
    [] OTHER -> "idle"
BranchNothingSent(v) ==
  CASE v.deleting /\ v.obs # 0 -> "remove"
    [] ~v.deleting /\ ~v.own -> "finalize"
    [] ~v.deleting /\ v.own /\ ~SameGeneration(v) -> "send"
    [] OTHER -> "idle"
Branch(v) ==
  CASE v.deleting -> "remove"
    [] ~v.deleting /\ ~v.own -> "finalize"
    [] ~v.deleting /\ v.own /\ ~SameGeneration(v) -> "send"
    [] OTHER -> "idle"

\* The key is taken from the queue and the object read from the cache.  An
\* object that is not there is left alone; one whose generation was seen
\* needs no request and its status does not change: the run is a success.
Begin ==
  /\ pc = "idle" /\ queued
  /\ queued' = FALSE
  /\ LET v == log[cached]
         next == IF v.present THEN Branch(v) ELSE "idle"
     IN /\ pc' = next
        /\ rest' = IF next = "idle" THEN NoCopy ELSE [rv |-> cached, ver |-> v]
        /\ reported' = IF v.present /\ next = "idle"
                         THEN reported \cup {v.gen} ELSE reported
  /\ UNCHANGED <<log, cached, upd, steps, remote, accepted, removed, urls, bounds>>

\* The run ends with an error: the key is enqueued again, after a delay.
\* (RetryNever, for a mutant, leaves it to the resync.)
RetryNever == Return /\ UNCHANGED queued
Retry == Return /\ queued' = TRUE

WriteFinalizer == CarryOut([Latest EXCEPT !.own = TRUE])

\* The finalizer is added with a single write that is not retried.
AddFinalizer ==
  /\ pc = "finalize"
  /\ \/ /\ NoFault
        /\ WriteFinalizer
        /\ Return
        /\ UNCHANGED queued
     \/ /\ ~Current /\ NoFault
        /\ Retry
        /\ UNCHANGED log
     \/ /\ Fault
        /\ Retry
        /\ UNCHANGED log \/ WriteFinalizer
  /\ UNCHANGED <<cached, remote, history, urls, crashes, staleResyncs>>

\* The remote server handles an update request: it changes the resource the
\* request names if there is one, else it makes a new one.
Serve(id) ==
  IF id \in live
    THEN UNCHANGED remote
    ELSE live' = live \cup {nextId} /\ nextId' = nextId + 1

Answer(id) == IF id \in live THEN id ELSE nextId

\* RESTManager.Update.  Without a URL no request is sent and yet no error is
\* returned (errors.Wrap of a nil error), so the generation counts as done.
\* A request may also fail after the server has handled it.
SendUpdate ==
  /\ pc = "send"
  /\ \/ /\ urls.update /\ NoFault
        /\ Serve(rest.ver.id)
        /\ accepted' = accepted \cup {rest.ver.gen}
        /\ upd' = [obs |-> rest.ver.gen, id |-> Answer(rest.ver.id)]
        /\ rest' = [rest EXCEPT !.ver = Merge(@, upd')]
        /\ pc' = "status" /\ steps' = MaxSteps
        /\ UNCHANGED queued
     \/ /\ ~urls.update /\ NoFault
        /\ upd' = [obs |-> rest.ver.gen, id |-> 0]
        /\ rest' = [rest EXCEPT !.ver = Merge(@, upd')]
        /\ pc' = "status" /\ steps' = MaxSteps
        /\ UNCHANGED <<queued, remote, accepted>>
     \/ /\ Fault /\ Retry
        /\ UNCHANGED <<remote, accepted>>
     \/ /\ urls.update /\ Fault /\ Retry
        /\ Serve(rest.ver.id)
        /\ accepted' = accepted \cup {rest.ver.gen}
  /\ UNCHANGED <<log, cached, removed, reported, urls, crashes, staleResyncs>>

\* updateStatus returns nil: the run is counted as successful.
ReportSuccess == reported' = reported \cup {upd.obs}

WriteStatus == CarryOut(Merge(Latest, upd))

\* One attempt of updateStatus.  After one that failed though the API server
\* carried it out the next meets a conflict with it.  When the attempts are
\* used up the loop's error is lost (it is declared again inside the loop)
\* and nil is returned.
AttemptStatus ==
  /\ pc = "status"
  /\ \/ /\ NoFault
        /\ WriteStatus
        /\ Return /\ ReportSuccess
     \/ /\ Conflict /\ NoFault
        /\ pc' = "refetchStatus" /\ steps' = BackoffStep
        /\ UNCHANGED <<log, rest, upd, reported>>
     \/ /\ \/ ~Latest.present /\ NoFault /\ UNCHANGED log
           \/ Fault /\ (UNCHANGED log \/ WriteStatus)
        /\ IF StepsLeft
             THEN /\ steps' = BackoffStep
                  /\ UNCHANGED <<pc, rest, upd, reported>>
             ELSE Return /\ ReportSuccess
  /\ UNCHANGED <<cached, queued, remote, accepted, removed, urls, crashes, staleResyncs>>

\* After a conflict the object is read again, from the cache, and the status
\* fields are merged into the new copy.
RefetchStatus ==
  /\ pc = "refetchStatus"
  /\ \/ /\ ~log[cached].present
        /\ Retry /\ UNCHANGED reported
     \/ /\ log[cached].present /\ steps > 0
        /\ rest' = [rv |-> cached, ver |-> Merge(log[cached], upd)]
        /\ pc' = "status"
        /\ UNCHANGED <<upd, steps, queued, reported>>
     \/ /\ log[cached].present /\ steps = 0
        /\ Return /\ ReportSuccess
        /\ UNCHANGED queued
  /\ UNCHANGED <<log, cached, remote, accepted, removed, urls, bounds>>

\* RESTManager.Delete.  The request is templated from the worker's copy; the
\* remote server takes the removal of a resource it does not have as done.
SendRemove ==
  /\ pc = "remove"
  /\ \/ /\ NoFault
        /\ live' = IF urls.remove THEN live \ {rest.ver.id} ELSE live
        /\ removed' = TRUE
        /\ rest' = [rest EXCEPT !.ver.own = FALSE]
        /\ pc' = "release" /\ steps' = MaxSteps
        /\ UNCHANGED <<upd, queued>>
     \/ /\ Fault /\ Retry
        /\ UNCHANGED <<live, removed>>
     \/ /\ urls.remove /\ Fault /\ Retry
        /\ live' = live \ {rest.ver.id}
        /\ UNCHANGED removed
  /\ UNCHANGED <<log, cached, nextId, accepted, reported, urls, crashes, staleResyncs>>

WriteRelease == CarryOut([Latest EXCEPT !.own = rest.ver.own])

\* One attempt of removeFinalizers.  When the attempts are used up nil is
\* returned as well.
AttemptRelease ==
  /\ pc = "release"
  /\ \/ /\ NoFault
        /\ WriteRelease
        /\ Return
     \/ /\ Conflict /\ NoFault
        /\ pc' = "refetchRelease" /\ steps' = BackoffStep
        /\ UNCHANGED <<log, rest, upd>>
     \/ /\ \/ ~Latest.present /\ NoFault /\ UNCHANGED log
           \/ Fault /\ (UNCHANGED log \/ WriteRelease)
        /\ IF StepsLeft
             THEN steps' = BackoffStep /\ UNCHANGED <<pc, rest, upd>>
             ELSE Return
  /\ UNCHANGED <<cached, queued, remote, history, urls, crashes, staleResyncs>>

RefetchRelease ==
  /\ pc = "refetchRelease"
  /\ \/ /\ ~log[cached].present
        /\ Retry
     \/ /\ log[cached].present /\ steps > 0
        /\ rest' = [rv |-> cached, ver |-> [log[cached] EXCEPT !.own = FALSE]]
        /\ pc' = "release"
        /\ UNCHANGED <<upd, steps, queued>>
     \/ /\ log[cached].present /\ steps = 0
        /\ Return
        /\ UNCHANGED queued
  /\ UNCHANGED <<log, cached, remote, history, urls, bounds>>

-----------------------------------------------------------------------------
Worker ==
  \/ Begin \/ AddFinalizer
  \/ SendUpdate \/ AttemptStatus \/ RefetchStatus
  \/ SendRemove \/ AttemptRelease \/ RefetchRelease

Environment == Edit \/ Delete \/ ReleaseForeign \/ Deliver \/ Resync \/ Crash

Next == Worker \/ Environment

Spec == Init /\ [][Next]_vars

\* The worker is scheduled, watch events arrive, and the resync timer fires.
Fairness == WF_vars(Worker) /\ WF_vars(Deliver) /\ WF_vars(Resync)

FairSpec == Spec /\ Fairness

-----------------------------------------------------------------------------
(* The obligation towards the remote server that RemoteObligation states.  *)

object == CASE ~Latest.present -> "absent"
            [] Latest.present /\ ~Latest.own -> "plain"
            [] OTHER -> "guarded"

debt == CASE removed -> "settled"
          [] ~removed /\ accepted # {} -> "owed"
          [] OTHER -> "none"

Obligation == INSTANCE RemoteObligation

\* Every step of the controller, its users and its failures is a step of the
\* abstract obligation, or none: no request is sent for an object without
\* the finalizer and no finalizer goes before the remove request returned.
ImplementsObligation == Obligation!Spec

-----------------------------------------------------------------------------
(* Properties                                                              *)

ObjectOK ==
  /\ log \in Seq(Version) /\ Len(log) > 0
  /\ cached \in 1..Len(log)
  /\ queued \in BOOLEAN

WorkerOK ==
  /\ pc \in PCs
  /\ rest \in [rv: 0..Len(log), ver: Version]
  /\ upd \in [obs: 0..(MaxGen + 1), id: Nat]
  /\ steps \in 0..MaxSteps

RemoteOK ==
  /\ live \subseteq Nat /\ nextId \in Nat
  /\ accepted \subseteq 1..(MaxGen + 1)
  /\ removed \in BOOLEAN
  /\ reported \subseteq 0..(MaxGen + 1)
  /\ urls \in [update: BOOLEAN, remove: BOOLEAN]

BoundsOK ==
  /\ faults \in 0..MaxFaults
  /\ crashes \in 0..MaxCrashes
  /\ staleResyncs \in 0..MaxStaleResyncs

\* The variables have their types; the worker's copy is of a version that
\* exists and its write loops never run past their last attempt.
TypeOK == ObjectOK /\ WorkerOK /\ RemoteOK /\ BoundsOK

\* From the first update request the remote server accepts until a remove
\* request has returned, the object exists and carries the operator's
\* finalizer: whatever the server holds, a removal is still owed for it
\* (Reconcile lines 122-143, removeFinalizers).
FinalizerHeld ==
  accepted # {} /\ ~removed => Latest.present /\ Latest.own

\* A generation recorded as observed was accepted by the remote server, also
\* when the record was merged into a newer copy after a conflict
\* (RESTManager.Update, updateStatus).
RecordedWasSent ==
  \A i \in DOMAIN log : log[i].obs # 0 => log[i].obs \in accepted

\* The generation recorded in the status never goes back, although the
\* status is written from stale copies (updateStatus).
ObservedMonotone ==
  \A i, j \in DOMAIN log : i <= j => log[i].obs <= log[j].obs

\* While nobody has deleted the object, every id that its status ever had
\* names a resource that exists: nothing is removed that an older copy, or a
\* status that is still to be written, refers to (updateStatus, Delete).
StatusNamesResource ==
  ~Latest.deleting => \A i \in DOMAIN log : log[i].id # 0 => log[i].id \in live

\* There is something to do for the object.
Needs(v) ==
  /\ v.present
  /\ IF v.deleting THEN v.own ELSE ~v.own \/ ~SameGeneration(v)

\* No object is left for the resync to find: when its key is not queued and
\* the cache is up to date there is nothing to do for it, although a run that
\* used up its attempts ends without an error.  The one excuse is that as
\* many requests failed as a write loop has attempts; conflicts, stale reads
\* and restarts are none (the returns of updateStatus and of removeFinalizers).
NothingForgotten ==
  faults < MaxSteps /\ pc = "idle" /\ ~queued /\ cached = Len(log) => ~Needs(Latest)

\* How many more requests a run can make, to the API server, the cache or
\* the remote server.
Left ==
  CASE pc = "idle" -> 0
    [] pc = "finalize" -> 1
    [] pc \in {"status", "release"} -> 2 * steps
    [] pc \in {"refetchStatus", "refetchRelease"} -> 2 * steps + 1
    [] OTHER -> 2 * MaxSteps + 1

\* Every step of a run leaves it fewer requests, so that one worker is never
\* kept by one object: conflicts do not start the attempts anew, whatever
\* users write meanwhile (the loops of updateStatus and removeFinalizers).
RunGetsOn ==
  [][pc # "idle" /\ (Worker \/ workVars' # workVars) => Left' < Left]_vars

\* Once a remove request has returned, no run makes a new resource on the
\* remote server: no stale copy of the object leads back to an update.
NothingCreatedAfterRemove ==
  [][removed => live' \subseteq live]_vars

\* An object that stays has its last generation sent and recorded in the end:
\* lost answers, conflicts and restarts are all made up for.
Converges == <>[](Latest.present /\ ~Latest.deleting => Latest.obs = Latest.gen)

\* A deleted object that only the operator's finalizer holds goes away.
DeletionCompletes ==
  Latest.deleting /\ ~Latest.foreign ~> ~Latest.present

\* A generation counted as a successful run is recorded in the status, unless
\* the object went away ("Total successful rest runs count", and the error
\* that updateStatus returns at its end).
SuccessMeansRecorded ==
  \A g \in reported : ~Latest.present \/ \E i \in DOMAIN log : log[i].obs = g

\* The resource the status names is not left behind on the remote server when
\* the object is gone (test/e2e.go expects the delete to name the id that the
\* update returned).
NothingLeftBehind ==
  ~Latest.present /\ Latest.id # 0 => Latest.id \notin live
=============================================================================
