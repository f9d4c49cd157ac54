-------------------------- MODULE TemplateManager --------------------------
(***************************************************************************)
(* The template controller (src/controllers/template_controller.go,        *)
(* src/k8s/template_manager.go, src/k8s/watcher.go) for one Template.      *)
(*                                                                         *)
(* Two threads handle the Template's source objects.  The controller's     *)
(* worker lists the sources and handles them one after the other (Run);    *)
(* the informer that the watcher started handles the snapshot of every     *)
(* change of a source (reconcileObject).  Both run HandleSource: patch the *)
(* source, then for every object rendered from the snapshot check what it  *)
(* depends on, apply it and look whether it is ready, and at the end write *)
(* a condition to the source.  Each request to the API server is a step.   *)
(*                                                                         *)
(* A source is known by its revision, which stands for its content, and an *)
(* object by the revision it was rendered from.                            *)
(***************************************************************************)
EXTENDS Naturals, Sequences, Functions

CONSTANTS
  NumSources,      \* the sources that match the template's selector
  MaxRev,          \* bound: the revisions of a source that users write
  Ids,             \* the objects a source can give rise to
  Deps,            \* Deps[i]: the ids in the "depends" field of i, in order
  Trivial,         \* objects of a kind for which IsTrivialType holds
  Renderings,      \* Renderings[r]: the lists of objects that revision r may
                   \* be rendered to; none when the template fails on it
  Copies,          \* the copies in other namespaces, applied after those
  Patches,         \* the template has patches
  Onceoff,         \* template.Spec.Onceoff
  MaxTroubles      \* bound: requests that fail, objects that somebody else
                   \* breaks or deletes, and restarts of the operator, together

Sources == 1..NumSources

ASSUME BoundsAssumption ==
  NumSources \in Nat /\ MaxRev \in Nat \ {0} /\ MaxTroubles \in Nat

ASSUME TemplateAssumption ==
  /\ Deps \in [Ids -> Seq(Ids)]
  /\ Trivial \subseteq Ids
  /\ \A r \in 1..MaxRev : Renderings[r] \subseteq Seq(Ids)
  /\ Copies \in Seq({i \in Ids : Deps[i] = <<>>})
  /\ \A i \in Ids : Range(Deps[i]) \cap Range(Copies) = {}
  /\ Patches \in BOOLEAN /\ Onceoff \in BOOLEAN

VARIABLES
  src,       \* src[s]: the source at the API server
  obj,       \* obj[s][i]: the object i rendered from source s
  queued,    \* the template's key is in the work queue
  watch,     \* the informer of this template and kind
  events,    \* events[s]: the changes of s the informer has yet to hand over
  pc,        \* pc[w]: where thread w is
  job,       \* job[w]: its local variables
  wasReady,  \* history: wasReady[s]: the objects of s that were ready once
  troubles   \* what was used of the bound

cluster == <<src, obj, wasReady>>
threads == <<pc, job>>
vars == <<src, obj, queued, watch, events, pc, job, wasReady, troubles>>

-----------------------------------------------------------------------------
(* Data.  rev 0 is an object that does not exist; mark is the annotation   *)
(* that markApplied sets together with the patches.                        *)

Source == [rev: 0..MaxRev, mark: BOOLEAN, cond: {"none", "NotReady", "Ready"}]
Object == [rev: 0..MaxRev, ready: BOOLEAN]
Snapshot == [rev: 0..MaxRev, mark: BOOLEAN]

Absent == [rev |-> 0, ready |-> FALSE]

Threads == {"worker", "informer"}
PCs == {"idle", "list", "patch", "depend", "apply", "refresh", "condition"}

\* The local variables of Run and HandleSource: the snapshots to handle (rev 0
\* where there is none) and the source it is at; the list rendered from that
\* source's snapshot, the positions in the list and in the dependencies of its
\* k-th object, isSourceReady, and whether the result asks to be requeued.
Job == [list: [Sources -> Snapshot], at: 0..NumSources, plan: Seq(Ids),
        k: Nat \ {0}, d: Nat \ {0}, ok: BOOLEAN, requeue: BOOLEAN]

Nothing == [s \in Sources |-> [rev |-> 0, mark |-> FALSE]]

Start(list, s) == [list |-> list, at |-> s, plan |-> <<>>, k |-> 1, d |-> 1,
                   ok |-> TRUE, requeue |-> FALSE]

NoJob == Start(Nothing, 0)

Seen(v) == [rev |-> v.rev, mark |-> v.mark]

At(w)   == job[w].at
Read(w) == job[w].list[At(w)]
Item(w) == job[w].plan[job[w].k]

Trouble == troubles < MaxTroubles /\ troubles' = troubles + 1
Fault == Trouble
NoFault == troubles' = troubles

\* A source that changed is told to the informer.  The condition is not part
\* of what HandleSource reads: changes that differ in it only are one.
Notify(s, new) ==
  LET told == events[s]
  IN IF watch # "on" \/ (told # <<>> /\ told[Len(told)] = Seen(new))
       THEN UNCHANGED events
       ELSE events' = [events EXCEPT ![s] = Append(told, Seen(new))]

WriteSource(s, new) ==
  /\ src' = [src EXCEPT ![s] = new]
  /\ IF new = src[s] THEN UNCHANGED events ELSE Notify(s, new)

WriteObjectAnew(s, i, r) == obj' = [obj EXCEPT ![s][i] = [rev |-> r, ready |-> FALSE]]

\* An object that is applied unchanged stays as it is.
WriteObject(s, i, r) ==
  obj' = IF obj[s][i].rev = r THEN obj
         ELSE [obj EXCEPT ![s][i] = [rev |-> r, ready |-> FALSE]]

Init ==
  /\ src \in [Sources -> {[rev |-> r, mark |-> FALSE, cond |-> "none"] : r \in 0..1}]
  /\ obj = [s \in Sources |-> [i \in Ids |-> Absent]]
  /\ queued = TRUE
  /\ watch = "off"
  /\ events = [s \in Sources |-> <<>>]
  /\ pc = [w \in Threads |-> "idle"]
  /\ job = [w \in Threads |-> NoJob]
  /\ wasReady = [s \in Sources |-> {}]
  /\ troubles = 0

-----------------------------------------------------------------------------
(* Users, the controllers of the objects, and the informer's list.         *)

\* A user creates a source or changes it.
Edit(s) ==
  /\ src[s].rev < MaxRev
  /\ WriteSource(s, [src[s] EXCEPT !.rev = @ + 1])
  /\ UNCHANGED <<obj, queued, watch, threads, wasReady, troubles>>

\* The controller of an object's kind makes it ready.
BecomeReady(s, i) ==
  /\ obj[s][i].rev # 0 /\ ~obj[s][i].ready /\ i \notin Trivial
  /\ obj' = [obj EXCEPT ![s][i].ready = TRUE]
  /\ wasReady' = [wasReady EXCEPT ![s] = @ \cup {i}]
  /\ UNCHANGED <<src, queued, watch, events, threads, troubles>>

\* An object stops being ready, or somebody deletes it.
Disturb(s, i) ==
  /\ obj[s][i].rev # 0
  /\ Trouble
  /\ \/ obj[s][i].ready /\ obj' = [obj EXCEPT ![s][i].ready = FALSE]
     \/ obj' = [obj EXCEPT ![s][i] = Absent]
  /\ UNCHANGED <<src, queued, watch, events, threads, wasReady>>

\* The informer's first list: every source is handed over as added.
InformerList ==
  /\ watch = "starting"
  /\ watch' = "on"
  /\ events' = [s \in Sources |-> IF src[s].rev = 0 THEN <<>> ELSE <<Seen(src[s])>>]
  /\ UNCHANGED <<cluster, queued, threads, troubles>>

\* The manager's SyncPeriod enqueues the template again.
Resync ==
  /\ ~queued
  /\ queued' = TRUE
  /\ UNCHANGED <<cluster, watch, events, threads, troubles>>

\* The operator dies and starts again, without its informer.
Crash ==
  /\ Trouble
  /\ queued' = TRUE
  /\ watch' = "off"
  /\ events' = [s \in Sources |-> <<>>]
  /\ pc' = [w \in Threads |-> "idle"]
  /\ job' = [w \in Threads |-> NoJob]
  /\ UNCHANGED <<cluster>>

-----------------------------------------------------------------------------
(* HandleSource, for one thread.                                           *)

Goto(w, p, j) == pc' = [pc EXCEPT ![w] = p] /\ job' = [job EXCEPT ![w] = j]

\* HandleSource returns an error, and so does what called it.  The worker's
\* key is enqueued again; what the callback returns is only logged.
Fail(w) ==
  /\ Goto(w, "idle", NoJob)
  /\ queued' = (queued \/ w = "worker")

\* The thread is done.  Run returns the result of its last source, and the
\* callback drops it.
Finish(w, requeue) ==
  /\ Goto(w, "idle", NoJob)
  /\ queued' = (queued \/ (w = "worker" /\ requeue))

\* Where HandleSource goes for the k-th object of the list.
StageShort(j) == IF j.k >= Len(j.plan) THEN "condition"
                 ELSE IF Deps[j.plan[j.k]] = <<>> THEN "apply" ELSE "depend"
Stage(j) == IF j.k > Len(j.plan) THEN "condition"
            ELSE IF Deps[j.plan[j.k]] = <<>> THEN "apply" ELSE "depend"

Continue(w, j) == Goto(w, Stage(j), j) /\ UNCHANGED queued

NextItemSame(j) == [j EXCEPT !.d = 1]
NextItem(j) == [j EXCEPT !.k = @ + 1, !.d = 1]

\* The objects of a source, and after them its copies.
WithCopies(objs) == objs \o Copies

Lists(r) == {WithCopies(objs) : objs \in Renderings[r]}

\* getObjectsFromResources: the objects are rendered from the snapshot.
Render(w, j) ==
  LET lists == Lists(j.list[j.at].rev)
  IN \/ lists = {} /\ Fail(w)
     \/ \E objs \in lists : Continue(w, [j EXCEPT !.plan = objs])

NeedsPatchAnyMark(snap) == Patches /\ ~Onceoff
NeedsPatchAgain(snap) == Patches
NeedsPatch(snap) == Patches /\ (~Onceoff \/ ~snap.mark)

\* HandleSource is called for the first listed source after the at-th; when
\* there is none the thread is done.
HandleNext(w, list, at, requeue) ==
  LET left == {s \in Sources : s > at /\ list[s].rev # 0}
  IN \/ left = {} /\ Finish(w, requeue)
     \/ \E s \in left :
          /\ \A t \in left : s <= t
          /\ IF NeedsPatch(list[s])
               THEN Goto(w, "patch", Start(list, s)) /\ UNCHANGED queued
               ELSE Render(w, Start(list, s))

Patched(s, r) == WriteSource(s, [src[s] EXCEPT !.rev = r, !.mark = TRUE])

\* The patched snapshot is applied.  What is at the API server is replaced,
\* unless the request fails; it may, when the snapshot is out of date.
Patch(w) ==
  /\ pc[w] = "patch"
  /\ \/ /\ NoFault
        /\ Patched(At(w), Read(w).rev)
        /\ Render(w, job[w])
     \/ /\ (Seen(src[At(w)]) # Read(w) /\ NoFault) \/ Fault
        /\ Fail(w)
        /\ UNCHANGED <<src, events>>
     \/ Fault /\ Fail(w) /\ Patched(At(w), Read(w).rev)
  /\ UNCHANGED <<obj, watch, wasReady>>

\* What checkDependentObjects makes of one id: it is an error when no object
\* of the list has it, or the object does not exist; an object of a trivial
\* kind is not looked up.
VerdictPresent(s, objs, i) ==
  CASE i \notin Range(objs) -> "error"
    [] i \in Range(objs) /\ i \notin Trivial /\ obj[s][i].rev = 0 -> "error"
    [] OTHER -> "ready"
Verdict(s, objs, i) ==
  CASE i \notin Range(objs) -> "error"
    [] i \in Range(objs) /\ i \in Trivial -> "ready"
    [] i \in Range(objs) /\ i \notin Trivial /\ obj[s][i].rev = 0 -> "error"
    [] i \in Range(objs) /\ i \notin Trivial /\ obj[s][i].rev # 0 /\ obj[s][i].ready
         -> "ready"
    [] OTHER -> "waiting"

LastDepLate(j) == j.d > Len(Deps[j.plan[j.k]])
LastDep(j) == j.d = Len(Deps[j.plan[j.k]])

\* checkDependentObjects, for one dependency.  An object that has to wait is
\* skipped, and the result then asks for another run.
Depend(w) ==
  /\ pc[w] = "depend"
  /\ LET dep == Deps[Item(w)][job[w].d]
         verdict == Verdict(At(w), job[w].plan, dep)
     IN \/ /\ verdict = "ready" /\ NoFault
           /\ IF LastDep(job[w])
                THEN Goto(w, "apply", job[w])
                ELSE Goto(w, "depend", [job[w] EXCEPT !.d = @ + 1])
           /\ UNCHANGED queued
        \/ /\ verdict = "waiting" /\ NoFault
           /\ Continue(w, NextItem([job[w] EXCEPT !.requeue = TRUE]))
        \/ /\ (verdict = "error" /\ NoFault) \/ (dep \notin Trivial /\ Fault)
           /\ Fail(w)
  /\ UNCHANGED <<cluster, watch, events>>

\* The object is applied.  The request may fail after it was carried out.
Apply(w) ==
  /\ pc[w] = "apply"
  /\ \/ /\ NoFault
        /\ WriteObject(At(w), Item(w), Read(w).rev)
        /\ IF Item(w) \in Trivial
             THEN Continue(w, NextItem(job[w]))
             ELSE Goto(w, "refresh", job[w]) /\ UNCHANGED queued
     \/ Fault /\ Fail(w) /\ UNCHANGED obj
     \/ Fault /\ Fail(w) /\ WriteObject(At(w), Item(w), Read(w).rev)
  /\ UNCHANGED <<src, watch, events, wasReady>>

\* isSourceReady, after one more object was looked at.
StillReadyLast(ok, ready) == ready
StillReady(ok, ready) == ok /\ ready

\* isResourceReady of the object that was applied, which may be gone already.
Refresh(w) ==
  /\ pc[w] = "refresh"
  /\ LET o == obj[At(w)][Item(w)]
     IN \/ /\ o.rev # 0 /\ NoFault
           /\ Continue(w, NextItem([job[w] EXCEPT !.ok = StillReady(@, o.ready)]))
        \/ /\ (o.rev = 0 /\ NoFault) \/ Fault
           /\ Fail(w)
  /\ UNCHANGED <<cluster, watch, events>>

\* SetCondition, whose failure is only logged.
SetCondition(w) ==
  /\ pc[w] = "condition"
  /\ \/ /\ NoFault
        /\ LET s == At(w)
               value == IF job[w].ok THEN "Ready" ELSE "NotReady"
           IN WriteSource(s, [src[s] EXCEPT !.cond = value])
     \/ Fault /\ UNCHANGED <<src, events>>
  /\ HandleNext(w, job[w].list, At(w), job[w].requeue)
  /\ UNCHANGED <<obj, watch, wasReady>>

-----------------------------------------------------------------------------
(* What starts a thread.                                                   *)

\* The worker takes the key; the template itself does not change.
Reconcile ==
  /\ pc["worker"] = "idle" /\ queued
  /\ queued' = FALSE
  /\ Goto("worker", "list", NoJob)
  /\ UNCHANGED <<cluster, watch, events, troubles>>

\* Run lists the sources.  When there is one the watcher is asked for an
\* informer; what it returns is ignored, and it does not try again when it
\* failed.
Run ==
  /\ pc["worker"] = "list"
  /\ \/ Fault /\ Fail("worker") /\ UNCHANGED watch
     \/ LET list == [s \in Sources |-> Seen(src[s])]
            first == watch = "off" /\ list # Nothing
        IN /\ \/ NoFault /\ watch' = IF first THEN "starting" ELSE watch
              \/ first /\ Fault /\ watch' = "broken"
           /\ HandleNext("worker", list, 0, FALSE)
  /\ UNCHANGED <<cluster, events>>

\* The informer hands a change over.  The callback may fail on what it reads
\* before it comes to HandleSource; the change is gone then.
Callback ==
  /\ pc["informer"] = "idle"
  /\ \E s \in Sources :
       /\ events[s] # <<>>
       /\ events' = [events EXCEPT ![s] = Tail(@)]
       /\ \/ NoFault /\ HandleNext("informer", [Nothing EXCEPT ![s] = Head(events[s])], 0, FALSE)
          \/ Fault /\ Fail("informer")
  /\ UNCHANGED <<cluster, watch>>

-----------------------------------------------------------------------------
HandleSource(w) ==
  Patch(w) \/ Depend(w) \/ Apply(w) \/ Refresh(w) \/ SetCondition(w)

Worker == Reconcile \/ Run \/ HandleSource("worker")
Informer == Callback \/ HandleSource("informer")

Environment ==
  \/ \E s \in Sources : Edit(s)
  \/ \E s \in Sources, i \in Ids : BecomeReady(s, i) \/ Disturb(s, i)
  \/ InformerList \/ Resync \/ Crash

Next == Worker \/ Informer \/ Environment

Spec == Init /\ [][Next]_vars

\* Both threads are scheduled, the informer gets its list and the resync
\* timer fires.
Fairness ==
  WF_vars(Worker) /\ WF_vars(Informer) /\ WF_vars(InformerList) /\ WF_vars(Resync)

FairSpec == Spec /\ Fairness

\* Moreover every object is made ready when it exists for long enough.
HealthySpec ==
  FairSpec /\ \A s \in Sources, i \in Ids : WF_vars(BecomeReady(s, i))

-----------------------------------------------------------------------------
(* What GatedRollout promises, for the objects of all sources.             *)

present(s) == {i \in Ids : obj[s][i].rev # 0}

Objects == Sources \X Ids

Gates == [x \in Objects |->
            {<<x[1], i>> : i \in {Deps[x[2]][n] : n \in DOMAIN Deps[x[2]]} \ Trivial}]

Rollout == INSTANCE GatedRollout WITH
  created <- {x \in Objects : x[2] \in present(x[1])},
  settled <- {x \in Objects : x[2] \in wasReady[x[1]]}

-----------------------------------------------------------------------------
(* Properties                                                              *)

ClusterOK ==
  /\ src \in [Sources -> Source]
  /\ obj \in [Sources -> [Ids -> Object]]
  /\ wasReady \in [Sources -> SUBSET Ids]

ControllerOK ==
  /\ queued \in BOOLEAN
  /\ watch \in {"off", "starting", "on", "broken"}
  /\ events \in [Sources -> Seq(Snapshot)]

\* A thread at p with the local variables j: it is at a source that was
\* listed, and its positions in its lists are there.
Fits(p, j) ==
  /\ p \in PCs /\ j \in Job
  /\ p \in {"idle", "list"} <=> j.at = 0
  /\ j.at # 0 => j.list[j.at].rev # 0
  /\ p \in {"depend", "apply", "refresh"} => j.k \in DOMAIN j.plan
  /\ p = "depend" => j.d \in DOMAIN Deps[j.plan[j.k]]

ThreadsOK ==
  /\ DOMAIN pc = Threads /\ DOMAIN job = Threads
  /\ \A w \in Threads : Fits(pc[w], job[w])

\* The variables have their types and the threads their places.
TypeOK ==
  ClusterOK /\ ControllerOK /\ ThreadsOK /\ troubles \in 0..MaxTroubles

\* An object only exists when everything it depends on, but for objects of
\* trivial kinds, existed and was ready before, whichever thread made it and
\* whatever revision it was made from (checkDependentObjects).
DependenciesFirst ==
  \A s \in Sources : \A i \in present(s) :
    \A n \in DOMAIN Deps[i] : Deps[i][n] \in wasReady[s] \cup Trivial

\* A thread that is about to set the condition to Ready handles objects that
\* all were ready once, but for those it skipped, which have to wait for
\* others (isSourceReady): the condition claims nothing that never was.
ReadyIsEarned ==
  \A w \in Threads : pc[w] = "condition" /\ job[w].ok =>
    \A n \in DOMAIN job[w].plan :
      LET i == job[w].plan[n]
      IN i \in wasReady[At(w)] \cup Trivial \/ (job[w].requeue /\ Deps[i] # <<>>)

\* What the sources give rise to is created in the order of the dependencies.
ImplementsRollout == Rollout!Spec

\* What was read of s shows the mark it has, wherever it still is to be used:
\* in the lists of the threads and in the changes to hand over.
MarkSeen(s) ==
  /\ src[s].mark
  /\ \A w \in Threads : job[w].list[s].rev # 0 => job[w].list[s].mark
  /\ \A n \in DOMAIN events[s] : events[s][n].mark

\* With patches that are for once only, edits stand: when everybody has seen
\* the mark of a source that is how it stays, and no thread, however late,
\* puts an older snapshot back in place of what users wrote (alreadyApplied).
OnceoffSettles ==
  [][\A s \in Sources : Onceoff /\ MarkSeen(s) =>
       MarkSeen(s)' /\ src'[s].rev >= src[s].rev]_vars

\* The order in which HandleSource handles an object.
Order == [patch |-> 1, depend |-> 2, apply |-> 3, refresh |-> 4, condition |-> 5]

\* Thread w is further on its way through the sources, the objects of the
\* source, and what there is to do for the object.
Further(w) ==
  LET j == job[w] IN LET q == job'[w] IN
  \/ q.at > j.at
  \/ q.at = j.at /\ q.k > j.k
  \/ q.at = j.at /\ q.k = j.k /\ Order[pc'[w]] > Order[pc[w]]
  \/ q.at = j.at /\ q.k = j.k /\ pc'[w] = pc[w] /\ q.d > j.d

\* A pass over the sources ends: what it goes through is settled when it comes
\* there, the sources at its start and the objects of a source after the
\* patches, and each of its steps ends it or brings it further, whatever the
\* other thread, users and failures do meanwhile (Run, HandleSource).
PassGetsOn ==
  [][\A w \in Threads : pc[w] # "idle" =>
       \/ UNCHANGED <<pc[w], job[w]>>
       \/ pc'[w] = "idle"
       \/ /\ Further(w)
          /\ pc[w] # "list" => job'[w].list = job[w].list
          /\ pc[w] # "patch" /\ At(w)' = At(w) => job'[w].plan = job[w].plan]_vars

\* Source s has settled: its condition is Ready, its objects are those of its
\* revision and ready, and nobody holds, or is still to be told of, another
\* revision, or takes it for not ready.
Rests(s) ==
  /\ src[s].rev # 0 /\ src[s].cond = "Ready"
  /\ \A objs \in Lists(src[s].rev) : \A i \in Range(objs) :
       obj[s][i].rev = src[s].rev /\ (i \in Trivial \/ obj[s][i].ready)
  /\ \A w \in Threads :
       job[w].list[s].rev \in {0, src[s].rev} /\ (At(w) = s => job[w].ok)
  /\ \A n \in DOMAIN events[s] : events[s][n].rev = src[s].rev

\* A source that has settled stays so: passing over it again, by whichever
\* thread, whatever fails on the way and however often the operator restarts,
\* neither makes its objects anew nor takes the condition back.  Only an edit
\* and somebody who breaks its objects do (Run, HandleSource, apply).
SettledStays ==
  [][\A s \in Sources : Rests(s) =>
       Rests(s)' \/ Edit(s) \/ \E i \in Ids : Disturb(s, i)]_vars

\* Every source settles with the objects of its last revision, ready, and the
\* condition that says so: failed requests, changes that were dropped, stale
\* snapshots that a slow thread applied late, objects that somebody broke and
\* restarts are all made up for.
Converges ==
  <>[](\A s \in Sources : src[s].rev # 0 =>
         /\ src[s].cond = "Ready"
         /\ \E objs \in Lists(src[s].rev) : \A i \in Range(objs) :
              obj[s][i].rev = src[s].rev /\ (i \in Trivial \/ obj[s][i].ready))

\* An object that depends on no other gets created, whatever becomes of the
\* others (test/fixtures/depends-on.yaml).
IndependentCreated ==
  \A s \in Sources : src[s].rev # 0 ~>
    /\ src[s].rev # 0
    /\ \A objs \in Lists(src[s].rev) : \A i \in Range(objs) :
         Deps[i] = <<>> => obj[s][i].rev # 0

\* With patches, objects are only made from a source that has been patched:
\* no thread skips the patches on a mark that is not there (HandleSource).
PatchedFirst == \A s \in Sources : Patches /\ present(s) # {} => src[s].mark
=============================================================================
