----------------------- MODULE TemplateManagerProofs -----------------------
(***************************************************************************)
(* Proofs about TemplateManager, for every template, every rendering and   *)
(* every value of its bounds.                                              *)
(***************************************************************************)
EXTENDS TemplateManager, SequenceTheorems, TLAPS

-----------------------------------------------------------------------------
(* The inductive invariant.  What a thread knows is stated for a value S   *)
(* of the sources and R of the objects that were ready, so that it can be  *)
(* said of this state and of the next.                                     *)

\* What an object may rely on: what was ready once and what is trivial.
Met(R, s) == R[s] \cup Trivial

\* The patch mark of a snapshot is one the source has.
MarksHold(list, S) == \A t \in Sources : list[t].mark => S[t].mark

\* While a thread still takes the source for ready, all it went through was
\* ready once, or is skipped and the result asks for another run.
PassedReady(j, R) ==
  j.ok => \A n \in DOMAIN j.plan : n < j.k =>
    \/ j.plan[n] \in Met(R, j.at)
    \/ j.requeue /\ Deps[j.plan[n]] # <<>>

\* What a thread at p with the local variables j has made sure of.
Grounds(p, j, S, R) ==
  /\ MarksHold(j.list, S)
  /\ p \in {"depend", "apply", "refresh", "condition"} =>
       PassedReady(j, R) /\ (Patches => S[j.at].mark)
  /\ p = "depend" =>
       \A n \in DOMAIN Deps[j.plan[j.k]] : n < j.d => Deps[j.plan[j.k]][n] \in Met(R, j.at)
  /\ p \in {"apply", "refresh"} =>
       \A n \in DOMAIN Deps[j.plan[j.k]] : Deps[j.plan[j.k]][n] \in Met(R, j.at)
  /\ p = "condition" => j.k > Len(j.plan)
  /\ p = "patch" => j.k = 1 /\ j.d = 1 /\ NeedsPatch(j.list[j.at])

Local(p, j, S, R) == Fits(p, j) /\ Grounds(p, j, S, R)

GroundsInv == \A w \in Threads : Grounds(pc[w], job[w], src, wasReady)

\* An object that is ready was so once, and the informer's snapshots show no
\* mark that the source does not have.
ReadyInv == \A s \in Sources, i \in Ids : obj[s][i].ready => i \in wasReady[s]

EventInv == \A s \in Sources : \A n \in DOMAIN events[s] : events[s][n].mark => src[s].mark

ThreadsInv == ThreadsOK /\ GroundsInv

ClusterInv == ClusterOK /\ ReadyInv /\ DependenciesFirst /\ PatchedFirst

QueueInv == ControllerOK /\ EventInv /\ troubles \in 0..MaxTroubles

IInv == ThreadsInv /\ ClusterInv /\ QueueInv

-----------------------------------------------------------------------------
(* The steps of one thread, from what is known of its local variables.     *)

\* What it takes to go on with j, wherever its k-th object leads.
Prepared(j, S, R) ==
  /\ j \in Job /\ j.at # 0 /\ j.list[j.at].rev # 0 /\ j.d = 1
  /\ MarksHold(j.list, S) /\ PassedReady(j, R) /\ (Patches => S[j.at].mark)

LEMMA JobType ==
  ASSUME NEW j \in Job
  PROVE  /\ j.list \in [Sources -> Snapshot] /\ j.at \in 0..NumSources
         /\ j.plan \in Seq(Ids) /\ Len(j.plan) \in Nat /\ DOMAIN j.plan = 1..Len(j.plan)
         /\ j.k \in Nat \ {0} /\ j.d \in Nat \ {0}
         /\ j.ok \in BOOLEAN /\ j.requeue \in BOOLEAN
         /\ \A n \in DOMAIN j.plan : j.plan[n] \in Ids
<1>1. j.plan \in Seq(Ids)
  BY DEF Job
<1>. QED
  BY <1>1 DEF Job

LEMMA DepsType ==
  ASSUME NEW i \in Ids
  PROVE  /\ Deps[i] \in Seq(Ids) /\ Len(Deps[i]) \in Nat
         /\ DOMAIN Deps[i] = 1..Len(Deps[i])
         /\ \A n \in DOMAIN Deps[i] : Deps[i][n] \in Ids
         /\ Deps[i] # <<>> => 1 \in DOMAIN Deps[i]
         /\ Deps[i] = <<>> => DOMAIN Deps[i] = {}
<1>1. Deps[i] \in Seq(Ids)
  BY TemplateAssumption DEF TemplateAssumption
<1>2. Len(Deps[i]) \in Nat /\ DOMAIN Deps[i] = 1..Len(Deps[i])
  BY <1>1
<1>3. Deps[i] # <<>> => Len(Deps[i]) # 0
  BY <1>1, EmptySeq
<1>. QED
  BY <1>1, <1>2, <1>3

\* Stage sends a thread where its next object is.
LEMMA StageGood ==
  ASSUME NEW S, NEW R, NEW j, Prepared(j, S, R)
  PROVE  Local(Stage(j), j, S, R)
<1>1. /\ j \in Job /\ j.at # 0 /\ j.list[j.at].rev # 0 /\ j.d = 1
      /\ MarksHold(j.list, S) /\ PassedReady(j, R) /\ (Patches => S[j.at].mark)
  BY DEF Prepared
<1>2. CASE j.k > Len(j.plan)
  <2>1. Stage(j) = "condition"
    BY <1>2 DEF Stage
  <2>. QED
    BY <1>1, <1>2, <2>1 DEF Local, Fits, Grounds, PCs
<1>3. CASE ~(j.k > Len(j.plan))
  <2>1. j.k \in DOMAIN j.plan /\ j.plan[j.k] \in Ids
    BY <1>1, <1>3, JobType
  <2>2. CASE Deps[j.plan[j.k]] = <<>>
    <3>1. Stage(j) = "apply"
      BY <1>3, <2>2 DEF Stage
    <3>2. DOMAIN Deps[j.plan[j.k]] = {}
      BY <2>1, <2>2, DepsType
    <3>. QED
      BY <1>1, <2>1, <3>1, <3>2 DEF Local, Fits, Grounds, PCs
  <2>3. CASE Deps[j.plan[j.k]] # <<>>
    <3>1. Stage(j) = "depend"
      BY <1>3, <2>3 DEF Stage
    <3>2. 1 \in DOMAIN Deps[j.plan[j.k]] /\ DOMAIN Deps[j.plan[j.k]] = 1..Len(Deps[j.plan[j.k]])
          /\ Len(Deps[j.plan[j.k]]) \in Nat
      BY <2>1, <2>3, DepsType
    <3>3. \A n \in DOMAIN Deps[j.plan[j.k]] : ~(n < j.d)
      BY <1>1, <3>2
    <3>. QED
      BY <1>1, <2>1, <3>1, <3>2, <3>3 DEF Local, Fits, Grounds, PCs
  <2>. QED
    BY <2>2, <2>3
<1>. QED
  BY <1>2, <1>3

\* A thread that is not at work knows nothing, and need not.
LEMMA IdleGood ==
  ASSUME NEW S, NEW R, NEW p \in {"idle", "list"}
  PROVE  Local(p, NoJob, S, R)
<1>1. NoJob \in Job /\ NoJob.at = 0 /\ \A t \in Sources : ~NoJob.list[t].mark
  <2>1. Nothing \in [Sources -> Snapshot] /\ \A t \in Sources : ~Nothing[t].mark
    BY BoundsAssumption DEF Nothing, Snapshot, BoundsAssumption
  <2>2. <<>> \in Seq(Ids)
    OBVIOUS
  <2>. QED
    BY <2>1, <2>2, BoundsAssumption DEF NoJob, Start, Job, BoundsAssumption
<1>. QED
  BY <1>1 DEF Local, Fits, Grounds, MarksHold, PCs

\* Thread w goes on to where it is sound to be.
Moves(w, S, R) ==
  /\ \E p, j : Goto(w, p, j) /\ Local(p, j, S, R)
  /\ queued \in BOOLEAN => queued' \in BOOLEAN

LEMMA FailGood ==
  ASSUME NEW w, Fail(w), NEW S, NEW R
  PROVE  Moves(w, S, R)
BY IdleGood DEF Fail, Moves

LEMMA FinishGood ==
  ASSUME NEW w, NEW requeue, Finish(w, requeue), NEW S, NEW R
  PROVE  Moves(w, S, R)
BY IdleGood DEF Finish, Moves

LEMMA ContinueGood ==
  ASSUME NEW w, NEW S, NEW R, NEW j, Prepared(j, S, R), Continue(w, j)
  PROVE  Moves(w, S, R)
BY StageGood DEF Continue, Moves

\* What a revision is rendered to is a list of objects, its copies included.
LEMMA ListsType ==
  ASSUME NEW r \in 1..MaxRev
  PROVE  Lists(r) \subseteq Seq(Ids)
<1>1. Renderings[r] \subseteq Seq(Ids)
  BY TemplateAssumption DEF TemplateAssumption
<1>2. Copies \in Seq(Ids)
  <2>1. Copies \in Seq({i \in Ids : Deps[i] = <<>>})
    BY TemplateAssumption DEF TemplateAssumption
  <2>. QED
    BY <2>1
<1>3. \A objs \in Seq(Ids) : objs \o Copies \in Seq(Ids)
  BY <1>2
<1>. QED
  BY <1>1, <1>3 DEF Lists, WithCopies

\* The source a thread is at has a revision that it can be rendered from.
LEMMA ListedRevision ==
  ASSUME NEW list \in [Sources -> Snapshot], NEW s \in Sources, list[s].rev # 0
  PROVE  list[s].rev \in 1..MaxRev
BY BoundsAssumption DEF Snapshot, BoundsAssumption

LEMMA RenderGood ==
  ASSUME NEW w, NEW S, NEW R, NEW j, Prepared(j, S, R), j.k = 1, Render(w, j)
  PROVE  Moves(w, S, R)
<1>1. CASE Fail(w)
  BY <1>1, FailGood
<1>2. CASE \E objs \in Lists(j.list[j.at].rev) : Continue(w, [j EXCEPT !.plan = objs])
  <2>1. PICK objs \in Lists(j.list[j.at].rev) : Continue(w, [j EXCEPT !.plan = objs])
    BY <1>2
  <2>2. j \in Job /\ j.at \in Sources /\ j.list \in [Sources -> Snapshot]
        /\ j.list[j.at].rev # 0
    BY JobType, BoundsAssumption DEF Prepared, Sources, BoundsAssumption
  <2>3. objs \in Seq(Ids)
    BY <2>2, ListedRevision, ListsType
  <2> DEFINE q == [j EXCEPT !.plan = objs]
  <2>4. q \in Job /\ q.at = j.at /\ q.list = j.list /\ q.d = j.d /\ q.k = 1
        /\ q.plan = objs
    BY <2>2, <2>3 DEF Job
  <2>5. PassedReady(q, R)
    <3>1. \A n \in DOMAIN q.plan : ~(n < q.k)
      BY <2>3, <2>4
    <3>. QED
      BY <3>1 DEF PassedReady
  <2>6. Prepared(q, S, R)
    BY <2>4, <2>5 DEF Prepared
  <2>. QED
    BY <2>1, <2>6, ContinueGood
<1>. QED
  BY <1>1, <1>2 DEF Render

\* A thread starts with the next source it was told of: it skips the patches
\* of a marked one only.
LEMMA HandleNextGood ==
  ASSUME NEW w, NEW S, NEW R, NEW list \in [Sources -> Snapshot], NEW at \in Nat,
         NEW requeue, MarksHold(list, S), HandleNext(w, list, at, requeue)
  PROVE  Moves(w, S, R)
<1> DEFINE left == {s \in Sources : s > at /\ list[s].rev # 0}
<1>1. CASE Finish(w, requeue)
  BY <1>1, FinishGood
<1>2. ASSUME NEW s \in left,
             IF NeedsPatch(list[s])
               THEN Goto(w, "patch", Start(list, s)) /\ UNCHANGED queued
               ELSE Render(w, Start(list, s))
      PROVE  Moves(w, S, R)
  <2> DEFINE j == Start(list, s)
  <2>1. /\ j \in Job /\ j.at = s /\ j.list = list /\ j.d = 1 /\ j.k = 1 /\ j.plan = <<>>
        /\ s # 0 /\ s \in Sources /\ list[s].rev # 0
    BY BoundsAssumption DEF Start, Job, Sources, BoundsAssumption
  <2>2. PassedReady(j, R)
    BY <2>1 DEF PassedReady
  <2>3. CASE NeedsPatch(list[s])
    <3>1. Goto(w, "patch", j)
      BY <1>2, <2>3
    <3>2. Local("patch", j, S, R)
      BY <2>1, <2>3 DEF Local, Fits, Grounds, PCs
    <3>. QED
      BY <1>2, <2>3, <3>1, <3>2 DEF Moves
  <2>4. CASE ~NeedsPatch(list[s])
    <3>1. Patches => S[s].mark
      BY <2>1, <2>4 DEF NeedsPatch, MarksHold
    <3>2. Prepared(j, S, R)
      BY <2>1, <2>2, <3>1 DEF Prepared
    <3>3. Render(w, j)
      BY <1>2, <2>4
    <3>. QED
      BY <2>1, <3>2, <3>3, RenderGood
  <2>. QED
    BY <2>3, <2>4
<1>. QED
  BY <1>1, <1>2 DEF HandleNext

-----------------------------------------------------------------------------
(* What a step of one thread, or of the cluster, means for both threads.   *)

LEMMA ThreadsLocal ==
  ThreadsInv <=> /\ DOMAIN pc = Threads /\ DOMAIN job = Threads
                 /\ \A w \in Threads : Local(pc[w], job[w], src, wasReady)
BY DEF ThreadsInv, ThreadsOK, GroundsInv, Local

\* Marks stay and what was ready once remains so: no thread has to forget.
Grown ==
  \A s \in Sources : (src[s].mark => src'[s].mark) /\ wasReady[s] \subseteq wasReady'[s]

LEMMA LocalGrows ==
  ASSUME NEW S, NEW R, NEW S2, NEW R2, NEW p, NEW j, Local(p, j, S, R),
         \A s \in Sources : (S[s].mark => S2[s].mark) /\ R[s] \subseteq R2[s]
  PROVE  Local(p, j, S2, R2)
<1>1. j \in Job /\ p \in PCs /\ Fits(p, j) /\ Grounds(p, j, S, R)
  BY DEF Local, Fits
<1>2. MarksHold(j.list, S2)
  BY <1>1 DEF Grounds, MarksHold
<1>3. CASE p \in {"idle", "list", "patch"}
  BY <1>1, <1>2, <1>3 DEF Local, Grounds
<1>4. CASE p \in {"depend", "apply", "refresh", "condition"}
  <2>1. j.at \in Sources
    BY <1>1, <1>4, JobType, BoundsAssumption DEF Fits, Sources, BoundsAssumption
  <2>2. Met(R, j.at) \subseteq Met(R2, j.at) /\ (S[j.at].mark => S2[j.at].mark)
    BY <2>1 DEF Met
  <2>3. PassedReady(j, R2)
    BY <1>1, <1>4, <2>2 DEF Grounds, PassedReady
  <2>. QED
    BY <1>1, <1>2, <1>4, <2>2, <2>3 DEF Local, Grounds
<1>. QED
  BY <1>1, <1>3, <1>4 DEF PCs

\* One thread goes on, soundly, and the other stays.
LEMMA ThreadStep ==
  ASSUME ThreadsInv, Grown, NEW w \in Threads,
         Moves(w, src', wasReady')
  PROVE  ThreadsInv'
<1>1. PICK p, j : Goto(w, p, j) /\ Local(p, j, src', wasReady')
  BY DEF Moves
<1>2. /\ DOMAIN pc' = Threads /\ DOMAIN job' = Threads
      /\ pc'[w] = p /\ job'[w] = j
      /\ \A v \in Threads \ {w} : pc'[v] = pc[v] /\ job'[v] = job[v]
  BY <1>1, ThreadsLocal DEF Goto
<1>3. ASSUME NEW v \in Threads PROVE Local(pc'[v], job'[v], src', wasReady')
  <2>1. CASE v = w
    BY <1>1, <1>2, <2>1
  <2>2. CASE v # w
    <3>1. Local(pc[v], job[v], src, wasReady)
      BY ThreadsLocal
    <3>2. Local(pc[v], job[v], src', wasReady')
      BY <3>1, LocalGrows DEF Grown
    <3>. QED
      BY <1>2, <2>2, <3>2
  <2>. QED
    BY <2>1, <2>2
<1>. QED
  BY <1>2, <1>3 DEF ThreadsInv, ThreadsOK, GroundsInv, Local

LEMMA ThreadsStay ==
  ASSUME ThreadsInv, Grown, UNCHANGED threads
  PROVE  ThreadsInv'
<1>1. ASSUME NEW v \in Threads PROVE Local(pc[v], job[v], src', wasReady')
  <2>1. Local(pc[v], job[v], src, wasReady)
    BY ThreadsLocal
  <2>. QED
    BY <2>1, LocalGrows DEF Grown
<1>2. DOMAIN pc = Threads /\ DOMAIN job = Threads
  BY ThreadsLocal
<1>. QED
  BY <1>1, <1>2 DEF ThreadsInv, ThreadsOK, GroundsInv, Local, threads

LEMMA GrownStays ==
  ASSUME UNCHANGED <<src, wasReady>>
  PROVE  Grown
BY DEF Grown

LEMMA ClusterStays ==
  ASSUME ClusterInv, UNCHANGED cluster
  PROVE  ClusterInv' /\ Grown
BY DEF ClusterInv, ClusterOK, ReadyInv, DependenciesFirst, PatchedFirst, present, cluster, Grown

-----------------------------------------------------------------------------
(* Writes.                                                                 *)

LEMMA SeenType ==
  ASSUME NEW v \in Source
  PROVE  Seen(v) \in Snapshot /\ Seen(v).mark = v.mark /\ Seen(v).rev = v.rev
BY DEF Source, Seen, Snapshot

\* A source is written and, perhaps, the informer is told.
LEMMA WriteSourceGood ==
  ASSUME ClusterInv, QueueInv, NEW s \in Sources, NEW new \in Source,
         src[s].mark => new.mark, WriteSource(s, new), UNCHANGED <<obj, wasReady>>
  PROVE  /\ ClusterInv' /\ Grown /\ EventInv'
         /\ events' \in [Sources -> Seq(Snapshot)]
<1>1. /\ src \in [Sources -> Source] /\ src' = [src EXCEPT ![s] = new]
      /\ events \in [Sources -> Seq(Snapshot)]
  BY DEF ClusterInv, ClusterOK, QueueInv, ControllerOK, WriteSource
<1>2. /\ src' \in [Sources -> Source] /\ src'[s] = new
      /\ \A t \in Sources : src[t].mark => src'[t].mark
  BY <1>1
<1>3. ClusterInv' /\ Grown
  BY <1>2 DEF ClusterInv, ClusterOK, ReadyInv, DependenciesFirst, PatchedFirst, present, Grown
<1>4. CASE UNCHANGED events
  <2>1. EventInv'
    BY <1>2, <1>4 DEF EventInv, QueueInv
  <2>. QED
    BY <1>1, <1>3, <1>4, <2>1
<1>5. CASE events' = [events EXCEPT ![s] = Append(events[s], Seen(new))]
  <2>1. Seen(new) \in Snapshot /\ Seen(new).mark = new.mark
    BY SeenType
  <2>2. /\ Append(events[s], Seen(new)) \in Seq(Snapshot)
        /\ DOMAIN Append(events[s], Seen(new)) = 1..(Len(events[s]) + 1)
        /\ \A n \in 1..Len(events[s]) : Append(events[s], Seen(new))[n] = events[s][n]
        /\ Append(events[s], Seen(new))[Len(events[s]) + 1] = Seen(new)
        /\ Len(events[s]) \in Nat /\ DOMAIN events[s] = 1..Len(events[s])
    BY <1>1, <2>1, AppendProperties
  <2>3. events' \in [Sources -> Seq(Snapshot)]
    BY <1>1, <1>5, <2>2
  <2>4. ASSUME NEW t \in Sources, NEW n \in DOMAIN events'[t], events'[t][n].mark
        PROVE  src'[t].mark
    <3>1. CASE t # s
      BY <1>1, <1>2, <1>5, <2>4, <3>1 DEF QueueInv, EventInv
    <3>2. CASE t = s /\ n \in 1..Len(events[s])
      BY <1>1, <1>2, <1>5, <2>2, <2>4, <3>2 DEF QueueInv, EventInv
    <3>3. CASE t = s /\ n = Len(events[s]) + 1
      BY <1>1, <1>2, <1>5, <2>1, <2>2, <2>4, <3>3
    <3>4. t = s => n \in 1..(Len(events[s]) + 1)
      BY <1>1, <1>5, <2>2, <2>4
    <3>. QED
      BY <2>2, <3>1, <3>2, <3>3, <3>4
  <2>. QED
    BY <1>3, <2>3, <2>4 DEF EventInv
<1>. QED
  BY <1>3, <1>4, <1>5 DEF WriteSource, Notify

\* An object whose dependencies are met is applied, from a patched source.
LEMMA WriteObjectGood ==
  ASSUME ClusterInv, NEW s \in Sources, NEW i \in Ids, NEW r \in 0..MaxRev,
         \A n \in DOMAIN Deps[i] : Deps[i][n] \in Met(wasReady, s),
         Patches => src[s].mark,
         WriteObject(s, i, r), UNCHANGED <<src, wasReady>>
  PROVE  ClusterInv' /\ Grown
<1>1. obj \in [Sources -> [Ids -> Object]]
  BY DEF ClusterInv, ClusterOK
<1>2. CASE UNCHANGED obj
  BY <1>2, ClusterStays DEF cluster
<1>3. CASE obj' = [obj EXCEPT ![s][i] = [rev |-> r, ready |-> FALSE]]
  <2>1. /\ obj' \in [Sources -> [Ids -> Object]]
        /\ ~obj'[s][i].ready
        /\ \A t \in Sources, k \in Ids : <<t, k>> # <<s, i>> => obj'[t][k] = obj[t][k]
    BY <1>1, <1>3 DEF Object
  <2>2. ReadyInv'
    BY <2>1 DEF ClusterInv, ReadyInv
  <2>3. DependenciesFirst'
    BY <2>1 DEF ClusterInv, DependenciesFirst, present, Met
  <2>4. PatchedFirst'
    BY <2>1 DEF ClusterInv, PatchedFirst, present
  <2>. QED
    BY <2>1, <2>2, <2>3, <2>4 DEF ClusterInv, ClusterOK, Grown
<1>. QED
  BY <1>2, <1>3 DEF WriteObject

-----------------------------------------------------------------------------
(* The initial states, users and the environment.                          *)

LEMMA IInvInit == Init => IInv
<1> SUFFICES ASSUME Init PROVE IInv
  OBVIOUS
<1> USE BoundsAssumption DEF BoundsAssumption
<1>1. ThreadsInv
  <2>1. ASSUME NEW w \in Threads PROVE Local(pc[w], job[w], src, wasReady)
    BY IdleGood DEF Init
  <2>. QED
    BY <2>1, ThreadsLocal DEF Init
<1>2. ClusterInv
  <2>1. src \in [Sources -> Source] /\ wasReady \in [Sources -> SUBSET Ids]
    <3>1. \A r \in 0..1 : [rev |-> r, mark |-> FALSE, cond |-> "none"] \in Source
      BY DEF Source
    <3>2. {[rev |-> r, mark |-> FALSE, cond |-> "none"] : r \in 0..1} \subseteq Source
      BY <3>1
    <3>3. /\ src \in [Sources -> {[rev |-> r, mark |-> FALSE, cond |-> "none"] : r \in 0..1}]
          /\ wasReady = [s \in Sources |-> {}]
      BY DEF Init
    <3>4. src \in [Sources -> Source]
      BY <3>2, <3>3
    <3>. QED
      BY <3>3, <3>4
  <2>2. /\ obj \in [Sources -> [Ids -> Object]]
        /\ \A s \in Sources, i \in Ids : obj[s][i].rev = 0 /\ ~obj[s][i].ready
    BY DEF Init, Object, Absent
  <2>. QED
    BY <2>1, <2>2 DEF ClusterInv, ClusterOK, ReadyInv, DependenciesFirst, PatchedFirst, present
<1>3. QueueInv
  <2>1. events \in [Sources -> Seq(Snapshot)] /\ \A s \in Sources : DOMAIN events[s] = {}
    BY DEF Init
  <2>. QED
    BY <2>1 DEF Init, QueueInv, ControllerOK, EventInv
<1>. QED
  BY <1>1, <1>2, <1>3 DEF IInv

LEMMA EditGood ==
  ASSUME IInv, NEW s \in Sources, Edit(s)
  PROVE  IInv'
<1>1. ThreadsInv /\ ClusterInv /\ QueueInv
  BY DEF IInv
<1> DEFINE new == [src[s] EXCEPT !.rev = @ + 1]
<1>2. src[s] \in Source /\ src[s].rev < MaxRev
  BY <1>1 DEF ClusterInv, ClusterOK, Edit
<1>3. new \in Source /\ new.mark = src[s].mark
  BY <1>2, BoundsAssumption DEF Source, BoundsAssumption
<1>4. WriteSource(s, new) /\ UNCHANGED <<obj, wasReady>>
  BY DEF Edit
<1>5. ClusterInv' /\ Grown /\ EventInv' /\ events' \in [Sources -> Seq(Snapshot)]
  BY <1>1, <1>3, <1>4, WriteSourceGood
<1>6. ThreadsInv'
  BY <1>1, <1>5, ThreadsStay DEF Edit, threads
<1>7. QueueInv'
  BY <1>1, <1>5 DEF Edit, QueueInv, ControllerOK
<1>. QED
  BY <1>5, <1>6, <1>7 DEF IInv

\* One object is changed and the others are not.
LEMMA ObjectSet ==
  ASSUME obj \in [Sources -> [Ids -> Object]], NEW s \in Sources, NEW i \in Ids,
         NEW o \in Object, obj' = [obj EXCEPT ![s][i] = o]
  PROVE  /\ obj' \in [Sources -> [Ids -> Object]]
         /\ obj'[s][i] = o
         /\ \A t \in Sources, k \in Ids : t # s \/ k # i => obj'[t][k] = obj[t][k]
<1>1. obj[s] \in [Ids -> Object]
  OBVIOUS
<1>2. obj' = [obj EXCEPT ![s] = [obj[s] EXCEPT ![i] = o]]
  OBVIOUS
<1>3. [obj[s] EXCEPT ![i] = o] \in [Ids -> Object]
  BY <1>1
<1>. QED
  BY <1>1, <1>2, <1>3

LEMMA TroubleType ==
  ASSUME troubles \in 0..MaxTroubles, Fault \/ Trouble \/ NoFault
  PROVE  troubles' \in 0..MaxTroubles
BY BoundsAssumption DEF Fault, Trouble, NoFault, BoundsAssumption

LEMMA QueueStays ==
  ASSUME QueueInv, UNCHANGED <<src, queued, watch, events>>,
         troubles' \in 0..MaxTroubles
  PROVE  QueueInv'
BY DEF QueueInv, ControllerOK, EventInv

\* An object is changed without being written: it becomes ready, which is
\* remembered, or stops being so, or goes away.
LEMMA ObjectGood ==
  ASSUME IInv, NEW s \in Sources, NEW i \in Ids, BecomeReady(s, i) \/ Disturb(s, i)
  PROVE  IInv'
<1>1. ThreadsInv /\ ClusterInv /\ QueueInv
  BY DEF IInv
<1>2. /\ obj \in [Sources -> [Ids -> Object]] /\ wasReady \in [Sources -> SUBSET Ids]
      /\ src \in [Sources -> Source]
  BY <1>1 DEF ClusterInv, ClusterOK
<1>3. UNCHANGED <<src, queued, watch, events, threads>>
  BY DEF BecomeReady, Disturb
<1>4. /\ wasReady' \in [Sources -> SUBSET Ids]
      /\ \A t \in Sources : wasReady[t] \subseteq wasReady'[t]
  <2>1. CASE wasReady' = [wasReady EXCEPT ![s] = @ \cup {i}]
    BY <1>2, <2>1
  <2>2. CASE wasReady' = wasReady
    BY <1>2, <2>2
  <2>. QED
    BY <2>1, <2>2 DEF BecomeReady, Disturb
<1>5. Grown
  BY <1>3, <1>4 DEF Grown
<1>6. PICK o \in Object : /\ obj' = [obj EXCEPT ![s][i] = o]
                          /\ o.rev # 0 => obj[s][i].rev # 0
                          /\ o.ready => i \in wasReady'[s]
  <2>1. obj[s][i] \in Object
    BY <1>2
  <2>2. CASE BecomeReady(s, i)
    <3>1. i \in wasReady'[s]
      BY <1>2, <2>2 DEF BecomeReady
    <3>2. obj' = [obj EXCEPT ![s][i] = [obj[s][i] EXCEPT !.ready = TRUE]]
      BY <2>2 DEF BecomeReady
    <3>3. /\ [obj[s][i] EXCEPT !.ready = TRUE] \in Object
          /\ [obj[s][i] EXCEPT !.ready = TRUE].rev = obj[s][i].rev
      BY <2>1 DEF Object
    <3>. QED
      BY <3>1, <3>2, <3>3
  <2>3. CASE obj' = [obj EXCEPT ![s][i].ready = FALSE]
    <3>1. obj' = [obj EXCEPT ![s][i] = [obj[s][i] EXCEPT !.ready = FALSE]]
      BY <2>3
    <3>2. /\ [obj[s][i] EXCEPT !.ready = FALSE] \in Object
          /\ [obj[s][i] EXCEPT !.ready = FALSE].rev = obj[s][i].rev
          /\ ~[obj[s][i] EXCEPT !.ready = FALSE].ready
      BY <2>1 DEF Object
    <3>. QED
      BY <3>1, <3>2
  <2>4. CASE obj' = [obj EXCEPT ![s][i] = Absent]
    <3>1. Absent \in Object /\ Absent.rev = 0 /\ ~Absent.ready
      BY BoundsAssumption DEF Object, Absent, BoundsAssumption
    <3>. QED
      BY <2>4, <3>1
  <2>. QED
    BY <2>2, <2>3, <2>4 DEF Disturb
<1>7. /\ obj' \in [Sources -> [Ids -> Object]] /\ obj'[s][i] = o
      /\ \A t \in Sources, k \in Ids : t # s \/ k # i => obj'[t][k] = obj[t][k]
  BY <1>2, <1>6, ObjectSet
<1>8. ReadyInv'
  BY <1>1, <1>4, <1>6, <1>7 DEF ClusterInv, ReadyInv
<1>9. \A t \in Sources, k \in Ids : obj'[t][k].rev # 0 => obj[t][k].rev # 0
  BY <1>6, <1>7
<1>10. DependenciesFirst' /\ PatchedFirst'
  BY <1>1, <1>3, <1>4, <1>9 DEF ClusterInv, DependenciesFirst, PatchedFirst, present
<1>11. troubles' \in 0..MaxTroubles
  BY <1>1, TroubleType DEF QueueInv, BecomeReady, Disturb, NoFault
<1>12. ThreadsInv'
  BY <1>1, <1>3, <1>5, ThreadsStay
<1>13. QueueInv'
  BY <1>1, <1>3, <1>11, QueueStays
<1>. QED
  BY <1>2, <1>3, <1>4, <1>7, <1>8, <1>10, <1>12, <1>13 DEF IInv, ClusterInv, ClusterOK

LEMMA InformerListGood ==
  ASSUME IInv, InformerList
  PROVE  IInv'
<1>1. ThreadsInv /\ ClusterInv /\ QueueInv
  BY DEF IInv
<1>2. UNCHANGED <<cluster, queued, threads, troubles>> /\ watch' = "on"
  BY DEF InformerList
<1>3. ClusterInv' /\ Grown /\ ThreadsInv'
  BY <1>1, <1>2, ClusterStays, ThreadsStay
<1>4. ASSUME NEW s \in Sources
      PROVE  /\ events'[s] \in Seq(Snapshot)
             /\ \A n \in DOMAIN events'[s] : events'[s][n].mark => src[s].mark
  <2>1. Seen(src[s]) \in Snapshot /\ Seen(src[s]).mark = src[s].mark
    BY <1>1, SeenType DEF ClusterInv, ClusterOK
  <2>2. CASE events'[s] = <<>>
    BY <2>2
  <2>3. CASE events'[s] = <<Seen(src[s])>>
    BY <2>1, <2>3
  <2>. QED
    BY <2>2, <2>3 DEF InformerList
<1>5. events' \in [Sources -> Seq(Snapshot)]
  BY <1>4 DEF InformerList
<1>6. QueueInv'
  BY <1>1, <1>2, <1>4, <1>5 DEF QueueInv, ControllerOK, EventInv, cluster
<1>. QED
  BY <1>3, <1>6 DEF IInv

LEMMA ResyncGood ==
  ASSUME IInv, Resync
  PROVE  IInv'
<1>1. UNCHANGED <<cluster, watch, events, threads, troubles>> /\ queued' = TRUE
  BY DEF Resync
<1>2. ClusterInv' /\ Grown /\ ThreadsInv'
  BY <1>1, ClusterStays, ThreadsStay DEF IInv
<1>3. QueueInv'
  BY <1>1 DEF IInv, QueueInv, ControllerOK, EventInv, cluster
<1>. QED
  BY <1>2, <1>3 DEF IInv

LEMMA CrashGood ==
  ASSUME IInv, Crash
  PROVE  IInv'
<1>1. ClusterInv' /\ Grown
  BY ClusterStays DEF IInv, Crash
<1>2. ThreadsInv'
  <2>1. \A w \in Threads : Local("idle", NoJob, src', wasReady')
    BY IdleGood
  <2>. QED
    BY <2>1 DEF Crash, ThreadsInv, ThreadsOK, GroundsInv, Local
<1>3. QueueInv'
  <2>1. events' \in [Sources -> Seq(Snapshot)] /\ \A s \in Sources : DOMAIN events'[s] = {}
    BY DEF Crash
  <2>2. troubles' \in 0..MaxTroubles
    BY TroubleType DEF IInv, QueueInv, Crash
  <2>. QED
    BY <2>1, <2>2 DEF Crash, QueueInv, ControllerOK, EventInv
<1>. QED
  BY <1>1, <1>2, <1>3 DEF IInv

-----------------------------------------------------------------------------
(* HandleSource.                                                           *)

\* What is known of a thread that handles a source.
LEMMA AtWork ==
  ASSUME ThreadsInv, NEW w \in Threads, pc[w] \notin {"idle", "list"}
  PROVE  /\ job[w] \in Job /\ At(w) = job[w].at /\ At(w) \in Sources /\ job[w].at # 0
         /\ job[w].list \in [Sources -> Snapshot]
         /\ Read(w) = job[w].list[job[w].at] /\ Read(w).rev # 0
         /\ Read(w).rev \in 1..MaxRev /\ MarksHold(job[w].list, src)
         /\ Fits(pc[w], job[w]) /\ Grounds(pc[w], job[w], src, wasReady)
<1>1. Fits(pc[w], job[w]) /\ Grounds(pc[w], job[w], src, wasReady)
  BY DEF ThreadsInv, ThreadsOK, GroundsInv
<1>2. job[w] \in Job /\ job[w].at # 0 /\ job[w].list[job[w].at].rev # 0
  BY <1>1 DEF Fits
<1>3. job[w].at \in Sources
  BY <1>2, JobType, BoundsAssumption DEF Sources, BoundsAssumption
<1>. QED
  BY <1>1, <1>2, <1>3, JobType, ListedRevision DEF At, Read, Grounds

\* What is known of the object it is at.
LEMMA AtItem ==
  ASSUME ThreadsInv, NEW w \in Threads, pc[w] \in {"depend", "apply", "refresh"}
  PROVE  /\ Item(w) = job[w].plan[job[w].k] /\ Item(w) \in Ids
         /\ job[w].k \in DOMAIN job[w].plan
<1>1. job[w] \in Job /\ Fits(pc[w], job[w])
  BY AtWork
<1>. QED
  BY <1>1, JobType DEF Fits, Item

\* A thread goes on, and the cluster stays sound.
LEMMA Together ==
  ASSUME IInv, NEW w \in Threads, ClusterInv', Grown, Moves(w, src', wasReady'),
         events' \in [Sources -> Seq(Snapshot)], EventInv',
         watch' \in {"off", "starting", "on", "broken"}, Fault \/ NoFault
  PROVE  IInv'
<1>1. ThreadsInv'
  BY ThreadStep DEF IInv
<1>2. queued' \in BOOLEAN
  BY DEF Moves, IInv, QueueInv, ControllerOK
<1>3. troubles' \in 0..MaxTroubles
  BY TroubleType DEF IInv, QueueInv
<1>. QED
  BY <1>1, <1>2, <1>3 DEF IInv, QueueInv, ControllerOK

LEMMA EventsStay ==
  ASSUME IInv, UNCHANGED <<src, events, watch>>
  PROVE  /\ events' \in [Sources -> Seq(Snapshot)] /\ EventInv'
         /\ watch' \in {"off", "starting", "on", "broken"}
BY DEF IInv, QueueInv, ControllerOK, EventInv

LEMMA PatchedGood ==
  ASSUME IInv, NEW s \in Sources, NEW r \in 0..MaxRev, Patched(s, r),
         UNCHANGED <<obj, watch, wasReady>>
  PROVE  /\ ClusterInv' /\ Grown /\ src'[s].mark
         /\ events' \in [Sources -> Seq(Snapshot)] /\ EventInv'
         /\ watch' \in {"off", "starting", "on", "broken"}
<1> DEFINE new == [src[s] EXCEPT !.rev = r, !.mark = TRUE]
<1>1. src \in [Sources -> Source] /\ src[s] \in Source
  BY DEF IInv, ClusterInv, ClusterOK
<1>2. new \in Source /\ new.mark
  BY <1>1 DEF Source
<1>3. WriteSource(s, new)
  BY DEF Patched
<1>4. /\ ClusterInv' /\ Grown /\ EventInv' /\ events' \in [Sources -> Seq(Snapshot)]
  BY <1>2, <1>3, WriteSourceGood DEF IInv
<1>5. src'[s] = new
  BY <1>1, <1>3 DEF WriteSource
<1>. QED
  BY <1>2, <1>4, <1>5 DEF IInv, QueueInv, ControllerOK

LEMMA PatchGood ==
  ASSUME IInv, NEW w \in Threads, Patch(w)
  PROVE  IInv'
<1>1. /\ pc[w] = "patch" /\ UNCHANGED <<obj, watch, wasReady>> /\ ThreadsInv
  BY DEF Patch, IInv
<1>2. /\ job[w] \in Job /\ At(w) = job[w].at /\ At(w) \in Sources /\ job[w].at # 0
      /\ job[w].list[job[w].at].rev # 0 /\ Read(w).rev \in 0..MaxRev
      /\ MarksHold(job[w].list, src) /\ job[w].k = 1 /\ job[w].d = 1
  <2>1. pc[w] \notin {"idle", "list"}
    BY <1>1
  <2>2. Read(w) = job[w].list[job[w].at] /\ Read(w).rev \in 1..MaxRev
        /\ Grounds("patch", job[w], src, wasReady)
    BY <1>1, <2>1, AtWork
  <2>3. Read(w).rev \in 0..MaxRev /\ job[w].list[job[w].at].rev # 0
    BY <2>2
  <2>4. job[w].k = 1 /\ job[w].d = 1
    BY <2>2 DEF Grounds
  <2>. QED
    BY <1>1, <2>1, <2>3, <2>4, AtWork
<1>3. CASE Fail(w) /\ UNCHANGED <<src, events>> /\ (Fault \/ NoFault)
  <2>1. ClusterInv' /\ Grown
    BY <1>1, <1>3, ClusterStays DEF IInv, cluster
  <2>. QED
    BY <1>1, <1>3, <2>1, EventsStay, FailGood, Together
<1>4. CASE Fail(w) /\ Patched(At(w), Read(w).rev) /\ Fault
  BY <1>1, <1>2, <1>4, PatchedGood, FailGood, Together
<1>5. CASE NoFault /\ Patched(At(w), Read(w).rev) /\ Render(w, job[w])
  <2>1. /\ ClusterInv' /\ Grown /\ src'[job[w].at].mark
        /\ events' \in [Sources -> Seq(Snapshot)] /\ EventInv'
        /\ watch' \in {"off", "starting", "on", "broken"}
    BY <1>1, <1>2, <1>5, PatchedGood
  <2>2. MarksHold(job[w].list, src')
    BY <1>2, <2>1 DEF MarksHold, Grown
  <2>3. PassedReady(job[w], wasReady')
    BY <1>2, JobType DEF PassedReady
  <2>4. Prepared(job[w], src', wasReady')
    BY <1>2, <2>1, <2>2, <2>3 DEF Prepared
  <2>5. Moves(w, src', wasReady')
    BY <1>2, <1>5, <2>4, RenderGood
  <2>. QED
    BY <1>5, <2>1, <2>5, Together
<1>. QED
  BY <1>3, <1>4, <1>5 DEF Patch

\* A dependency that is found ready was ready once.
LEMMA VerdictReady ==
  ASSUME ClusterInv, NEW s \in Sources, NEW objs, NEW i \in Ids, Verdict(s, objs, i) = "ready"
  PROVE  i \in Met(wasReady, s)
BY DEF Verdict, ClusterInv, ReadyInv, Met

\* The thread is through with its object: what the object added to what the
\* thread knows lets it go on with the next.
LEMMA NextItemGood ==
  ASSUME NEW S, NEW R, NEW p \in {"depend", "apply", "refresh"}, NEW j,
         Local(p, j, S, R), NEW ok \in BOOLEAN, NEW requeue \in BOOLEAN,
         ok => j.ok, j.requeue => requeue,
         ok => \/ j.plan[j.k] \in Met(R, j.at)
               \/ requeue /\ Deps[j.plan[j.k]] # <<>>
  PROVE  Prepared(NextItem([j EXCEPT !.ok = ok, !.requeue = requeue]), S, R)
<1> DEFINE q == NextItem([j EXCEPT !.ok = ok, !.requeue = requeue])
<1>1. /\ j \in Job /\ j.at # 0 /\ j.list[j.at].rev # 0 /\ MarksHold(j.list, S)
      /\ PassedReady(j, R) /\ (Patches => S[j.at].mark) /\ j.k \in Nat
      /\ DOMAIN j.plan = 1..Len(j.plan) /\ Len(j.plan) \in Nat
  BY JobType DEF Local, Fits, Grounds
<1>2. /\ q \in Job /\ q.at = j.at /\ q.list = j.list /\ q.plan = j.plan /\ q.d = 1
      /\ q.k = j.k + 1 /\ q.ok = ok /\ q.requeue = requeue
  <2> DEFINE r == [j EXCEPT !.ok = ok, !.requeue = requeue]
  <2>1. /\ r \in Job /\ r.at = j.at /\ r.list = j.list /\ r.plan = j.plan
        /\ r.k = j.k /\ r.ok = ok /\ r.requeue = requeue
    BY <1>1 DEF Job
  <2>2. r.k + 1 \in Nat \ {0} /\ 1 \in Nat \ {0}
    BY <1>1, <2>1
  <2>3. q = [r EXCEPT !.k = r.k + 1, !.d = 1]
    BY DEF NextItem
  <2>. QED
    BY <2>1, <2>2, <2>3 DEF Job
<1>3. PassedReady(q, R)
  <2> SUFFICES ASSUME ok, NEW n \in DOMAIN j.plan, n < j.k + 1
               PROVE  \/ j.plan[n] \in Met(R, j.at)
                      \/ requeue /\ Deps[j.plan[n]] # <<>>
    BY <1>2 DEF PassedReady
  <2>1. CASE n = j.k
    BY <2>1
  <2>2. CASE n < j.k
    BY <1>1, <2>2 DEF PassedReady
  <2>. QED
    BY <1>1, <2>1, <2>2
<1>. QED
  BY <1>1, <1>2, <1>3 DEF Prepared

LEMMA DependGood ==
  ASSUME IInv, NEW w \in Threads, Depend(w)
  PROVE  IInv'
<1> DEFINE j == job[w]
           dep == Deps[Item(w)][j.d]
           verdict == Verdict(At(w), j.plan, dep)
<1>1. /\ pc[w] = "depend" /\ UNCHANGED <<cluster, watch, events>> /\ ThreadsInv
  BY DEF Depend, IInv
<1>2. /\ ClusterInv' /\ Grown /\ src' = src /\ wasReady' = wasReady
      /\ events' \in [Sources -> Seq(Snapshot)] /\ EventInv'
      /\ watch' \in {"off", "starting", "on", "broken"}
  BY <1>1, ClusterStays, EventsStay DEF IInv, cluster
<1>3. /\ j \in Job /\ At(w) = j.at /\ At(w) \in Sources
      /\ Fits("depend", j) /\ Grounds("depend", j, src, wasReady)
      /\ Item(w) = j.plan[j.k] /\ Item(w) \in Ids
  BY <1>1, AtWork, AtItem
<1>4. /\ Len(Deps[Item(w)]) \in Nat /\ DOMAIN Deps[Item(w)] = 1..Len(Deps[Item(w)])
      /\ j.d \in DOMAIN Deps[Item(w)] /\ dep \in Ids /\ Deps[Item(w)] # <<>>
  BY <1>3, DepsType DEF Fits
<1>5. CASE Fail(w) /\ (Fault \/ NoFault)
  BY <1>2, <1>5, FailGood, Together
<1>6. CASE verdict = "waiting" /\ NoFault /\ Continue(w, NextItem([j EXCEPT !.requeue = TRUE]))
  <2>1. [j EXCEPT !.requeue = TRUE] = [j EXCEPT !.ok = j.ok, !.requeue = TRUE]
        /\ j.ok \in BOOLEAN
    BY <1>3 DEF Job
  <2>2. Local("depend", j, src', wasReady')
    BY <1>2, <1>3 DEF Local
  <2>3. Prepared(NextItem([j EXCEPT !.requeue = TRUE]), src', wasReady')
    BY <1>3, <1>4, <2>1, <2>2, NextItemGood
  <2>. QED
    BY <1>2, <1>6, <2>3, ContinueGood, Together
<1>7. CASE /\ verdict = "ready" /\ NoFault
           /\ IF LastDep(j) THEN Goto(w, "apply", j)
                            ELSE Goto(w, "depend", [j EXCEPT !.d = @ + 1])
           /\ UNCHANGED queued
  <2>1. dep \in Met(wasReady, j.at)
    BY <1>3, <1>4, <1>7, VerdictReady DEF IInv
  <2>2. \A n \in DOMAIN Deps[Item(w)] : n < j.d + 1 => Deps[Item(w)][n] \in Met(wasReady, j.at)
    <3>1. \A n \in DOMAIN Deps[j.plan[j.k]] : n < j.d => Deps[j.plan[j.k]][n] \in Met(wasReady, j.at)
      BY <1>3 DEF Grounds
    <3>2. \A n \in DOMAIN Deps[Item(w)] : n < j.d + 1 => n < j.d \/ n = j.d
      BY <1>4
    <3>. QED
      BY <1>3, <2>1, <3>1, <3>2
  <2>3. CASE LastDep(j)
    <3>1. \A n \in DOMAIN Deps[Item(w)] : Deps[Item(w)][n] \in Met(wasReady, j.at)
      <4>1. j.d = Len(Deps[Item(w)])
        BY <1>3, <2>3 DEF LastDep
      <4>2. \A n \in DOMAIN Deps[Item(w)] : n < j.d + 1
        BY <1>4, <4>1
      <4>. QED
        BY <2>2, <4>2
    <3>2. Local("apply", j, src', wasReady')
      BY <1>2, <1>3, <3>1 DEF Local, Fits, Grounds, PCs
    <3>3. Moves(w, src', wasReady')
      BY <1>7, <2>3, <3>2 DEF Moves
    <3>. QED
      BY <1>2, <1>7, <3>3, Together
  <2>4. CASE ~LastDep(j)
    <3> DEFINE q == [j EXCEPT !.d = @ + 1]
    <3>1. /\ q \in Job /\ q.list = j.list /\ q.at = j.at /\ q.plan = j.plan /\ q.k = j.k
          /\ q.d = j.d + 1 /\ q.ok = j.ok /\ q.requeue = j.requeue
      BY <1>3 DEF Job
    <3>2. q.d \in DOMAIN Deps[q.plan[q.k]]
      <4>1. j.d \in 1..Len(Deps[Item(w)]) /\ j.d # Len(Deps[Item(w)])
        BY <1>3, <1>4, <2>4 DEF LastDep
      <4>2. j.d + 1 \in 1..Len(Deps[Item(w)])
        BY <1>4, <4>1
      <4>3. Deps[q.plan[q.k]] = Deps[Item(w)]
        BY <1>3, <3>1
      <4>. QED
        BY <1>4, <3>1, <4>2, <4>3
    <3>3. Fits("depend", q)
      BY <1>3, <3>1, <3>2 DEF Fits
    <3>4. PassedReady(q, wasReady)
      BY <1>3, <3>1 DEF Grounds, PassedReady
    <3>5. Grounds("depend", q, src, wasReady)
      BY <1>3, <2>2, <3>1, <3>4 DEF Grounds
    <3>6. Moves(w, src', wasReady')
      BY <1>2, <1>7, <2>4, <3>3, <3>5 DEF Moves, Local
    <3>. QED
      BY <1>2, <1>7, <3>6, Together
  <2>. QED
    BY <2>3, <2>4
<1>. QED
  BY <1>5, <1>6, <1>7 DEF Depend

LEMMA ApplyGood ==
  ASSUME IInv, NEW w \in Threads, Apply(w)
  PROVE  IInv'
<1> DEFINE j == job[w]
<1>1. /\ pc[w] = "apply" /\ UNCHANGED <<src, watch, events, wasReady>> /\ ThreadsInv
  BY DEF Apply, IInv
<1>2. /\ j \in Job /\ At(w) = j.at /\ At(w) \in Sources /\ Read(w).rev \in 0..MaxRev
      /\ Fits("apply", j) /\ Grounds("apply", j, src, wasReady)
      /\ Item(w) = j.plan[j.k] /\ Item(w) \in Ids
  BY <1>1, AtWork, AtItem
<1>3. /\ events' \in [Sources -> Seq(Snapshot)] /\ EventInv'
      /\ watch' \in {"off", "starting", "on", "broken"}
  BY <1>1, EventsStay
<1>4. ClusterInv' /\ Grown
  <2>1. CASE UNCHANGED obj
    BY <1>1, <2>1, ClusterStays DEF IInv, cluster
  <2>2. CASE WriteObject(At(w), Item(w), Read(w).rev)
    <3>1. /\ \A n \in DOMAIN Deps[Item(w)] : Deps[Item(w)][n] \in Met(wasReady, At(w))
          /\ Patches => src[At(w)].mark
      BY <1>2 DEF Grounds
    <3>. QED
      BY <1>1, <1>2, <2>2, <3>1, WriteObjectGood DEF IInv
  <2>. QED
    BY <2>1, <2>2 DEF Apply
<1>5. CASE Fail(w) /\ Fault
  BY <1>3, <1>4, <1>5, FailGood, Together
<1>6. CASE NoFault /\ Item(w) \in Trivial /\ Continue(w, NextItem(j))
  <2>1. j = [j EXCEPT !.ok = j.ok, !.requeue = j.requeue] /\ j.ok \in BOOLEAN /\ j.requeue \in BOOLEAN
    BY <1>2 DEF Job
  <2>2. Local("apply", j, src', wasReady')
    BY <1>1, <1>2 DEF Local
  <2>3. j.plan[j.k] \in Met(wasReady', j.at)
    BY <1>2, <1>6 DEF Met
  <2>4. Prepared(NextItem(j), src', wasReady')
    BY <2>1, <2>2, <2>3, NextItemGood
  <2>. QED
    BY <1>3, <1>4, <1>6, <2>4, ContinueGood, Together
<1>7. CASE NoFault /\ Goto(w, "refresh", j) /\ UNCHANGED queued
  <2>1. Local("refresh", j, src', wasReady')
    BY <1>1, <1>2 DEF Local, Fits, Grounds, PCs
  <2>2. Moves(w, src', wasReady')
    BY <1>7, <2>1 DEF Moves
  <2>. QED
    BY <1>3, <1>4, <1>7, <2>2, Together
<1>. QED
  BY <1>5, <1>6, <1>7 DEF Apply

LEMMA RefreshGood ==
  ASSUME IInv, NEW w \in Threads, Refresh(w)
  PROVE  IInv'
<1> DEFINE j == job[w]
           o == obj[At(w)][Item(w)]
           ok == StillReady(j.ok, o.ready)
<1>1. /\ pc[w] = "refresh" /\ UNCHANGED <<cluster, watch, events>> /\ ThreadsInv
  BY DEF Refresh, IInv
<1>2. /\ j \in Job /\ At(w) = j.at /\ At(w) \in Sources
      /\ Fits("refresh", j) /\ Grounds("refresh", j, src, wasReady)
      /\ Item(w) = j.plan[j.k] /\ Item(w) \in Ids
  BY <1>1, AtWork, AtItem
<1>3. /\ ClusterInv' /\ Grown /\ src' = src /\ wasReady' = wasReady
      /\ events' \in [Sources -> Seq(Snapshot)] /\ EventInv'
      /\ watch' \in {"off", "starting", "on", "broken"}
  BY <1>1, ClusterStays, EventsStay DEF IInv, cluster
<1>4. CASE Fail(w) /\ (Fault \/ NoFault)
  BY <1>3, <1>4, FailGood, Together
<1>5. CASE NoFault /\ Continue(w, NextItem([j EXCEPT !.ok = ok]))
  <2>1. o.ready \in BOOLEAN /\ (o.ready => Item(w) \in Met(wasReady, j.at))
    BY <1>2 DEF IInv, ClusterInv, ClusterOK, Object, ReadyInv, Met
  <2>2. /\ ok \in BOOLEAN /\ (ok => j.ok) /\ (ok => o.ready) /\ j.requeue \in BOOLEAN
        /\ [j EXCEPT !.ok = ok] = [j EXCEPT !.ok = ok, !.requeue = j.requeue]
    BY <1>2, <2>1 DEF StillReady, Job
  <2>3. Local("refresh", j, src', wasReady')
    BY <1>2, <1>3 DEF Local
  <2>4. Prepared(NextItem([j EXCEPT !.ok = ok]), src', wasReady')
    <3>1. ok => j.plan[j.k] \in Met(wasReady', j.at)
      BY <1>2, <1>3, <2>1, <2>2
    <3> HIDE DEF ok, j
    <3>2. Prepared(NextItem([j EXCEPT !.ok = ok, !.requeue = j.requeue]), src', wasReady')
      BY <2>2, <2>3, <3>1, NextItemGood
    <3>. QED
      BY <2>2, <3>2
  <2>. QED
    BY <1>3, <1>5, <2>4, ContinueGood, Together
<1>. QED
  BY <1>4, <1>5 DEF Refresh

LEMMA SetConditionGood ==
  ASSUME IInv, NEW w \in Threads, SetCondition(w)
  PROVE  IInv'
<1> DEFINE value == IF job[w].ok THEN "Ready" ELSE "NotReady"
           new == [src[At(w)] EXCEPT !.cond = value]
<1>1. /\ pc[w] = "condition" /\ UNCHANGED <<obj, watch, wasReady>> /\ ThreadsInv
      /\ HandleNext(w, job[w].list, At(w), job[w].requeue) /\ (Fault \/ NoFault)
      /\ \/ WriteSource(At(w), new)
         \/ UNCHANGED <<src, events>>
  BY DEF SetCondition, IInv
<1>2. /\ At(w) \in Sources /\ At(w) \in Nat /\ job[w].list \in [Sources -> Snapshot]
      /\ MarksHold(job[w].list, src)
  BY <1>1, AtWork, BoundsAssumption DEF Sources, BoundsAssumption
<1>3. /\ ClusterInv' /\ Grown /\ EventInv' /\ events' \in [Sources -> Seq(Snapshot)]
  <2>1. CASE WriteSource(At(w), new)
    <3>1. src[At(w)] \in Source
      BY <1>2 DEF IInv, ClusterInv, ClusterOK
    <3>2. new \in Source /\ new.mark = src[At(w)].mark
      BY <3>1 DEF Source
    <3>. QED
      BY <1>1, <1>2, <2>1, <3>2, WriteSourceGood DEF IInv
  <2>2. CASE UNCHANGED <<src, events>>
    BY <1>1, <2>2, ClusterStays, EventsStay DEF IInv, cluster
  <2>. QED
    BY <1>1, <2>1, <2>2
<1>4. MarksHold(job[w].list, src')
  BY <1>2, <1>3 DEF MarksHold, Grown
<1>5. Moves(w, src', wasReady')
  BY <1>1, <1>2, <1>4, HandleNextGood
<1>. QED
  BY <1>1, <1>3, <1>5, Together DEF IInv, QueueInv, ControllerOK

LEMMA HandleSourceGood ==
  ASSUME IInv, NEW w \in Threads, HandleSource(w)
  PROVE  IInv'
BY PatchGood, DependGood, ApplyGood, RefreshGood, SetConditionGood DEF HandleSource

-----------------------------------------------------------------------------
(* What starts a thread.                                                   *)

LEMMA ReconcileGood ==
  ASSUME IInv, Reconcile
  PROVE  IInv'
<1>1. /\ UNCHANGED <<cluster, watch, events, troubles>> /\ queued' = FALSE
      /\ Goto("worker", "list", NoJob) /\ "worker" \in Threads
  BY DEF Reconcile, Threads
<1>2. ClusterInv' /\ Grown /\ UNCHANGED <<src, wasReady>>
  BY <1>1, ClusterStays DEF IInv, cluster
<1>3. Moves("worker", src', wasReady')
  BY <1>1, IdleGood DEF Moves
<1>. QED
  BY <1>1, <1>2, <1>3, EventsStay, Together DEF NoFault

LEMMA RunGood ==
  ASSUME IInv, Run
  PROVE  IInv'
<1> DEFINE list == [s \in Sources |-> Seen(src[s])]
<1>1. UNCHANGED <<cluster, events>> /\ "worker" \in Threads
  BY DEF Run, Threads
<1>2. ClusterInv' /\ Grown /\ src' = src /\ wasReady' = wasReady
  BY <1>1, ClusterStays DEF IInv, cluster
<1>3. events' \in [Sources -> Seq(Snapshot)] /\ EventInv'
  BY <1>1, <1>2 DEF IInv, QueueInv, ControllerOK, EventInv
<1>4. watch' \in {"off", "starting", "on", "broken"}
  BY DEF Run, IInv, QueueInv, ControllerOK
<1>5. CASE Fault /\ Fail("worker")
  BY <1>1, <1>2, <1>3, <1>4, <1>5, FailGood, Together
<1>6. CASE HandleNext("worker", list, 0, FALSE) /\ (Fault \/ NoFault)
  <2>1. \A s \in Sources : src[s] \in Source
    BY DEF IInv, ClusterInv, ClusterOK
  <2>2. list \in [Sources -> Snapshot] /\ MarksHold(list, src)
    BY <2>1, SeenType DEF MarksHold
  <2>3. Moves("worker", src', wasReady')
    BY <1>2, <1>6, <2>2, HandleNextGood
  <2>. QED
    BY <1>1, <1>2, <1>3, <1>4, <1>6, <2>3, Together
<1>. QED
  BY <1>5, <1>6 DEF Run

LEMMA CallbackGood ==
  ASSUME IInv, Callback
  PROVE  IInv'
<1>1. UNCHANGED <<cluster, watch>> /\ "informer" \in Threads
  BY DEF Callback, Threads
<1>2. ClusterInv' /\ Grown /\ src' = src /\ wasReady' = wasReady
  BY <1>1, ClusterStays DEF IInv, cluster
<1>3. PICK s \in Sources :
        /\ events[s] # <<>>
        /\ events' = [events EXCEPT ![s] = Tail(@)]
        /\ \/ NoFault /\ HandleNext("informer", [Nothing EXCEPT ![s] = Head(events[s])], 0, FALSE)
           \/ Fault /\ Fail("informer")
  BY DEF Callback
<1>4. events \in [Sources -> Seq(Snapshot)] /\ EventInv
  BY DEF IInv, QueueInv, ControllerOK
<1>5. /\ Head(events[s]) \in Snapshot /\ Head(events[s]) = events[s][1]
      /\ 1 \in DOMAIN events[s]
      /\ Tail(events[s]) \in Seq(Snapshot)
      /\ \A n \in DOMAIN Tail(events[s]) :
           n + 1 \in DOMAIN events[s] /\ Tail(events[s])[n] = events[s][n + 1]
  BY <1>3, <1>4, HeadTailProperties
<1>6. events' \in [Sources -> Seq(Snapshot)]
  BY <1>3, <1>4, <1>5
<1>7. EventInv'
  <2> SUFFICES ASSUME NEW t \in Sources, NEW n \in DOMAIN events'[t], events'[t][n].mark
               PROVE  src[t].mark
    BY <1>2 DEF EventInv
  <2>1. CASE t = s
    BY <1>3, <1>4, <1>5, <2>1 DEF EventInv
  <2>2. CASE t # s
    BY <1>3, <1>4, <2>2 DEF EventInv
  <2>. QED
    BY <2>1, <2>2
<1>8. watch' \in {"off", "starting", "on", "broken"}
  BY <1>1 DEF IInv, QueueInv, ControllerOK
<1>9. CASE Fault /\ Fail("informer")
  BY <1>1, <1>2, <1>6, <1>7, <1>8, <1>9, FailGood, Together
<1>10. CASE NoFault /\ HandleNext("informer", [Nothing EXCEPT ![s] = Head(events[s])], 0, FALSE)
  <2> DEFINE list == [Nothing EXCEPT ![s] = Head(events[s])]
  <2>1. Nothing \in [Sources -> Snapshot] /\ \A t \in Sources : ~Nothing[t].mark
    BY BoundsAssumption DEF Nothing, Snapshot, BoundsAssumption
  <2>2. list \in [Sources -> Snapshot] /\ MarksHold(list, src)
    BY <1>4, <1>5, <2>1 DEF MarksHold, EventInv
  <2>3. Moves("informer", src', wasReady')
    BY <1>2, <1>10, <2>2, HandleNextGood
  <2>. QED
    BY <1>1, <1>2, <1>6, <1>7, <1>8, <1>10, <2>3, Together
<1>. QED
  BY <1>3, <1>9, <1>10

LEMMA IInvNext == IInv /\ [Next]_vars => IInv'
<1> SUFFICES ASSUME IInv, [Next]_vars PROVE IInv'
  OBVIOUS
<1>1. CASE Worker
  BY <1>1, ReconcileGood, RunGood, HandleSourceGood DEF Worker, Threads
<1>2. CASE Informer
  BY <1>2, CallbackGood, HandleSourceGood DEF Informer, Threads
<1>3. CASE Environment
  BY <1>3, EditGood, ObjectGood, InformerListGood, ResyncGood, CrashGood DEF Environment
<1>4. CASE UNCHANGED vars
  <2>1. ClusterInv' /\ Grown
    BY <1>4, ClusterStays DEF IInv, vars, cluster
  <2>2. ThreadsInv'
    BY <1>4, <2>1, ThreadsStay DEF IInv, vars, threads
  <2>3. QueueInv'
    BY <1>4, QueueStays DEF IInv, vars, QueueInv
  <2>. QED
    BY <2>1, <2>2, <2>3 DEF IInv
<1>. QED
  BY <1>1, <1>2, <1>3, <1>4 DEF Next

LEMMA IInvHolds == Spec => []IInv
BY IInvInit, IInvNext, PTL DEF Spec

-----------------------------------------------------------------------------
(* The theorems.                                                           *)

\* The variables have their types and the threads their places in the lists,
\* for every template and all bounds (HandleSource, checkDependentObjects).
THEOREM TypeCorrect == Spec => []TypeOK
<1>1. IInv => TypeOK
  BY DEF IInv, ThreadsInv, ClusterInv, QueueInv, TypeOK
<1>. QED
  BY <1>1, IInvHolds, PTL

\* No object exists before all it depends on was ready once, however many
\* sources there are and whatever they are rendered to (checkDependentObjects).
THEOREM DependenciesFirstCorrect == Spec => []DependenciesFirst
<1>1. IInv => DependenciesFirst
  BY DEF IInv, ClusterInv
<1>. QED
  BY <1>1, IInvHolds, PTL

\* No thread is about to call a source ready for objects that never were, but
\* for those it skipped (HandleSource).
THEOREM ReadyIsEarnedCorrect == Spec => []ReadyIsEarned
<1>1. IInv => ReadyIsEarned
  <2> SUFFICES ASSUME IInv, NEW w \in Threads, pc[w] = "condition", job[w].ok,
                      NEW n \in DOMAIN job[w].plan
               PROVE  \/ job[w].plan[n] \in wasReady[At(w)] \cup Trivial
                      \/ job[w].requeue /\ Deps[job[w].plan[n]] # <<>>
    BY DEF ReadyIsEarned
  <2>1. /\ job[w] \in Job /\ At(w) = job[w].at
        /\ Grounds("condition", job[w], src, wasReady)
    BY AtWork DEF IInv
  <2>2. n < job[w].k
    BY <2>1, JobType DEF Grounds
  <2>. QED
    BY <2>1, <2>2 DEF Grounds, PassedReady, Met
<1>. QED
  BY <1>1, IInvHolds, PTL

\* With patches, objects are only made from sources that were patched, also
\* when both threads decide on old snapshots (HandleSource, alreadyApplied).
THEOREM PatchedFirstCorrect == Spec => []PatchedFirst
<1>1. IInv => PatchedFirst
  BY DEF IInv, ClusterInv
<1>. QED
  BY <1>1, IInvHolds, PTL

-----------------------------------------------------------------------------
(* The refinement of GatedRollout.                                         *)

Created == {x \in Objects : x[2] \in present(x[1])}
Settled == {x \in Objects : x[2] \in wasReady[x[1]]}

LEMMA RolloutInit == Init => Rollout!Init
<1> SUFFICES ASSUME Init PROVE Created = {} /\ Settled = {}
  BY DEF Rollout!Init, Created, Settled
<1>1. \A x \in Objects : x[1] \in Sources /\ x[2] \in Ids
  BY DEF Objects
<1>. QED
  BY <1>1 DEF Init, Created, Settled, present, Absent

\* Only three actions change the objects.
LEMMA ObjectsChange ==
  ASSUME [Next]_vars
  PROVE  \/ UNCHANGED <<obj, wasReady>>
         \/ \E w \in Threads : Apply(w)
         \/ \E s \in Sources, i \in Ids : BecomeReady(s, i) \/ Disturb(s, i)
<1>1. CASE Worker
  BY <1>1 DEF Worker, HandleSource, Reconcile, Run, Patch, Depend, Refresh, SetCondition,
              cluster, Threads
<1>2. CASE Informer
  BY <1>2 DEF Informer, HandleSource, Callback, Patch, Depend, Refresh, SetCondition,
              cluster, Threads
<1>3. CASE Environment
  BY <1>3 DEF Environment, Edit, InformerList, Resync, Crash, cluster
<1>4. CASE UNCHANGED vars
  BY <1>4 DEF vars
<1>. QED
  BY <1>1, <1>2, <1>3, <1>4 DEF Next

LEMMA RolloutStep ==
  ASSUME IInv, [Next]_vars
  PROVE  [Rollout!Next]_<<Created, Settled>>
<1>1. /\ obj \in [Sources -> [Ids -> Object]] /\ wasReady \in [Sources -> SUBSET Ids]
      /\ \A x \in Objects : x = <<x[1], x[2]>> /\ x[1] \in Sources /\ x[2] \in Ids
      /\ \A s \in Sources, i \in Ids : <<s, i>> \in Objects
  BY DEF IInv, ClusterInv, ClusterOK, Objects
<1>2. ASSUME UNCHANGED <<obj, wasReady>>
      PROVE  UNCHANGED <<Created, Settled>>
  BY <1>2 DEF Created, Settled, present
<1>3. ASSUME NEW s \in Sources, NEW i \in Ids, BecomeReady(s, i)
      PROVE  Rollout!Settle(<<s, i>>)
  <2>1. <<s, i>> \in Created
    BY <1>1, <1>3 DEF BecomeReady, Created, present
  <2>2. Settled' = Settled \cup {<<s, i>>}
    BY <1>1, <1>3 DEF BecomeReady, Settled
  <2>3. \A t \in Sources, k \in Ids : obj'[t][k].rev # 0 <=> obj[t][k].rev # 0
    BY <1>1, <1>3 DEF BecomeReady, Object
  <2>4. Created' = Created
    BY <1>1, <2>3 DEF Created, present
  <2>. QED
    BY <2>1, <2>2, <2>4 DEF Rollout!Settle, Created, Settled
<1>4. ASSUME NEW s \in Sources, NEW i \in Ids, Disturb(s, i)
      PROVE  UNCHANGED <<Created, Settled>> \/ Rollout!Vanish(<<s, i>>)
  <2>1. Settled' = Settled
    BY <1>4 DEF Disturb, Settled
  <2>2. CASE obj' = [obj EXCEPT ![s][i].ready = FALSE]
    <3>1. \A t \in Sources, k \in Ids : obj'[t][k].rev # 0 <=> obj[t][k].rev # 0
      BY <1>1, <2>2 DEF Object
    <3>. QED
      BY <1>1, <2>1, <3>1 DEF Created, present
  <2>3. CASE obj' = [obj EXCEPT ![s][i] = Absent]
    <3>1. Absent \in Object /\ Absent.rev = 0
      BY BoundsAssumption DEF Absent, Object, BoundsAssumption
    <3>2. /\ obj'[s][i].rev = 0
          /\ \A t \in Sources, k \in Ids : t # s \/ k # i => obj'[t][k] = obj[t][k]
      BY <1>1, <2>3, <3>1, ObjectSet
    <3>3. Created' = Created \ {<<s, i>>}
      BY <1>1, <3>2 DEF Created, present
    <3>. QED
      BY <2>1, <3>3 DEF Rollout!Vanish, Created, Settled
  <2>. QED
    BY <1>4, <2>2, <2>3 DEF Disturb
<1>5. ASSUME NEW w \in Threads, Apply(w)
      PROVE  \/ UNCHANGED <<Created, Settled>>
             \/ <<At(w), Item(w)>> \in Objects /\ Rollout!Create(<<At(w), Item(w)>>)
  <2> DEFINE s == At(w)
             i == Item(w)
  <2>1. /\ s \in Sources /\ i \in Ids /\ Read(w).rev # 0 /\ Read(w).rev \in 1..MaxRev
        /\ \A n \in DOMAIN Deps[i] : Deps[i][n] \in Met(wasReady, s)
    BY <1>5, AtWork, AtItem DEF IInv, Apply, Grounds
  <2>2. CASE UNCHANGED obj
    BY <1>5, <2>2 DEF Apply, Created, Settled, present
  <2>3. CASE obj' = [obj EXCEPT ![s][i] = [rev |-> Read(w).rev, ready |-> FALSE]]
    <3>1. [rev |-> Read(w).rev, ready |-> FALSE] \in Object
      BY <2>1 DEF Object
    <3>2. /\ obj'[s][i].rev # 0
          /\ \A t \in Sources, k \in Ids : t # s \/ k # i => obj'[t][k] = obj[t][k]
      BY <1>1, <2>1, <2>3, <3>1, ObjectSet
    <3>3. Created' = Created \cup {<<s, i>>}
      BY <1>1, <2>1, <3>2 DEF Created, present
    <3>4. Settled' = Settled
      BY <1>5 DEF Apply, Settled
    <3>5. Gates[<<s, i>>] \subseteq Settled
      <4>1. <<s, i>> \in Objects /\ \A n \in DOMAIN Deps[i] : Deps[i][n] \in Ids
        BY <1>1, <2>1, DepsType
      <4>2. Gates[<<s, i>>] = {<<s, k>> : k \in {Deps[i][n] : n \in DOMAIN Deps[i]} \ Trivial}
        BY <4>1 DEF Gates
      <4>. QED
        BY <1>1, <2>1, <4>1, <4>2 DEF Met, Settled
    <3>. QED
      BY <1>1, <2>1, <3>3, <3>4, <3>5 DEF Rollout!Create, Created, Settled
  <2>. QED
    BY <1>5, <2>2, <2>3 DEF Apply, WriteObject
<1>6. CASE \E s \in Sources, i \in Ids : BecomeReady(s, i) \/ Disturb(s, i)
  BY <1>1, <1>3, <1>4, <1>6 DEF Rollout!Next
<1>7. CASE \E w \in Threads : Apply(w)
  <2>1. PICK w \in Threads : Apply(w)
    BY <1>7
  <2>. QED
    BY <1>5, <2>1 DEF Rollout!Next, Rollout!Create
<1>8. CASE UNCHANGED <<Created, Settled>>
  BY <1>8
<1>. QED
  BY <1>2, <1>6, <1>7, <1>8, ObjectsChange

\* The worker and the informer together implement GatedRollout: the objects of
\* all sources are created in the order of their dependencies.
THEOREM RolloutCorrect == Spec => ImplementsRollout
<1>1. IInv /\ [Next]_vars => [Rollout!Next]_<<Created, Settled>>
  BY RolloutStep
<1>. QED
  BY <1>1, RolloutInit, IInvHolds, PTL
     DEF Spec, ImplementsRollout, Rollout!Spec, Created, Settled

-----------------------------------------------------------------------------
(* The way of a thread through a pass.                                     *)

\* From p with j to r with q: the lists are the same, and q is further on.
Onward(p, j, r, q) ==
  /\ q.list = j.list
  /\ p # "patch" /\ q.at = j.at => q.plan = j.plan
  /\ \/ q.at > j.at
     \/ q.at = j.at /\ q.k > j.k
     \/ q.at = j.at /\ q.k = j.k /\ Order[r] > Order[p]
     \/ q.at = j.at /\ q.k = j.k /\ r = p /\ q.d > j.d

\* Where thread w may go from p with j.
GoesOn(w, p, j) ==
  \E r, q : Goto(w, r, q) /\ (\/ r = "idle" /\ q = NoJob
                           \/ Onward(p, j, r, q))

\* A thread starts with a source after the at-th of the list, if at all.
Later(list, at, q) == q.list = list /\ q.at > at

StartsAfter(w, list, at) ==
  \E r, q : Goto(w, r, q) /\ (\/ r = "idle" /\ q = NoJob
                           \/ Later(list, at, q))

LEMMA HandleNextOnward ==
  ASSUME NEW w, NEW list, NEW at, NEW requeue, HandleNext(w, list, at, requeue)
  PROVE  StartsAfter(w, list, at)
<1> DEFINE left == {s \in Sources : s > at /\ list[s].rev # 0}
<1>1. CASE Finish(w, requeue)
  BY <1>1 DEF Finish, StartsAfter
<1>2. ASSUME NEW s \in left,
             IF NeedsPatch(list[s])
               THEN Goto(w, "patch", Start(list, s)) /\ UNCHANGED queued
               ELSE Render(w, Start(list, s))
      PROVE  StartsAfter(w, list, at)
  <2> DEFINE j == Start(list, s)
  <2>1. j.list = list /\ j.at = s /\ s > at
    BY DEF Start
  <2>2. CASE Goto(w, "patch", j)
    BY <2>1, <2>2 DEF StartsAfter, Later
  <2>3. CASE Fail(w)
    BY <2>3 DEF Fail, StartsAfter
  <2>4. ASSUME NEW objs, Continue(w, [j EXCEPT !.plan = objs])
        PROVE  StartsAfter(w, list, at)
    <3>1. [j EXCEPT !.plan = objs].list = list /\ [j EXCEPT !.plan = objs].at = s
      BY DEF Start
    <3>. QED
      BY <2>1, <2>4, <3>1 DEF Continue, StartsAfter, Later
  <2>. QED
    BY <1>2, <2>2, <2>3, <2>4 DEF Render
<1>. QED
  BY <1>1, <1>2 DEF HandleNext

LEMMA FailOnward ==
  ASSUME NEW w, NEW p, NEW j, Fail(w)
  PROVE  GoesOn(w, p, j)
BY DEF Fail, GoesOn

\* The next object is further on, wherever its handling starts.
LEMMA NextItemOnward ==
  ASSUME NEW w, NEW p, NEW j \in Job, NEW ok, NEW requeue,
         Continue(w, NextItem([j EXCEPT !.ok = ok, !.requeue = requeue]))
  PROVE  GoesOn(w, p, j)
<1> DEFINE r == [j EXCEPT !.ok = ok, !.requeue = requeue]
           q == NextItem(r)
<1>1. r.list = j.list /\ r.at = j.at /\ r.plan = j.plan /\ r.k = j.k
  BY DEF Job
<1>2. q = [r EXCEPT !.k = r.k + 1, !.d = 1]
  BY DEF NextItem
<1>3. q.list = j.list /\ q.at = j.at /\ q.plan = j.plan /\ q.k = j.k + 1
  BY <1>1, <1>2 DEF Job
<1>4. q.k > j.k
  BY <1>3, JobType
<1>5. Goto(w, Stage(q), q)
  BY DEF Continue
<1> HIDE DEF q
<1>. QED
  BY <1>3, <1>4, <1>5 DEF GoesOn, Onward

LEMMA PatchOnward ==
  ASSUME ThreadsInv, NEW w \in Threads, Patch(w)
  PROVE  GoesOn(w, pc[w], job[w])
<1> DEFINE j == job[w]
<1>1. pc[w] = "patch" /\ j \in Job
  BY AtWork DEF Patch
<1>2. CASE Fail(w)
  BY <1>2, FailOnward
<1>3. ASSUME NEW objs, Continue(w, [j EXCEPT !.plan = objs])
      PROVE  GoesOn(w, pc[w], j)
  <2> DEFINE q == [j EXCEPT !.plan = objs]
  <2>1. q.list = j.list /\ q.at = j.at /\ q.k = j.k
    BY <1>1 DEF Job
  <2>2. Stage(q) \in {"condition", "apply", "depend"}
    BY DEF Stage
  <2>3. Order[Stage(q)] > Order["patch"]
    BY <2>2 DEF Order
  <2>4. Goto(w, Stage(q), q)
    BY <1>3 DEF Continue
  <2> HIDE DEF q
  <2>. QED
    BY <1>1, <2>1, <2>3, <2>4 DEF GoesOn, Onward
<1>. QED
  BY <1>2, <1>3 DEF Patch, Render

LEMMA DependOnward ==
  ASSUME ThreadsInv, NEW w \in Threads, Depend(w)
  PROVE  GoesOn(w, pc[w], job[w])
<1> DEFINE j == job[w]
<1>1. pc[w] = "depend" /\ j \in Job /\ j.d \in Nat
  BY AtWork, JobType DEF Depend
<1>2. CASE Fail(w)
  BY <1>2, FailOnward
<1>3. CASE Goto(w, "apply", j)
  BY <1>1, <1>3 DEF GoesOn, Onward, Order
<1>4. CASE Goto(w, "depend", [j EXCEPT !.d = @ + 1])
  <2> DEFINE q == [j EXCEPT !.d = @ + 1]
  <2>1. q.list = j.list /\ q.at = j.at /\ q.plan = j.plan /\ q.k = j.k /\ q.d = j.d + 1
    BY <1>1 DEF Job
  <2>2. q.d > j.d
    BY <1>1, <2>1
  <2> HIDE DEF q
  <2>3. Goto(w, "depend", q)
    BY <1>4 DEF q
  <2>. QED
    BY <1>1, <2>1, <2>2, <2>3 DEF GoesOn, Onward
<1>5. CASE Continue(w, NextItem([j EXCEPT !.requeue = TRUE]))
  <2>1. [j EXCEPT !.requeue = TRUE] = [j EXCEPT !.ok = j.ok, !.requeue = TRUE]
    BY <1>1 DEF Job
  <2>. QED
    BY <1>1, <1>5, <2>1, NextItemOnward
<1>. QED
  BY <1>2, <1>3, <1>4, <1>5 DEF Depend

LEMMA ApplyOnward ==
  ASSUME ThreadsInv, NEW w \in Threads, Apply(w)
  PROVE  GoesOn(w, pc[w], job[w])
<1> DEFINE j == job[w]
<1>1. pc[w] = "apply" /\ j \in Job
  BY AtWork DEF Apply
<1>2. CASE Fail(w)
  BY <1>2, FailOnward
<1>3. CASE Goto(w, "refresh", j)
  BY <1>1, <1>3 DEF GoesOn, Onward, Order
<1>4. CASE Continue(w, NextItem(j))
  <2>1. j = [j EXCEPT !.ok = j.ok, !.requeue = j.requeue]
    BY <1>1 DEF Job
  <2>. QED
    BY <1>1, <1>4, <2>1, NextItemOnward
<1>. QED
  BY <1>2, <1>3, <1>4 DEF Apply

LEMMA RefreshOnward ==
  ASSUME ThreadsInv, NEW w \in Threads, Refresh(w)
  PROVE  GoesOn(w, pc[w], job[w])
<1> DEFINE j == job[w]
           ok == StillReady(j.ok, obj[At(w)][Item(w)].ready)
<1>1. pc[w] = "refresh" /\ j \in Job
  BY AtWork DEF Refresh
<1>2. CASE Fail(w)
  BY <1>2, FailOnward
<1>3. CASE Continue(w, NextItem([j EXCEPT !.ok = ok]))
  <2>1. [j EXCEPT !.ok = ok] = [j EXCEPT !.ok = ok, !.requeue = j.requeue]
    BY <1>1 DEF Job
  <2> HIDE DEF ok
  <2>. QED
    BY <1>1, <1>3, <2>1, NextItemOnward
<1>. QED
  BY <1>2, <1>3 DEF Refresh

LEMMA SetConditionOnward ==
  ASSUME ThreadsInv, NEW w \in Threads, SetCondition(w)
  PROVE  GoesOn(w, pc[w], job[w])
<1>1. /\ HandleNext(w, job[w].list, At(w), job[w].requeue)
      /\ pc[w] = "condition" /\ At(w) = job[w].at /\ At(w) \in Nat
  BY AtWork, BoundsAssumption DEF SetCondition, Sources, BoundsAssumption
<1>2. PICK r, q : Goto(w, r, q) /\ (\/ r = "idle" /\ q = NoJob
                                 \/ Later(job[w].list, At(w), q))
  BY <1>1, HandleNextOnward DEF StartsAfter
<1>3. Later(job[w].list, At(w), q) => Onward(pc[w], job[w], r, q)
  BY <1>1 DEF Later, Onward
<1>. QED
  BY <1>2, <1>3 DEF GoesOn

LEMMA HandleSourceOnward ==
  ASSUME ThreadsInv, NEW w \in Threads, HandleSource(w)
  PROVE  GoesOn(w, pc[w], job[w])
BY PatchOnward, DependOnward, ApplyOnward, RefreshOnward, SetConditionOnward
   DEF HandleSource

\* What the worker listed, and what the informer was told of one source.
ListNow == [s \in Sources |-> Seen(src[s])]
Told(s) == [Nothing EXCEPT ![s] = Head(events[s])]

\* Thread w alone decides where it goes, unless the operator dies.
LEMMA WayOfThread ==
  ASSUME ThreadsInv, [Next]_vars, NEW w \in Threads
  PROVE  \/ UNCHANGED <<pc[w], job[w]>>
         \/ pc'[w] = "idle" /\ job'[w] = NoJob
         \/ /\ pc[w] \notin {"idle", "list"} /\ HandleSource(w)
            /\ Onward(pc[w], job[w], pc'[w], job'[w])
         \/ pc[w] = "list" /\ Run /\ Later(ListNow, 0, job'[w])
         \/ pc[w] = "idle" /\ Reconcile /\ job'[w] = NoJob
         \/ /\ pc[w] = "idle" /\ Callback
            /\ \E s \in Sources : events[s] # <<>> /\ Later(Told(s), 0, job'[w])
<1>1. DOMAIN pc = Threads /\ DOMAIN job = Threads
  BY ThreadsLocal
<1>2. ASSUME NEW v \in Threads, NEW r, NEW q, Goto(v, r, q)
      PROVE  IF v = w THEN pc'[w] = r /\ job'[w] = q ELSE UNCHANGED <<pc[w], job[w]>>
  BY <1>1, <1>2 DEF Goto
<1>3. ASSUME NEW v \in Threads, HandleSource(v)
      PROVE  \/ UNCHANGED <<pc[w], job[w]>>
             \/ pc'[w] = "idle" /\ job'[w] = NoJob
             \/ /\ pc[w] \notin {"idle", "list"} /\ HandleSource(w)
                /\ Onward(pc[w], job[w], pc'[w], job'[w])
  <2>1. PICK r, q : Goto(v, r, q) /\ (\/ r = "idle" /\ q = NoJob
                                   \/ Onward(pc[v], job[v], r, q))
    BY <1>3, HandleSourceOnward DEF GoesOn
  <2>2. pc[v] \notin {"idle", "list"}
    BY <1>3 DEF HandleSource, Patch, Depend, Apply, Refresh, SetCondition
  <2>. QED
    BY <1>2, <1>3, <2>1, <2>2
<1>4. ASSUME Run
      PROVE  \/ UNCHANGED <<pc[w], job[w]>>
             \/ pc'[w] = "idle" /\ job'[w] = NoJob
             \/ pc[w] = "list" /\ Later(ListNow, 0, job'[w])
  <2>1. "worker" \in Threads /\ pc["worker"] = "list"
    BY <1>4 DEF Run, Threads
  <2>2. Fail("worker") \/ HandleNext("worker", ListNow, 0, FALSE)
    BY <1>4 DEF Run, ListNow
  <2>3. PICK r, q : Goto("worker", r, q) /\ (\/ r = "idle" /\ q = NoJob
                                          \/ Later(ListNow, 0, q))
    BY <2>2, HandleNextOnward DEF Fail, StartsAfter
  <2>. QED
    BY <1>2, <2>1, <2>3
<1>5. ASSUME Reconcile
      PROVE  \/ UNCHANGED <<pc[w], job[w]>>
             \/ pc[w] = "idle" /\ job'[w] = NoJob
  BY <1>2, <1>5 DEF Reconcile, Threads
<1>6. ASSUME Callback
      PROVE  \/ UNCHANGED <<pc[w], job[w]>>
             \/ pc'[w] = "idle" /\ job'[w] = NoJob
             \/ /\ pc[w] = "idle"
                /\ \E s \in Sources : events[s] # <<>> /\ Later(Told(s), 0, job'[w])
  <2>1. "informer" \in Threads /\ pc["informer"] = "idle"
    BY <1>6 DEF Callback, Threads
  <2>2. PICK s \in Sources :
          /\ events[s] # <<>>
          /\ Fail("informer") \/ HandleNext("informer", Told(s), 0, FALSE)
    BY <1>6 DEF Callback, Told
  <2>3. PICK r, q : Goto("informer", r, q) /\ (\/ r = "idle" /\ q = NoJob
                                            \/ Later(Told(s), 0, q))
    BY <2>2, HandleNextOnward DEF Fail, StartsAfter
  <2>. QED
    BY <1>2, <2>1, <2>2, <2>3
<1>7. CASE Worker \/ Informer
  BY <1>3, <1>4, <1>5, <1>6, <1>7 DEF Worker, Informer, Threads
<1>8. CASE Environment
  BY <1>8 DEF Environment, Edit, BecomeReady, Disturb, InformerList, Resync, Crash, threads
<1>9. CASE UNCHANGED vars
  BY <1>9 DEF vars
<1>. QED
  BY <1>7, <1>8, <1>9 DEF Next

\* Every step of a pass ends it or descends in a well-founded order, for any
\* number of sources, objects and dependencies (Run, HandleSource): that a
\* thread which takes its steps comes to an end.
THEOREM PassGetsOnCorrect == Spec => PassGetsOn
<1>1. ASSUME IInv, [Next]_vars, NEW w \in Threads, pc[w] # "idle",
             ~UNCHANGED <<pc[w], job[w]>>, pc'[w] # "idle"
      PROVE  /\ Further(w)
             /\ pc[w] # "list" => job'[w].list = job[w].list
             /\ pc[w] # "patch" /\ At(w)' = At(w) => job'[w].plan = job[w].plan
  <2>1. CASE Onward(pc[w], job[w], pc'[w], job'[w])
    BY <2>1 DEF Onward, Further, At
  <2>2. CASE pc[w] = "list" /\ Later(ListNow, 0, job'[w])
    <3>1. job[w].at = 0 /\ job'[w].at > 0 /\ job'[w].at # 0
      <4>1. Fits(pc[w], job[w])
        BY <1>1 DEF IInv, ThreadsInv, ThreadsOK
      <4>2. job[w].at = 0
        BY <2>2, <4>1 DEF Fits
      <4>. QED
        BY <2>2, <4>2 DEF Later
    <3>. QED
      BY <2>2, <3>1 DEF Further, At
  <2>. QED
    BY <1>1, <2>1, <2>2, WayOfThread DEF IInv
<1>2. IInv /\ [Next]_vars =>
        [\A w \in Threads : pc[w] # "idle" =>
           \/ UNCHANGED <<pc[w], job[w]>>
           \/ pc'[w] = "idle"
           \/ /\ Further(w)
              /\ pc[w] # "list" => job'[w].list = job[w].list
              /\ pc[w] # "patch" /\ At(w)' = At(w) => job'[w].plan = job[w].plan]_vars
  BY <1>1
<1>. QED
  BY <1>2, IInvHolds, PTL DEF Spec, PassGetsOn

-----------------------------------------------------------------------------
(* What is told of a source, and what a thread takes of it.                *)

\* A source is written, and its informer may be told what it is now.
LEMMA WriteSourceTells ==
  ASSUME IInv, NEW s \in Sources, NEW t \in Sources, NEW new, WriteSource(t, new)
  PROVE  /\ src'[s] = IF t = s THEN new ELSE src[s]
         /\ \/ events'[s] = events[s]
            \/ events'[s] = Append(events[s], Seen(src'[s]))
<1>1. src \in [Sources -> Source] /\ events \in [Sources -> Seq(Snapshot)]
  BY DEF IInv, ClusterInv, ClusterOK, QueueInv, ControllerOK
<1>2. src' = [src EXCEPT ![t] = new]
  BY DEF WriteSource
<1>3. UNCHANGED events \/ events' = [events EXCEPT ![t] = Append(events[t], Seen(new))]
  BY DEF WriteSource, Notify
<1>. QED
  BY <1>1, <1>2, <1>3

\* How a source changes: users edit it, and a thread that is at it writes its
\* patches or its condition.
WrittenBy(w, s) ==
  \/ pc[w] = "patch" /\ src'[s] = [src[s] EXCEPT !.rev = Read(w).rev, !.mark = TRUE]
  \/ /\ pc[w] = "condition"
     /\ src'[s] = [src[s] EXCEPT !.cond = IF job[w].ok THEN "Ready" ELSE "NotReady"]

ToldAfter(s) ==
  \/ events'[s] \in {events[s], <<>>, <<Seen(src[s])>>, Append(events[s], Seen(src'[s]))}
  \/ events[s] # <<>> /\ events'[s] = Tail(events[s])

LEMMA SourceStep ==
  ASSUME IInv, [Next]_vars, NEW s \in Sources
  PROVE  /\ \/ UNCHANGED src[s]
            \/ Edit(s) /\ src'[s] = [src[s] EXCEPT !.rev = @ + 1]
            \/ \E w \in Threads : At(w) = s /\ WrittenBy(w, s)
         /\ ToldAfter(s)
<1> DEFINE P == /\ \/ UNCHANGED src[s]
                   \/ Edit(s) /\ src'[s] = [src[s] EXCEPT !.rev = @ + 1]
                   \/ \E w \in Threads : At(w) = s /\ WrittenBy(w, s)
                /\ ToldAfter(s)
<1>1. events \in [Sources -> Seq(Snapshot)] /\ ThreadsInv
  BY DEF IInv, QueueInv, ControllerOK
<1>2. CASE UNCHANGED <<src, events>>
  BY <1>2 DEF ToldAfter
<1>3. ASSUME NEW t \in Sources, Edit(t) PROVE P
  <2>1. WriteSource(t, [src[t] EXCEPT !.rev = @ + 1])
    BY <1>3 DEF Edit
  <2>. QED
    BY <1>3, <2>1, WriteSourceTells DEF ToldAfter
<1>4. ASSUME NEW w \in Threads, Patch(w) PROVE P
  <2>1. At(w) \in Sources /\ pc[w] = "patch"
    BY <1>1, <1>4, AtWork DEF Patch
  <2> DEFINE new == [src[At(w)] EXCEPT !.rev = Read(w).rev, !.mark = TRUE]
  <2>2. UNCHANGED <<src, events>> \/ WriteSource(At(w), new)
    BY <1>4 DEF Patch, Patched
  <2>3. ASSUME WriteSource(At(w), new) PROVE P
    <3>1. At(w) = s /\ src'[s] = new => WrittenBy(w, s)
      BY <2>1 DEF WrittenBy
    <3> HIDE DEF new
    <3>. QED
      BY <2>1, <2>3, <3>1, WriteSourceTells DEF ToldAfter
  <2>. QED
    BY <1>2, <2>2, <2>3
<1>5. ASSUME NEW w \in Threads, SetCondition(w) PROVE P
  <2>1. At(w) \in Sources /\ pc[w] = "condition"
    BY <1>1, <1>5, AtWork DEF SetCondition
  <2> DEFINE new == [src[At(w)] EXCEPT !.cond = IF job[w].ok THEN "Ready" ELSE "NotReady"]
  <2>2. UNCHANGED <<src, events>> \/ WriteSource(At(w), new)
    BY <1>5 DEF SetCondition
  <2>3. ASSUME WriteSource(At(w), new) PROVE P
    <3>1. At(w) = s /\ src'[s] = new => WrittenBy(w, s)
      BY <2>1 DEF WrittenBy
    <3> HIDE DEF new
    <3>. QED
      BY <2>1, <2>3, <3>1, WriteSourceTells DEF ToldAfter
  <2>. QED
    BY <1>2, <2>2, <2>3
<1>6. CASE InformerList
  BY <1>6 DEF InformerList, ToldAfter, cluster
<1>7. CASE Crash
  BY <1>7 DEF Crash, ToldAfter, cluster
<1>8. CASE Callback
  <2>1. PICK t \in Sources : events[t] # <<>> /\ events' = [events EXCEPT ![t] = Tail(@)]
    BY <1>8 DEF Callback
  <2>2. src' = src
    BY <1>8 DEF Callback, cluster
  <2>3. events'[s] = IF t = s THEN Tail(events[s]) ELSE events[s]
    BY <1>1, <2>1
  <2>. QED
    BY <2>1, <2>2, <2>3 DEF ToldAfter
<1>9. CASE \E w \in Threads : HandleSource(w)
  BY <1>2, <1>4, <1>5, <1>9 DEF HandleSource, Depend, Apply, Refresh, cluster
<1>10. CASE Reconcile \/ Run
  BY <1>2, <1>10 DEF Reconcile, Run, cluster
<1>11. CASE Environment
  BY <1>2, <1>3, <1>6, <1>7, <1>11 DEF Environment, BecomeReady, Disturb, Resync, cluster
<1>12. CASE UNCHANGED vars
  BY <1>2, <1>12 DEF vars
<1>. QED
  BY <1>8, <1>9, <1>10, <1>11, <1>12 DEF Next, Worker, Informer, Threads

\* Whatever G holds of a source, now and after the step, it holds of all that
\* the informer still has to hand over.
LEMMA EventsWithin ==
  ASSUME IInv, [Next]_vars, NEW s \in Sources, NEW G,
         \A n \in DOMAIN events[s] : events[s][n] \in G,
         Seen(src[s]) \in G, Seen(src'[s]) \in G
  PROVE  \A n \in DOMAIN events'[s] : events'[s][n] \in G
<1>1. events[s] \in Seq(Snapshot)
  BY DEF IInv, QueueInv, ControllerOK
<1>2. CASE events'[s] \in {events[s], <<>>, <<Seen(src[s])>>}
  BY <1>2
<1>3. CASE events'[s] = Append(events[s], Seen(src'[s]))
  <2> DEFINE v == Seen(src'[s])
             told == events[s]
  <2>1. Seen(src'[s]) \in G
    OBVIOUS
  <2>2. DOMAIN told = 1..Len(told) /\ Len(told) \in Nat
    BY <1>1
  <2>3. Append(told, v) = [n \in 1..(Len(told) + 1) |-> IF n \in 1..Len(told) THEN told[n] ELSE v]
    BY <1>1, <2>2
  <2>. QED
    BY <1>3, <2>1, <2>2, <2>3
<1>4. CASE events[s] # <<>> /\ events'[s] = Tail(events[s])
  <2>1. \A n \in DOMAIN Tail(events[s]) :
          n + 1 \in DOMAIN events[s] /\ Tail(events[s])[n] = events[s][n + 1]
    BY <1>1, <1>4, HeadTailProperties
  <2>. QED
    BY <1>4, <2>1
<1>. QED
  BY <1>2, <1>3, <1>4, SourceStep DEF ToldAfter

\* And of what a thread has in its list: it takes it from the source or from
\* what it is told.
LEMMA ListsWithin ==
  ASSUME IInv, [Next]_vars, NEW s \in Sources, NEW G,
         \A n \in DOMAIN events[s] : events[s][n] \in G, Seen(src[s]) \in G,
         NEW w \in Threads, job[w].list[s].rev # 0 => job[w].list[s] \in G,
         job'[w].list[s].rev # 0
  PROVE  job'[w].list[s] \in G
<1>1. NoJob.list[s].rev = 0 /\ \A t \in Sources : Nothing[t].rev = 0
  BY DEF NoJob, Start, Nothing
<1>2. CASE job'[w].list = job[w].list
  BY <1>2
<1>3. CASE job'[w].list = ListNow
  BY <1>3 DEF ListNow
<1>4. ASSUME NEW t \in Sources, events[t] # <<>>, job'[w].list = Told(t)
      PROVE  job'[w].list[s] \in G
  <2>1. events[t] \in Seq(Snapshot)
    BY DEF IInv, QueueInv, ControllerOK
  <2>2. 1 \in DOMAIN events[t] /\ Head(events[t]) = events[t][1]
    BY <1>4, <2>1, HeadTailProperties
  <2>3. CASE t = s
    <3>1. job'[w].list[s] = events[s][1]
      BY <1>4, <2>2, <2>3 DEF Told, Nothing
    <3>. QED
      BY <2>2, <2>3, <3>1
  <2>4. CASE t # s
    BY <1>1, <1>4, <2>4 DEF Told
  <2>. QED
    BY <2>3, <2>4
<1>. QED
  BY <1>1, <1>2, <1>3, <1>4, WayOfThread DEF IInv, Onward, Later

-----------------------------------------------------------------------------
(* Patches that are for once only.                                         *)

\* A thread that is about to patch read a source without the mark.
LEMMA NoPatchLeft ==
  ASSUME IInv, Onceoff, NEW w \in Threads, pc[w] = "patch"
  PROVE  ~MarkSeen(At(w))
<1>1. /\ Read(w) = job[w].list[job[w].at] /\ Read(w).rev # 0 /\ At(w) = job[w].at
      /\ NeedsPatch(Read(w))
  BY AtWork DEF IInv, Grounds
<1>. QED
  BY <1>1 DEF MarkSeen, NeedsPatch

LEMMA SourceMarked ==
  ASSUME IInv, [Next]_vars, Onceoff, NEW s \in Sources, MarkSeen(s)
  PROVE  src'[s].mark /\ src'[s].rev >= src[s].rev
<1>1. src[s] \in Source /\ src[s].rev \in Nat /\ src[s].mark
  BY BoundsAssumption DEF IInv, ClusterInv, ClusterOK, Source, MarkSeen, BoundsAssumption
<1>2. CASE src'[s] = [src[s] EXCEPT !.rev = @ + 1]
  <2>1. src'[s].mark /\ src'[s].rev = src[s].rev + 1
    BY <1>1, <1>2 DEF Source
  <2>. QED
    BY <1>1, <2>1
<1>3. ASSUME NEW w \in Threads, At(w) = s, WrittenBy(w, s)
      PROVE  src'[s].mark /\ src'[s].rev >= src[s].rev
  <2>1. PICK value : src'[s] = [src[s] EXCEPT !.cond = value]
    BY <1>3, NoPatchLeft DEF WrittenBy
  <2>2. src'[s].mark = src[s].mark /\ src'[s].rev = src[s].rev
    BY <1>1, <2>1 DEF Source
  <2>. QED
    BY <1>1, <2>2
<1>4. CASE UNCHANGED src[s]
  BY <1>1, <1>4
<1>. QED
  BY <1>2, <1>3, <1>4, SourceStep

\* With patches for once only, a mark that everybody has seen stays seen and no
\* thread ever again writes an older snapshot over the source, for any number
\* of sources and edits (alreadyApplied, HandleSource).
THEOREM OnceoffSettlesCorrect == Spec => OnceoffSettles
<1>1. ASSUME IInv, [Next]_vars, NEW s \in Sources, Onceoff, MarkSeen(s)
      PROVE  MarkSeen(s)' /\ src'[s].rev >= src[s].rev
  <2> DEFINE G == {v \in Snapshot : v.mark}
  <2>1. src'[s].mark /\ src'[s].rev >= src[s].rev
    BY <1>1, SourceMarked
  <2>2. /\ src[s] \in Source /\ src'[s] \in Source /\ events[s] \in Seq(Snapshot)
        /\ \A w \in Threads : job[w].list \in [Sources -> Snapshot]
    <3>1. IInv'
      BY <1>1, IInvNext
    <3>. QED
      BY <1>1, <3>1, JobType
         DEF IInv, ClusterInv, ClusterOK, QueueInv, ControllerOK, ThreadsInv, ThreadsOK, Fits
  <2>3. Seen(src[s]) \in G /\ Seen(src'[s]) \in G
    BY <1>1, <2>1, <2>2, SeenType DEF MarkSeen
  <2>4. /\ \A n \in DOMAIN events[s] : events[s][n] \in G
        /\ \A w \in Threads : job[w].list[s].rev # 0 => job[w].list[s] \in G
    BY <1>1, <2>2 DEF MarkSeen
  <2>5. \A n \in DOMAIN events'[s] : events'[s][n] \in G
    BY <1>1, <2>3, <2>4, EventsWithin
  <2>6. \A w \in Threads : job'[w].list[s].rev # 0 => job'[w].list[s] \in G
    BY <1>1, <2>3, <2>4, ListsWithin
  <2>. QED
    BY <2>1, <2>5, <2>6 DEF MarkSeen
<1>2. IInv /\ [Next]_vars =>
        [\A s \in Sources : Onceoff /\ MarkSeen(s) =>
           MarkSeen(s)' /\ src'[s].rev >= src[s].rev]_vars
  BY <1>1
<1>. QED
  BY <1>2, IInvHolds, PTL DEF Spec, OnceoffSettles

-----------------------------------------------------------------------------
(* Sources that have settled.                                              *)

\* What a thread goes through is a rendering of the snapshot it read, and it
\* looks whether an object is ready of those that are not trivial only.
PlanFits(p, j) ==
  /\ p \in {"depend", "apply", "refresh", "condition"} => j.plan \in Lists(j.list[j.at].rev)
  /\ p = "refresh" => j.plan[j.k] \notin Trivial

PlanInv == \A w \in Threads : PlanFits(pc[w], job[w])

\* A thread that comes to q takes its source for ready, unless it did not
\* before or just saw an object that is not.
Doubts(w, q) ==
  ~q.ok => q.at = At(w) /\ (~job[w].ok \/ (pc[w] = "refresh" /\ ~obj[At(w)][Item(w)].ready))

\* Thread w goes on in this manner.
Handled(w) == \E p, q : Goto(w, p, q) /\ PlanFits(p, q) /\ Doubts(w, q)

LEMMA IdleHandled ==
  ASSUME NEW w, NEW p \in {"idle", "list"}
  PROVE  PlanFits(p, NoJob) /\ Doubts(w, NoJob)
BY DEF PlanFits, Doubts, NoJob, Start

LEMMA FailHandled ==
  ASSUME NEW w, Fail(w)
  PROVE  Handled(w)
BY IdleHandled DEF Fail, Handled

LEMMA ContinueHandled ==
  ASSUME NEW w, NEW q, q.plan \in Lists(q.list[q.at].rev), Doubts(w, q), Continue(w, q)
  PROVE  Handled(w)
<1>1. Stage(q) \in {"condition", "apply", "depend"}
  BY DEF Stage
<1>2. PlanFits(Stage(q), q)
  BY <1>1 DEF PlanFits
<1>. QED
  BY <1>2 DEF Continue, Handled

LEMMA HandleNextHandled ==
  ASSUME NEW w, NEW list, NEW at, NEW requeue, HandleNext(w, list, at, requeue)
  PROVE  Handled(w)
<1>1. CASE Finish(w, requeue)
  BY <1>1, IdleHandled DEF Finish, Handled
<1>2. ASSUME NEW s \in Sources,
             IF NeedsPatch(list[s])
               THEN Goto(w, "patch", Start(list, s)) /\ UNCHANGED queued
               ELSE Render(w, Start(list, s))
      PROVE  Handled(w)
  <2> DEFINE j == Start(list, s)
  <2>1. CASE Goto(w, "patch", j)
    <3>1. PlanFits("patch", j) /\ Doubts(w, j)
      BY DEF PlanFits, Doubts, Start
    <3>. QED
      BY <2>1, <3>1 DEF Handled
  <2>2. CASE Fail(w)
    BY <2>2, FailHandled
  <2>3. ASSUME NEW objs \in Lists(j.list[j.at].rev), Continue(w, [j EXCEPT !.plan = objs])
        PROVE  Handled(w)
    <3> DEFINE q == [j EXCEPT !.plan = objs]
    <3>1. q.list = j.list /\ q.at = j.at /\ q.plan = objs /\ q.ok
      BY DEF Start
    <3>2. Continue(w, q)
      BY <2>3
    <3>3. q.plan \in Lists(q.list[q.at].rev) /\ Doubts(w, q)
      BY <3>1 DEF Doubts
    <3>. QED
      BY <3>2, <3>3, ContinueHandled
  <2>. QED
    BY <1>2, <2>1, <2>2, <2>3 DEF Render
<1>. QED
  BY <1>1, <1>2 DEF HandleNext

\* A thread that goes on with the same source and the same list.
LEMMA SameHandled ==
  ASSUME ThreadsInv, PlanInv, NEW w \in Threads,
         pc[w] \in {"depend", "apply", "refresh", "condition"}, NEW ok, NEW requeue,
         ok \/ ~job[w].ok \/ (pc[w] = "refresh" /\ ~obj[At(w)][Item(w)].ready),
         Continue(w, NextItem([job[w] EXCEPT !.ok = ok, !.requeue = requeue]))
  PROVE  Handled(w)
<1> DEFINE j == job[w]
           r == [j EXCEPT !.ok = ok, !.requeue = requeue]
           q == NextItem(r)
<1>1. j \in Job /\ j.plan \in Lists(j.list[j.at].rev) /\ At(w) = j.at
  BY AtWork DEF PlanInv, PlanFits
<1>2. r.list = j.list /\ r.at = j.at /\ r.plan = j.plan /\ r.ok = ok
  BY <1>1 DEF Job
<1>3. q = [r EXCEPT !.k = r.k + 1, !.d = 1]
  BY DEF NextItem
<1>4. q.list = j.list /\ q.at = j.at /\ q.plan = j.plan /\ q.ok = ok
  BY <1>1, <1>2, <1>3 DEF Job
<1> HIDE DEF q
<1>5. q.plan \in Lists(q.list[q.at].rev) /\ Doubts(w, q)
  BY <1>1, <1>4 DEF Doubts
<1>. QED
  BY <1>5, ContinueHandled DEF q

LEMMA HandleSourceHandled ==
  ASSUME ThreadsInv, PlanInv, NEW w \in Threads, HandleSource(w)
  PROVE  Handled(w)
<1> DEFINE j == job[w]
<1>1. /\ j \in Job /\ At(w) = j.at /\ Read(w) = j.list[j.at] /\ PlanFits(pc[w], j)
      /\ pc[w] \notin {"idle", "list"}
  BY AtWork DEF PlanInv, HandleSource, Patch, Depend, Apply, Refresh, SetCondition
<1>2. Doubts(w, j)
  BY <1>1 DEF Doubts
<1>3. CASE Fail(w)
  BY <1>3, FailHandled
<1>4. ASSUME NEW objs \in Lists(j.list[j.at].rev), Continue(w, [j EXCEPT !.plan = objs])
      PROVE  Handled(w)
  <2> DEFINE q == [j EXCEPT !.plan = objs]
  <2>1. q.list = j.list /\ q.at = j.at /\ q.plan = objs /\ q.ok = j.ok
    BY <1>1 DEF Job
  <2>2. q.plan \in Lists(q.list[q.at].rev) /\ Doubts(w, q)
    BY <1>2, <2>1 DEF Doubts
  <2>. QED
    BY <1>4, <2>2, ContinueHandled
<1>5. CASE Depend(w)
  <2>1. pc[w] = "depend"
    BY <1>5 DEF Depend
  <2>2. CASE Goto(w, "apply", j)
    BY <1>1, <1>2, <2>1, <2>2 DEF Handled, PlanFits
  <2>3. CASE Goto(w, "depend", [j EXCEPT !.d = @ + 1])
    <3> DEFINE q == [j EXCEPT !.d = @ + 1]
    <3>1. q.list = j.list /\ q.at = j.at /\ q.plan = j.plan /\ q.ok = j.ok
      BY <1>1 DEF Job
    <3> HIDE DEF q
    <3>2. PlanFits("depend", q) /\ Doubts(w, q)
      BY <1>1, <1>2, <2>1, <3>1 DEF PlanFits, Doubts
    <3>. QED
      BY <2>3, <3>2 DEF Handled, q
  <2>4. CASE Continue(w, NextItem([j EXCEPT !.requeue = TRUE]))
    <3>1. [j EXCEPT !.requeue = TRUE] = [j EXCEPT !.ok = j.ok, !.requeue = TRUE]
      BY <1>1 DEF Job
    <3>. QED
      BY <2>1, <2>4, <3>1, SameHandled
  <2>. QED
    BY <1>3, <1>5, <2>2, <2>3, <2>4 DEF Depend
<1>6. CASE Apply(w)
  <2>1. pc[w] = "apply"
    BY <1>6 DEF Apply
  <2>2. CASE Item(w) \notin Trivial /\ Goto(w, "refresh", j)
    BY <1>1, <1>2, <2>1, <2>2 DEF Handled, PlanFits, Item
  <2>3. CASE Continue(w, NextItem(j))
    <3>1. j = [j EXCEPT !.ok = j.ok, !.requeue = j.requeue]
      BY <1>1 DEF Job
    <3>. QED
      BY <2>1, <2>3, <3>1, SameHandled
  <2>. QED
    BY <1>3, <1>6, <2>2, <2>3 DEF Apply
<1>7. CASE Refresh(w)
  <2> DEFINE ok == StillReady(j.ok, obj[At(w)][Item(w)].ready)
  <2>1. pc[w] = "refresh"
    BY <1>7 DEF Refresh
  <2>2. ok \/ ~j.ok \/ (pc[w] = "refresh" /\ ~obj[At(w)][Item(w)].ready)
    BY <2>1 DEF StillReady
  <2>3. CASE Continue(w, NextItem([j EXCEPT !.ok = ok]))
    <3>1. [j EXCEPT !.ok = ok] = [j EXCEPT !.ok = ok, !.requeue = j.requeue]
      BY <1>1 DEF Job
    <3> HIDE DEF ok
    <3>. QED
      BY <2>1, <2>2, <2>3, <3>1, SameHandled
  <2>. QED
    BY <1>3, <1>7, <2>3 DEF Refresh
<1>8. CASE Patch(w)
  BY <1>1, <1>3, <1>4, <1>8 DEF Patch, Render
<1>9. CASE SetCondition(w)
  BY <1>9, HandleNextHandled DEF SetCondition
<1>. QED
  BY <1>5, <1>6, <1>7, <1>8, <1>9 DEF HandleSource

\* Either thread, in any step, stays where it is or goes on in this manner.
LEMMA ThreadHandled ==
  ASSUME ThreadsInv, PlanInv, [Next]_vars, NEW w \in Threads
  PROVE  \/ UNCHANGED <<pc[w], job[w]>>
         \/ PlanFits(pc'[w], job'[w]) /\ Doubts(w, job'[w])
<1>1. DOMAIN pc = Threads /\ DOMAIN job = Threads
  BY ThreadsLocal
<1>2. ASSUME NEW v \in Threads, Handled(v)
      PROVE  \/ UNCHANGED <<pc[w], job[w]>>
             \/ PlanFits(pc'[w], job'[w]) /\ Doubts(w, job'[w])
  <2>1. PICK p, q : Goto(v, p, q) /\ PlanFits(p, q) /\ Doubts(v, q)
    BY <1>2 DEF Handled
  <2>. QED
    BY <1>1, <2>1 DEF Goto
<1>3. CASE Reconcile
  <2>1. Handled("worker")
    BY <1>3, IdleHandled DEF Reconcile, Handled
  <2>. QED
    BY <1>2, <2>1 DEF Threads
<1>4. CASE Run
  <2>1. Handled("worker")
    BY <1>4, FailHandled, HandleNextHandled DEF Run
  <2>. QED
    BY <1>2, <2>1 DEF Threads
<1>5. CASE Callback
  <2>1. Handled("informer")
    BY <1>5, FailHandled, HandleNextHandled DEF Callback
  <2>. QED
    BY <1>2, <2>1 DEF Threads
<1>6. ASSUME NEW v \in Threads, HandleSource(v)
      PROVE  \/ UNCHANGED <<pc[w], job[w]>>
             \/ PlanFits(pc'[w], job'[w]) /\ Doubts(w, job'[w])
  BY <1>2, <1>6, HandleSourceHandled
<1>7. CASE Crash
  BY <1>7, IdleHandled DEF Crash
<1>8. CASE Environment /\ ~Crash
  BY <1>8 DEF Environment, Edit, BecomeReady, Disturb, InformerList, Resync, threads
<1>9. CASE UNCHANGED vars
  BY <1>9 DEF vars
<1>. QED
  BY <1>3, <1>4, <1>5, <1>6, <1>7, <1>8, <1>9 DEF Next, Worker, Informer, Threads

LEMMA PlanHolds == Spec => [](IInv /\ PlanInv)
<1>1. Init => PlanInv
  BY IdleHandled DEF Init, PlanInv
<1>2. IInv /\ PlanInv /\ [Next]_vars => PlanInv'
  BY ThreadHandled DEF IInv, PlanInv
<1>. QED
  BY <1>1, <1>2, IInvInit, IInvNext, PTL DEF Spec

\* A thread at a settled source handles its objects, as they are.
LEMMA RestingItem ==
  ASSUME IInv, PlanInv, NEW s \in Sources, Rests(s), NEW w \in Threads, At(w) = s,
         pc[w] \notin {"idle", "list"}
  PROVE  /\ Read(w).rev = src[s].rev /\ job[w].ok
         /\ pc[w] \in {"apply", "refresh"} => obj[s][Item(w)].rev = src[s].rev
         /\ pc[w] = "refresh" => obj[s][Item(w)].ready
<1>1. /\ Read(w) = job[w].list[s] /\ Read(w).rev # 0 /\ job[w].at = s
      /\ PlanFits(pc[w], job[w])
  BY AtWork DEF IInv, PlanInv
<1>2. Read(w).rev = src[s].rev /\ job[w].ok
  BY <1>1 DEF Rests
<1>3. ASSUME pc[w] \in {"apply", "refresh"}
      PROVE  /\ obj[s][Item(w)].rev = src[s].rev
             /\ pc[w] = "refresh" => obj[s][Item(w)].ready
  <2>1. /\ Item(w) = job[w].plan[job[w].k] /\ job[w].k \in DOMAIN job[w].plan
    BY <1>3, AtItem DEF IInv
  <2>2. job[w].plan \in Lists(src[s].rev) /\ Item(w) \in Range(job[w].plan)
    BY <1>1, <1>2, <1>3, <2>1 DEF PlanFits, Range
  <2>3. pc[w] = "refresh" => Item(w) \notin Trivial
    BY <1>1, <2>1 DEF PlanFits
  <2>. QED
    BY <2>2, <2>3 DEF Rests
<1>. QED
  BY <1>2, <1>3

\* The objects of a settled source stay, unless somebody breaks them.
LEMMA ObjectsRest ==
  ASSUME IInv, PlanInv, [Next]_vars, NEW s \in Sources, Rests(s),
         ~\E i \in Ids : Disturb(s, i), NEW i \in Ids,
         obj[s][i].rev = src[s].rev, i \in Trivial \/ obj[s][i].ready
  PROVE  obj'[s][i].rev = src[s].rev /\ (i \in Trivial \/ obj'[s][i].ready)
<1>1. obj \in [Sources -> [Ids -> Object]]
  BY DEF IInv, ClusterInv, ClusterOK
<1>2. CASE UNCHANGED obj
  BY <1>2
<1>3. ASSUME NEW w \in Threads, Apply(w)
      PROVE  obj'[s][i].rev = src[s].rev /\ (i \in Trivial \/ obj'[s][i].ready)
  <2>1. pc[w] = "apply" /\ At(w) \in Sources /\ Item(w) \in Ids
    BY <1>3, AtWork, AtItem DEF Apply, IInv
  <2>2. UNCHANGED obj \/ WriteObject(At(w), Item(w), Read(w).rev)
    BY <1>3 DEF Apply
  <2>3. CASE At(w) = s
    <3>1. obj[At(w)][Item(w)].rev = Read(w).rev
      BY <2>1, <2>3, RestingItem
    <3>. QED
      BY <1>2, <2>2, <3>1 DEF WriteObject
  <2>4. CASE At(w) # s
    <3>1. obj'[s] = obj[s]
      BY <1>1, <2>1, <2>2, <2>4 DEF WriteObject
    <3>. QED
      BY <3>1
  <2>. QED
    BY <2>3, <2>4
<1>4. ASSUME NEW t \in Sources, NEW k \in Ids, BecomeReady(t, k)
      PROVE  obj'[s][i].rev = src[s].rev /\ (i \in Trivial \/ obj'[s][i].ready)
  <2> DEFINE o == [obj[t][k] EXCEPT !.ready = TRUE]
  <2>1. o \in Object /\ o.rev = obj[t][k].rev /\ o.ready
    <3>1. obj[t][k] \in Object
      BY <1>1
    <3>. QED
      BY <3>1 DEF Object
  <2>2. obj' = [obj EXCEPT ![t][k] = o]
    BY <1>1, <1>4 DEF BecomeReady
  <2> HIDE DEF o
  <2>3. obj'[t][k] = o /\ (t # s \/ k # i => obj'[s][i] = obj[s][i])
    BY <1>1, <2>1, <2>2, ObjectSet
  <2>. QED
    BY <2>1, <2>3
<1>5. ASSUME NEW t \in Sources, NEW k \in Ids, Disturb(t, k)
      PROVE  obj'[s][i].rev = src[s].rev /\ (i \in Trivial \/ obj'[s][i].ready)
  <2>1. t # s
    BY <1>5
  <2>2. obj'[s] = obj[s]
    BY <1>1, <1>5, <2>1 DEF Disturb
  <2>. QED
    BY <2>2
<1>. QED
  BY <1>2, <1>3, <1>4, <1>5, ObjectsChange

\* The source itself stays what it is, but for the mark, unless a user edits it.
LEMMA SourceRests ==
  ASSUME IInv, PlanInv, [Next]_vars, NEW s \in Sources, Rests(s), ~Edit(s)
  PROVE  src'[s].rev = src[s].rev /\ src'[s].cond = "Ready"
<1>1. src[s] \in Source /\ src[s].cond = "Ready"
  BY DEF IInv, ClusterInv, ClusterOK, Rests
<1>2. ASSUME NEW w \in Threads, At(w) = s, WrittenBy(w, s)
      PROVE  src'[s].rev = src[s].rev /\ src'[s].cond = "Ready"
  <2>1. Read(w).rev = src[s].rev /\ job[w].ok
    BY <1>2, RestingItem DEF WrittenBy
  <2>2. \/ src'[s] = [src[s] EXCEPT !.rev = src[s].rev, !.mark = TRUE]
        \/ src'[s] = [src[s] EXCEPT !.cond = "Ready"]
    BY <1>2, <2>1 DEF WrittenBy
  <2>. QED
    BY <1>1, <2>2 DEF Source
<1>. QED
  BY <1>1, <1>2, SourceStep

\* A source that has settled stays settled, for any number of sources, any
\* template and any renderings, whatever fails and however often the operator
\* restarts: only an edit, or somebody who breaks its objects, changes that
\* (Run, HandleSource, Apply).
THEOREM SettledStaysCorrect == Spec => SettledStays
<1>1. ASSUME IInv, PlanInv, [Next]_vars, NEW s \in Sources, Rests(s), ~Edit(s),
             ~\E i \in Ids : Disturb(s, i)
      PROVE  Rests(s)'
  <2> DEFINE r == src[s].rev
             G == {v \in Snapshot : v.rev = r}
  <2>1. src'[s].rev = r /\ src'[s].cond = "Ready" /\ r # 0
    BY <1>1, SourceRests DEF Rests
  <2>2. /\ src[s] \in Source /\ src'[s] \in Source /\ events[s] \in Seq(Snapshot)
        /\ \A w \in Threads : job[w].list \in [Sources -> Snapshot]
    <3>1. IInv'
      BY <1>1, IInvNext
    <3>. QED
      BY <1>1, <3>1, JobType
         DEF IInv, ClusterInv, ClusterOK, QueueInv, ControllerOK, ThreadsInv, ThreadsOK, Fits
  <2>3. \A objs \in Lists(r) : \A i \in Range(objs) :
          obj'[s][i].rev = r /\ (i \in Trivial \/ obj'[s][i].ready)
    <3>1. r \in 1..MaxRev
      BY <2>1, <2>2, BoundsAssumption DEF Source, BoundsAssumption
    <3>2. \A objs \in Lists(r) : Range(objs) \subseteq Ids
      BY <3>1, ListsType DEF Range
    <3>. QED
      BY <1>1, <3>2, ObjectsRest DEF Rests
  <2>4. Seen(src[s]) \in G /\ Seen(src'[s]) \in G
    BY <2>1, <2>2, SeenType
  <2>5. /\ \A n \in DOMAIN events[s] : events[s][n] \in G
        /\ \A w \in Threads : job[w].list[s].rev # 0 => job[w].list[s] \in G
    BY <1>1, <2>2 DEF Rests
  <2>6. \A n \in DOMAIN events'[s] : events'[s][n] \in G
    BY <1>1, <2>4, <2>5, EventsWithin
  <2>7. \A w \in Threads : job'[w].list[s].rev # 0 => job'[w].list[s] \in G
    BY <1>1, <2>4, <2>5, ListsWithin
  <2>8. ASSUME NEW w \in Threads, job'[w].at = s PROVE job'[w].ok
    <3>1. CASE UNCHANGED job[w]
      BY <1>1, <2>8, <3>1 DEF Rests, At
    <3>2. CASE Doubts(w, job'[w]) /\ pc[w] \notin {"idle", "list"}
      <4>1. At(w) = s => job[w].ok /\ (pc[w] = "refresh" => obj[s][Item(w)].ready)
        BY <1>1, <3>2, RestingItem
      <4>. QED
        BY <2>8, <3>2, <4>1 DEF Doubts
    <3>3. CASE Doubts(w, job'[w]) /\ pc[w] \in {"idle", "list"}
      <4>1. Fits(pc[w], job[w])
        BY <1>1 DEF IInv, ThreadsInv, ThreadsOK
      <4>2. At(w) = 0 /\ s # 0
        BY <3>3, <4>1, BoundsAssumption DEF Fits, At, Sources, BoundsAssumption
      <4>. QED
        BY <2>8, <3>3, <4>2 DEF Doubts
    <3>. QED
      BY <1>1, <3>1, <3>2, <3>3, ThreadHandled DEF IInv
  <2>. QED
    BY <2>1, <2>3, <2>6, <2>7, <2>8 DEF Rests, At
<1>2. IInv /\ PlanInv /\ [Next]_vars =>
        [\A s \in Sources : Rests(s) =>
           Rests(s)' \/ Edit(s) \/ \E i \in Ids : Disturb(s, i)]_vars
  BY <1>1
<1>. QED
  BY <1>2, PlanHolds, PTL DEF Spec, SettledStays
=============================================================================
