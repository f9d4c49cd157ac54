------------------------ MODULE RESTReconcilerProofs ------------------------
(***************************************************************************)
(* Proofs about RESTReconciler, for every value of its bounds.             *)
(***************************************************************************)
EXTENDS RESTReconciler, SequenceTheorems, TLAPS

-----------------------------------------------------------------------------
(* Lemmas about the operators.                                             *)

\* What the API server stores is a version again.
LEMMA StoredType ==
  ASSUME NEW v \in Version
  PROVE  /\ Stored(v) \in Version
         /\ Stored(v).gen = v.gen /\ Stored(v).deleting = v.deleting
         /\ Stored(v).own = v.own /\ Stored(v).foreign = v.foreign
         /\ Stored(v).obs = v.obs /\ Stored(v).id = v.id
         /\ Stored(v).present <=> v.present /\ (~v.deleting \/ v.own \/ v.foreign)
BY DEF Stored, Version

\* A write leaves the earlier versions as they are and adds one.
LEMMA WriteLog ==
  ASSUME ObjectOK, NEW v \in Version, Write(v)
  PROVE  /\ log' \in Seq(Version) /\ Len(log') > 0
         /\ Len(log) \in Nat /\ Len(log') = Len(log) + 1
         /\ \A i \in 1..Len(log) : log'[i] = log[i]
         /\ log'[Len(log) + 1] = Stored(v)
<1>1. Stored(v) \in Version
  BY StoredType
<1>. QED
  BY <1>1, AppendProperties DEF Write, ObjectOK

\* A write of the worker that is carried out makes a new version or none.
LEMMA CarriedOut ==
  ASSUME NEW v, CarryOut(v)
  PROVE  Latest.present /\ ((v = Latest /\ UNCHANGED log) \/ Write(v))
BY DEF CarryOut, Current

\* Merging status fields keeps the type and the rest of the object.
LEMMA MergeType ==
  ASSUME NEW v \in Version, NEW u \in [obs: 0..(MaxGen + 1), id: Nat]
  PROVE  /\ Merge(v, u) \in Version
         /\ Merge(v, u).obs = u.obs /\ Merge(v, u).id = u.id
         /\ Merge(v, u).gen = v.gen /\ Merge(v, u).deleting = v.deleting
         /\ Merge(v, u).own = v.own /\ Merge(v, u).present = v.present
         /\ Merge(v, u).foreign = v.foreign
BY DEF Merge, Version

\* So does a change of the finalizers.
LEMMA OwnType ==
  ASSUME NEW v \in Version, NEW b \in BOOLEAN
  PROVE  /\ [v EXCEPT !.own = b] \in Version
         /\ [v EXCEPT !.own = b].own = b
         /\ [v EXCEPT !.own = b].obs = v.obs
         /\ [v EXCEPT !.own = b].id = v.id
         /\ [v EXCEPT !.own = b].gen = v.gen
         /\ [v EXCEPT !.own = b].deleting = v.deleting
         /\ [v EXCEPT !.own = b].present = v.present
BY DEF Version

LEMMA ForeignType ==
  ASSUME NEW v \in Version
  PROVE  /\ [v EXCEPT !.foreign = FALSE] \in Version
         /\ [v EXCEPT !.foreign = FALSE].own = v.own
         /\ [v EXCEPT !.foreign = FALSE].obs = v.obs
         /\ [v EXCEPT !.foreign = FALSE].id = v.id
         /\ [v EXCEPT !.foreign = FALSE].gen = v.gen
         /\ [v EXCEPT !.foreign = FALSE].deleting = v.deleting
         /\ [v EXCEPT !.foreign = FALSE].present = v.present
BY DEF Version

\* An edit and a deletion move the object to its next generation.
LEMMA EditType ==
  ASSUME MaxGen \in Nat, NEW v \in Version, v.gen <= MaxGen
  PROVE  /\ [v EXCEPT !.gen = @ + 1] \in Version
         /\ [v EXCEPT !.gen = @ + 1].own = v.own
         /\ [v EXCEPT !.gen = @ + 1].obs = v.obs
         /\ [v EXCEPT !.gen = @ + 1].id = v.id
         /\ [v EXCEPT !.gen = @ + 1].gen = v.gen + 1
         /\ [v EXCEPT !.gen = @ + 1].deleting = v.deleting
         /\ [v EXCEPT !.gen = @ + 1].present = v.present
<1>1. v.gen + 1 \in 1..(MaxGen + 1)
  BY DEF Version
<1>. QED
  BY <1>1 DEF Version

LEMMA DeleteType ==
  ASSUME MaxGen \in Nat, NEW v \in Version, v.gen <= MaxGen
  PROVE  /\ [v EXCEPT !.deleting = TRUE, !.gen = @ + 1] \in Version
         /\ [v EXCEPT !.deleting = TRUE, !.gen = @ + 1].own = v.own
         /\ [v EXCEPT !.deleting = TRUE, !.gen = @ + 1].obs = v.obs
         /\ [v EXCEPT !.deleting = TRUE, !.gen = @ + 1].id = v.id
         /\ [v EXCEPT !.deleting = TRUE, !.gen = @ + 1].gen = v.gen + 1
         /\ [v EXCEPT !.deleting = TRUE, !.gen = @ + 1].deleting = TRUE
         /\ [v EXCEPT !.deleting = TRUE, !.gen = @ + 1].present = v.present
<1>1. v.gen + 1 \in 1..(MaxGen + 1)
  BY DEF Version
<1>. QED
  BY <1>1 DEF Version

\* The current version is an element of the log.
LEMMA LatestType ==
  ASSUME ObjectOK
  PROVE  /\ Len(log) \in Nat /\ Len(log) \in 1..Len(log)
         /\ Latest \in Version /\ Latest = log[Len(log)]
         /\ log[1] \in Version /\ log[cached] \in Version
         /\ Latest.gen \in Nat
<1>1. /\ Len(log) \in Nat /\ Len(log) \in 1..Len(log) /\ 1 \in 1..Len(log)
      /\ cached \in 1..Len(log)
  BY DEF ObjectOK
<1>2. \A i \in 1..Len(log) : log[i] \in Version
  BY DEF ObjectOK
<1>3. \A v \in Version : v.gen \in Nat
  BY DEF Version
<1>. QED
  BY <1>1, <1>2, <1>3 DEF Latest

-----------------------------------------------------------------------------
(* Type correctness.                                                       *)

\* What the type invariant needs beside itself.
CountInv ==
  /\ \A i \in 1..Len(log) : ~log[i].deleting => log[i].gen <= MaxGen
  /\ pc \in {"status", "release"} => steps > 0

TypeInv == TypeOK /\ CountInv

LEMMA TypeInit == Init => TypeInv
<1> SUFFICES ASSUME Init PROVE TypeInv
  OBVIOUS
<1> USE BoundsAssumption, UrlFormsAssumption DEF BoundsAssumption, UrlFormsAssumption
<1>1. PICK foreign \in BOOLEAN :
        log = << [present |-> TRUE, gen |-> 1, deleting |-> FALSE, own |-> FALSE,
                  foreign |-> foreign, obs |-> 0, id |-> 0] >>
  BY DEF Init
<1>2. log \in Seq(Version) /\ Len(log) = 1 /\ log[1] \in Version
      /\ log[1].gen <= MaxGen
  BY <1>1 DEF Version
<1>3. ObjectOK
  BY <1>2 DEF Init, ObjectOK
<1>4. WorkerOK
  <2>1. rest \in [rv: 0..Len(log), ver: Version]
    BY <1>2 DEF Init, NoCopy
  <2>. QED
    BY <2>1 DEF Init, WorkerOK, NoUpdates, PCs
<1>5. RemoteOK
  BY DEF Init, RemoteOK
<1>6. BoundsOK
  BY DEF Init, BoundsOK
<1>7. CountInv
  BY <1>2 DEF Init, CountInv
<1>. QED
  BY <1>3, <1>4, <1>5, <1>6, <1>7 DEF TypeInv, TypeOK

\* A write of a well-formed version keeps what the type invariant says of the
\* log, whatever the write does elsewhere.
LEMMA WriteType ==
  ASSUME TypeInv, NEW v \in Version, Write(v), ~v.deleting => v.gen <= MaxGen
  PROVE  /\ log' \in Seq(Version) /\ Len(log') > 0
         /\ Len(log) \in Nat /\ Len(log') = Len(log) + 1
         /\ \A i \in 1..Len(log') : ~log'[i].deleting => log'[i].gen <= MaxGen
         /\ log'[1] = log[1] /\ log[1] \in Version
<1>1. /\ log' \in Seq(Version) /\ Len(log') > 0
      /\ Len(log) \in Nat /\ Len(log') = Len(log) + 1
      /\ \A i \in 1..Len(log) : log'[i] = log[i]
      /\ log'[Len(log) + 1] = Stored(v)
  BY WriteLog DEF TypeInv, TypeOK
<1>2. \A i \in 1..Len(log') : ~log'[i].deleting => log'[i].gen <= MaxGen
  <2>1. \A i \in 1..Len(log) : ~log'[i].deleting => log'[i].gen <= MaxGen
    BY <1>1 DEF TypeInv, CountInv
  <2>2. ~log'[Len(log) + 1].deleting => log'[Len(log) + 1].gen <= MaxGen
    BY <1>1, StoredType
  <2>. QED
    BY <1>1, <2>1, <2>2
<1>3. log'[1] = log[1] /\ log[1] \in Version
  BY <1>1, LatestType DEF TypeInv, TypeOK, ObjectOK
<1>. QED
  BY <1>1, <1>2, <1>3

\* A step that writes and leaves the worker alone.
LEMMA UserWriteType ==
  ASSUME TypeInv, NEW v \in Version, Write(v), ~v.deleting => v.gen <= MaxGen,
         UNCHANGED <<cached, queued, pc, rest, upd, steps, live, nextId, accepted,
                     removed, reported, urls, faults, crashes, staleResyncs>>
  PROVE  TypeInv'
<1>1. /\ log' \in Seq(Version) /\ Len(log') > 0
      /\ Len(log) \in Nat /\ Len(log') = Len(log) + 1
      /\ \A i \in 1..Len(log') : ~log'[i].deleting => log'[i].gen <= MaxGen
  BY WriteType
<1>2. ObjectOK'
  BY <1>1 DEF TypeInv, TypeOK, ObjectOK
<1>3. WorkerOK'
  BY <1>1 DEF TypeInv, TypeOK, WorkerOK
<1>4. RemoteOK' /\ BoundsOK'
  BY DEF TypeInv, TypeOK, RemoteOK, BoundsOK
<1>5. CountInv'
  BY <1>1 DEF TypeInv, CountInv
<1>. QED
  BY <1>2, <1>3, <1>4, <1>5 DEF TypeInv, TypeOK

\* A run that ends leaves a well-typed worker.
LEMMA ReturnType ==
  ASSUME Return, log' \in Seq(Version), Len(log') > 0, log'[1] = log[1],
         log[1] \in Version, MaxGen \in Nat, MaxSteps \in Nat
  PROVE  WorkerOK' /\ pc' = "idle"
<1>1. rest' \in [rv: 0..Len(log'), ver: Version]
  BY DEF Return, NoCopy
<1>. QED
  BY <1>1 DEF Return, NoUpdates, WorkerOK, PCs

LEMMA TypeNext == TypeInv /\ [Next]_vars => TypeInv'
<1> SUFFICES ASSUME TypeInv, [Next]_vars PROVE TypeInv'
  OBVIOUS
<1> USE BoundsAssumption DEF BoundsAssumption
<1>0. /\ ObjectOK /\ WorkerOK /\ RemoteOK /\ BoundsOK /\ CountInv
      /\ Len(log) \in Nat /\ Len(log) \in 1..Len(log)
      /\ Latest \in Version /\ Latest = log[Len(log)]
      /\ log[1] \in Version /\ log[cached] \in Version
      /\ log \in Seq(Version) /\ Len(log) > 0
      /\ ~Latest.deleting => Latest.gen <= MaxGen
  BY LatestType DEF TypeInv, TypeOK, ObjectOK, CountInv
<1>a. ASSUME Return, UNCHANGED <<log, cached>>, queued' \in BOOLEAN
      PROVE  ObjectOK' /\ WorkerOK' /\ CountInv'
  <2>1. WorkerOK' /\ pc' = "idle"
    BY <1>0, <1>a, ReturnType
  <2>. QED
    BY <1>0, <1>a, <2>1 DEF ObjectOK, CountInv
<1>b. ASSUME Return, UNCHANGED cached, queued' \in BOOLEAN, NEW v \in Version, Write(v),
             ~v.deleting => v.gen <= MaxGen
      PROVE  ObjectOK' /\ WorkerOK' /\ CountInv'
  <2>1. /\ log' \in Seq(Version) /\ Len(log') > 0 /\ Len(log') = Len(log) + 1
        /\ \A i \in 1..Len(log') : ~log'[i].deleting => log'[i].gen <= MaxGen
        /\ log'[1] = log[1]
    BY <1>b, WriteType
  <2>2. WorkerOK' /\ pc' = "idle"
    BY <1>0, <1>b, <2>1, ReturnType
  <2>. QED
    BY <1>0, <1>b, <2>1, <2>2 DEF ObjectOK, CountInv
<1>c. ASSUME UNCHANGED <<cached, queued, rest, upd>>, steps' \in 0..MaxSteps, pc' \in PCs,
             pc' \in {"status", "release"} => steps' > 0,
             NEW v \in Version, UNCHANGED log \/ Write(v), ~v.deleting => v.gen <= MaxGen
      PROVE  ObjectOK' /\ WorkerOK' /\ CountInv'
  <2>1. /\ log' \in Seq(Version) /\ Len(log') > 0 /\ Len(log') >= Len(log)
        /\ \A i \in 1..Len(log') : ~log'[i].deleting => log'[i].gen <= MaxGen
    <3>1. CASE UNCHANGED log
      BY <1>0, <3>1 DEF CountInv
    <3>2. CASE Write(v)
      BY <1>0, <1>c, <3>2, WriteType
    <3>. QED
      BY <1>c, <3>1, <3>2
  <2>2. ObjectOK'
    BY <1>0, <1>c, <2>1 DEF ObjectOK
  <2>3. WorkerOK'
    BY <1>0, <1>c, <2>1 DEF WorkerOK
  <2>4. CountInv'
    BY <1>c, <2>1 DEF CountInv
  <2>. QED
    BY <2>2, <2>3, <2>4
<1>1. CASE Edit
  <2>1. Latest.gen \in Nat /\ Latest.gen + 1 <= MaxGen
    BY <1>0, <1>1, LatestType DEF Edit
  <2>2. /\ [Latest EXCEPT !.gen = @ + 1] \in Version
        /\ [Latest EXCEPT !.gen = @ + 1].gen <= MaxGen
    BY <1>0, <2>1, EditType
  <2>. QED
    BY <1>1, <2>2, UserWriteType DEF Edit, workVars, remote, history, bounds
<1>2. CASE Delete
  <2>1. Latest.gen <= MaxGen
    BY <1>0, <1>2 DEF Delete
  <2>2. /\ [Latest EXCEPT !.deleting = TRUE, !.gen = @ + 1] \in Version
        /\ [Latest EXCEPT !.deleting = TRUE, !.gen = @ + 1].deleting = TRUE
    BY <1>0, <2>1, DeleteType
  <2>. QED
    BY <1>2, <2>2, UserWriteType DEF Delete, workVars, remote, history, bounds
<1>3. CASE ReleaseForeign
  <2>1. /\ [Latest EXCEPT !.foreign = FALSE] \in Version
        /\ ~[Latest EXCEPT !.foreign = FALSE].deleting
             => [Latest EXCEPT !.foreign = FALSE].gen <= MaxGen
    BY <1>0, ForeignType
  <2>. QED
    BY <1>3, <2>1, UserWriteType DEF ReleaseForeign, workVars, remote, history, bounds
<1>4. CASE Deliver
  <2>1. ObjectOK'
    BY <1>0, <1>4 DEF Deliver, ObjectOK
  <2>2. WorkerOK' /\ RemoteOK' /\ BoundsOK' /\ CountInv'
    BY <1>0, <1>4 DEF Deliver, WorkerOK, RemoteOK, BoundsOK, CountInv, workVars, remote,
       history, bounds
  <2>. QED
    BY <2>1, <2>2 DEF TypeInv, TypeOK
<1>5. CASE Resync
  <2>1. ObjectOK' /\ BoundsOK'
    BY <1>0, <1>5 DEF Resync, ObjectOK, BoundsOK
  <2>2. WorkerOK' /\ RemoteOK' /\ CountInv'
    BY <1>0, <1>5 DEF Resync, WorkerOK, RemoteOK, CountInv, workVars, remote, history
  <2>. QED
    BY <2>1, <2>2 DEF TypeInv, TypeOK
<1>6. CASE Crash
  <2>1. ObjectOK' /\ BoundsOK' /\ RemoteOK'
    BY <1>0, <1>6 DEF Crash, ObjectOK, BoundsOK, RemoteOK, remote, history
  <2>2. WorkerOK' /\ pc' = "idle"
    BY <1>0, <1>6, ReturnType DEF Crash
  <2>3. CountInv'
    BY <1>0, <1>6, <2>2 DEF Crash, CountInv
  <2>. QED
    BY <2>1, <2>2, <2>3 DEF TypeInv, TypeOK
<1>7. CASE Begin
  <2> DEFINE v == log[cached]
             next == IF v.present THEN Branch(v) ELSE "idle"
  <2>1. next \in {"remove", "finalize", "send", "idle"}
    BY <1>0 DEF Branch, Version
  <2>2. v.gen \in 0..(MaxGen + 1)
    BY <1>0 DEF Version
  <2>3. /\ pc' = next
        /\ rest' = IF next = "idle" THEN NoCopy ELSE [rv |-> cached, ver |-> v]
        /\ reported' = IF v.present /\ next = "idle" THEN reported \cup {v.gen} ELSE reported
        /\ queued' = FALSE
        /\ UNCHANGED <<log, cached, upd, steps, live, nextId, accepted, removed, urls,
                       faults, crashes, staleResyncs>>
    BY <1>7 DEF Begin, remote, bounds
  <2>4. rest' \in [rv: 0..Len(log), ver: Version]
    BY <1>0, <2>3 DEF NoCopy, ObjectOK
  <2> HIDE DEF next, v
  <2>5. WorkerOK' /\ CountInv'
    BY <1>0, <2>1, <2>3, <2>4 DEF WorkerOK, CountInv, PCs
  <2>6. ObjectOK' /\ RemoteOK' /\ BoundsOK'
    BY <1>0, <2>2, <2>3 DEF ObjectOK, RemoteOK, BoundsOK
  <2>. QED
    BY <2>5, <2>6 DEF TypeInv, TypeOK
<1>8. CASE AddFinalizer
  <2>1. RemoteOK' /\ BoundsOK'
    <3>1. UNCHANGED remote /\ UNCHANGED history /\ UNCHANGED <<urls, crashes, staleResyncs>>
          /\ (NoFault \/ Fault)
      BY <1>8 DEF AddFinalizer
    <3>2. RemoteOK'
      BY <1>0, <3>1 DEF RemoteOK, remote, history
    <3>3. BoundsOK'
      BY <1>0, <3>1 DEF BoundsOK, NoFault, Fault
    <3>. QED
      BY <3>2, <3>3
  <2>2. ObjectOK' /\ WorkerOK' /\ CountInv'
    <3>1. Return /\ UNCHANGED cached /\ queued' \in BOOLEAN
      BY <1>0, <1>8 DEF AddFinalizer, Retry, ObjectOK
    <3>2. CASE UNCHANGED log
      BY <1>a, <3>1, <3>2
    <3>3. CASE Write([Latest EXCEPT !.own = TRUE])
      <4>1. /\ [Latest EXCEPT !.own = TRUE] \in Version
            /\ ~[Latest EXCEPT !.own = TRUE].deleting
                 => [Latest EXCEPT !.own = TRUE].gen <= MaxGen
        BY <1>0, OwnType
      <4>. QED
        BY <1>b, <3>1, <3>3, <4>1
    <3>. QED
      BY <1>8, <3>2, <3>3, CarriedOut DEF AddFinalizer, WriteFinalizer
  <2>. QED
    BY <2>1, <2>2 DEF TypeInv, TypeOK
<1>9. CASE SendUpdate
  <2>1. /\ rest.rv \in 0..Len(log) /\ rest.ver \in Version
        /\ rest.ver.gen \in 1..(MaxGen + 1)
    BY <1>0 DEF WorkerOK, Version
  <2>2. Answer(rest.ver.id) \in Nat
    BY <1>0 DEF RemoteOK, Answer
  <2>3. RemoteOK'
    BY <1>0, <1>9, <2>1 DEF SendUpdate, Serve, RemoteOK, remote
  <2>4. BoundsOK'
    BY <1>0, <1>9 DEF SendUpdate, NoFault, Fault, BoundsOK
  <2>5. ObjectOK' /\ WorkerOK' /\ CountInv'
    <3>1. CASE Retry
      BY <1>9, <1>a, <3>1 DEF SendUpdate, Retry
    <3>2. CASE /\ upd' \in [obs: {rest.ver.gen}, id: Nat]
               /\ rest' = [rest EXCEPT !.ver = Merge(@, upd')]
               /\ pc' = "status" /\ steps' = MaxSteps
               /\ UNCHANGED queued
      <4>1. upd' \in [obs: 0..(MaxGen + 1), id: Nat]
        BY <2>1, <3>2
      <4>2. Merge(rest.ver, upd') \in Version
        BY <2>1, <4>1, MergeType
      <4>3. rest' \in [rv: 0..Len(log), ver: Version]
        BY <1>0, <3>2, <4>2 DEF WorkerOK
      <4>. QED
        <5>1. UNCHANGED <<log, cached>>
          BY <1>9 DEF SendUpdate
        <5>2. ObjectOK'
          BY <1>0, <3>2, <5>1 DEF ObjectOK
        <5>3. WorkerOK'
          BY <1>0, <3>2, <4>1, <4>3, <5>1 DEF WorkerOK, PCs
        <5>4. CountInv'
          BY <1>0, <3>2, <5>1 DEF CountInv
        <5>. QED
          BY <5>2, <5>3, <5>4
    <3>. QED
      BY <1>9, <2>2, <3>1, <3>2 DEF SendUpdate
  <2>. QED
    BY <2>3, <2>4, <2>5 DEF TypeInv, TypeOK
<1>10. CASE AttemptStatus
  <2>1. /\ upd \in [obs: 0..(MaxGen + 1), id: Nat]
        /\ upd.obs \in 0..(MaxGen + 1) /\ steps \in 1..MaxSteps
    BY <1>0, <1>10 DEF AttemptStatus, WorkerOK, CountInv
  <2>2. RemoteOK'
    BY <1>0, <1>10, <2>1 DEF AttemptStatus, ReportSuccess, RemoteOK, remote
  <2>3. BoundsOK'
    BY <1>0, <1>10 DEF AttemptStatus, NoFault, Fault, BoundsOK
  <2>4. ObjectOK' /\ WorkerOK' /\ CountInv'
    <3>1. /\ Merge(Latest, upd) \in Version
          /\ ~Merge(Latest, upd).deleting => Merge(Latest, upd).gen <= MaxGen
      BY <1>0, <2>1, MergeType
    <3>2. UNCHANGED log \/ Write(Merge(Latest, upd))
      BY <1>10, CarriedOut DEF AttemptStatus, WriteStatus
    <3>3. UNCHANGED <<cached, queued>> /\ queued \in BOOLEAN
      BY <1>0, <1>10 DEF AttemptStatus, ObjectOK
    <3>4. CASE Return
      BY <1>a, <1>b, <3>1, <3>2, <3>3, <3>4
    <3>5. CASE /\ UNCHANGED <<rest, upd>> /\ steps' = BackoffStep
               /\ pc' = "refetchStatus" \/ (StepsLeft /\ pc' = pc)
      <4>1. /\ steps' \in 0..MaxSteps /\ (pc' = "status" => steps' > 0)
            /\ pc' \in {"status", "refetchStatus"}
        BY <1>10, <2>1, <3>5 DEF AttemptStatus, BackoffStep, StepsLeft
      <4>. QED
        BY <1>c, <3>1, <3>2, <3>3, <3>5, <4>1 DEF PCs
    <3>. QED
      BY <1>10, <3>4, <3>5 DEF AttemptStatus
  <2>. QED
    BY <2>2, <2>3, <2>4 DEF TypeInv, TypeOK
<1>11. CASE RefetchStatus
  <2>1. /\ upd \in [obs: 0..(MaxGen + 1), id: Nat] /\ upd.obs \in 0..(MaxGen + 1)
    BY <1>0 DEF WorkerOK
  <2>2. RemoteOK' /\ BoundsOK'
    BY <1>0, <1>11, <2>1 DEF RefetchStatus, ReportSuccess, RemoteOK, BoundsOK, remote, bounds
  <2>3. ObjectOK' /\ WorkerOK' /\ CountInv'
    <3>1. CASE Return
      BY <1>0, <1>11, <1>a, <3>1 DEF RefetchStatus, Retry, ObjectOK
    <3>2. CASE /\ rest' = [rv |-> cached, ver |-> Merge(log[cached], upd)]
               /\ pc' = "status" /\ steps > 0
               /\ UNCHANGED <<upd, steps, queued>>
      <4>1. Merge(log[cached], upd) \in Version
        BY <1>0, <2>1, MergeType
      <4>2. rest' \in [rv: 0..Len(log), ver: Version]
        BY <1>0, <3>2, <4>1 DEF ObjectOK
      <4>. QED
        BY <1>0, <1>11, <3>2, <4>2 DEF RefetchStatus, ObjectOK, WorkerOK, CountInv, PCs
    <3>. QED
      BY <1>11, <3>1, <3>2 DEF RefetchStatus, Retry
  <2>. QED
    BY <2>2, <2>3 DEF TypeInv, TypeOK
<1>12. CASE SendRemove
  <2>1. RemoteOK'
    BY <1>0, <1>12 DEF SendRemove, RemoteOK
  <2>2. BoundsOK'
    BY <1>0, <1>12 DEF SendRemove, NoFault, Fault, BoundsOK
  <2>3. ObjectOK' /\ WorkerOK' /\ CountInv'
    <3>1. CASE Retry
      BY <1>12, <1>a, <3>1 DEF SendRemove, Retry
    <3>2. CASE /\ rest' = [rest EXCEPT !.ver.own = FALSE]
               /\ pc' = "release" /\ steps' = MaxSteps
               /\ UNCHANGED <<upd, queued>>
      <4>1. [rest.ver EXCEPT !.own = FALSE] \in Version
        BY <1>0, OwnType DEF WorkerOK
      <4>2. rest' \in [rv: 0..Len(log), ver: Version]
        BY <1>0, <3>2, <4>1 DEF WorkerOK
      <4>. QED
        BY <1>0, <1>12, <3>2, <4>2 DEF SendRemove, ObjectOK, WorkerOK, CountInv, PCs
    <3>. QED
      BY <1>12, <3>1, <3>2 DEF SendRemove
  <2>. QED
    BY <2>1, <2>2, <2>3 DEF TypeInv, TypeOK
<1>13. CASE AttemptRelease
  <2>1. steps \in 1..MaxSteps
    BY <1>0, <1>13 DEF AttemptRelease, WorkerOK, CountInv
  <2>2. RemoteOK'
    BY <1>0, <1>13 DEF AttemptRelease, RemoteOK, remote, history
  <2>3. BoundsOK'
    BY <1>0, <1>13 DEF AttemptRelease, NoFault, Fault, BoundsOK
  <2>4. ObjectOK' /\ WorkerOK' /\ CountInv'
    <3>1. /\ [Latest EXCEPT !.own = rest.ver.own] \in Version
          /\ ~[Latest EXCEPT !.own = rest.ver.own].deleting
               => [Latest EXCEPT !.own = rest.ver.own].gen <= MaxGen
      <4>1. rest.ver.own \in BOOLEAN
        BY <1>0 DEF WorkerOK, Version
      <4>. QED
        BY <1>0, <4>1, OwnType
    <3>2. UNCHANGED log \/ Write([Latest EXCEPT !.own = rest.ver.own])
      BY <1>13, CarriedOut DEF AttemptRelease, WriteRelease
    <3>3. UNCHANGED <<cached, queued>> /\ queued \in BOOLEAN
      BY <1>0, <1>13 DEF AttemptRelease, ObjectOK
    <3>4. CASE Return
      BY <1>a, <1>b, <3>1, <3>2, <3>3, <3>4
    <3>5. CASE /\ UNCHANGED <<rest, upd>> /\ steps' = BackoffStep
               /\ pc' = "refetchRelease" \/ (StepsLeft /\ pc' = pc)
      <4>1. /\ steps' \in 0..MaxSteps /\ (pc' = "release" => steps' > 0)
            /\ pc' \in {"release", "refetchRelease"}
        BY <1>13, <2>1, <3>5 DEF AttemptRelease, BackoffStep, StepsLeft
      <4>. QED
        BY <1>c, <3>1, <3>2, <3>3, <3>5, <4>1 DEF PCs
    <3>. QED
      BY <1>13, <3>4, <3>5 DEF AttemptRelease
  <2>. QED
    BY <2>2, <2>3, <2>4 DEF TypeInv, TypeOK
<1>14. CASE RefetchRelease
  <2>1. RemoteOK' /\ BoundsOK'
    BY <1>0, <1>14 DEF RefetchRelease, RemoteOK, BoundsOK, remote, history, bounds
  <2>2. ObjectOK' /\ WorkerOK' /\ CountInv'
    <3>1. CASE Return
      BY <1>0, <1>14, <1>a, <3>1 DEF RefetchRelease, Retry, ObjectOK
    <3>2. CASE /\ rest' = [rv |-> cached, ver |-> [log[cached] EXCEPT !.own = FALSE]]
               /\ pc' = "release" /\ steps > 0
               /\ UNCHANGED <<upd, steps, queued>>
      <4>1. [log[cached] EXCEPT !.own = FALSE] \in Version
        BY <1>0, OwnType
      <4>2. rest' \in [rv: 0..Len(log), ver: Version]
        BY <1>0, <3>2, <4>1 DEF ObjectOK
      <4>. QED
        BY <1>0, <1>14, <3>2, <4>2 DEF RefetchRelease, ObjectOK, WorkerOK, CountInv, PCs
    <3>. QED
      BY <1>14, <3>1, <3>2 DEF RefetchRelease, Retry
  <2>. QED
    BY <2>1, <2>2 DEF TypeInv, TypeOK
<1>15. CASE UNCHANGED vars
  BY <1>0, <1>15 DEF vars, TypeInv, TypeOK, ObjectOK, WorkerOK, RemoteOK, BoundsOK, CountInv
<1>. QED
  BY <1>1, <1>2, <1>3, <1>4, <1>5, <1>6, <1>7, <1>8, <1>9, <1>10, <1>11, <1>12, <1>13, <1>14,
     <1>15 DEF Next, Worker, Environment

\* The variables keep their types in every behaviour of the controller.
THEOREM TypeCorrect == Spec => []TypeOK
<1>1. Spec => []TypeInv
  BY TypeInit, TypeNext, PTL DEF Spec
<1>. QED
  BY <1>1, PTL DEF TypeInv

-----------------------------------------------------------------------------
(* The inductive invariant.                                                *)

\* Along the object's history generations grow, a deletion is final, the
\* recorded generation grows, and the operator's finalizer stays, with the
\* object, until a remove request has returned.
Ordered(v, w) ==
  /\ v.gen <= w.gen
  /\ v.deleting => w.deleting
  /\ v.obs <= w.obs
  /\ v.own /\ ~removed => w.own /\ w.present

HistoryInv == \A i, j \in 1..Len(log) : i <= j => Ordered(log[i], log[j])

\* What the worker knows of its copy where it is: the copy is a version that
\* the cache has had, and took the branch the worker is on.
CopyInv ==
  /\ pc \in {"finalize", "send", "remove"} =>
       rest.rv \in 1..cached /\ rest.ver = log[rest.rv]
  /\ pc = "finalize" => ~rest.ver.deleting /\ ~rest.ver.own
  /\ pc = "send" => ~rest.ver.deleting /\ rest.ver.own
  /\ pc = "remove" => rest.ver.deleting
  /\ pc = "release" => ~rest.ver.own
  /\ pc \in {"release", "refetchRelease"} => removed

\* A request is only accepted for an object that had the finalizer; once the
\* remove request has returned, the cache shows the deletion.
DebtInv ==
  /\ accepted # {} => \E i \in 1..Len(log) : log[i].own
  /\ removed => log[cached].deleting /\ pc \notin {"finalize", "send"}

\* A generation is recorded only after the cache has shown it, and nothing
\* newer than what the worker is about to record has been recorded.
ObservedInv ==
  /\ \A i \in 1..Len(log) : log[i].obs <= log[cached].gen
  /\ pc = "send" => \A i \in 1..Len(log) : log[i].obs <= rest.ver.gen
  /\ pc \in {"status", "refetchStatus"} =>
       upd.obs <= log[cached].gen /\ \A i \in 1..Len(log) : log[i].obs <= upd.obs

\* With a URL to send to, what is or will be recorded has been accepted.
SentInv ==
  urls.update =>
    /\ pc \in {"status", "refetchStatus"} => upd.obs \in accepted
    /\ RecordedWasSent

IInv == TypeInv /\ HistoryInv /\ CopyInv /\ DebtInv /\ ObservedInv /\ SentInv

-----------------------------------------------------------------------------
(* Steps of the log and of the cache.                                      *)

LEMMA IInvInit == Init => IInv
<1> SUFFICES ASSUME Init PROVE IInv
  OBVIOUS
<1>1. TypeInv
  BY TypeInit
<1>2. PICK foreign \in BOOLEAN :
        log = << [present |-> TRUE, gen |-> 1, deleting |-> FALSE, own |-> FALSE,
                  foreign |-> foreign, obs |-> 0, id |-> 0] >>
  BY DEF Init
<1>3. /\ Len(log) = 1 /\ log[1].gen = 1 /\ ~log[1].deleting /\ log[1].obs = 0 /\ ~log[1].own
      /\ cached = 1 /\ pc = "idle" /\ accepted = {} /\ removed = FALSE
  BY <1>2 DEF Init
<1>4. HistoryInv
  BY <1>3 DEF HistoryInv, Ordered
<1>5. CopyInv /\ DebtInv /\ ObservedInv
  BY <1>3 DEF CopyInv, DebtInv, ObservedInv
<1>6. SentInv
  <2>1. RecordedWasSent
    BY <1>2 DEF RecordedWasSent
  <2>. QED
    BY <1>3, <2>1 DEF SentInv
<1>. QED
  BY <1>1, <1>4, <1>5, <1>6 DEF IInv

\* A write of a version that comes after the current one extends the history.
LEMMA HistoryWrite ==
  ASSUME TypeInv, HistoryInv, NEW v \in Version, Write(v), UNCHANGED removed,
         Ordered(Latest, Stored(v)), v.own => Stored(v).present
  PROVE  HistoryInv'
<1> DEFINE n == Len(log)
           w == Stored(v)
<1>1. /\ n \in Nat /\ n \in 1..n /\ Len(log') = n + 1
      /\ \A i \in 1..n : log'[i] = log[i]
      /\ log'[n + 1] = w /\ Latest = log[n]
      /\ \A i \in 1..n : log[i] \in Version
      /\ w \in Version /\ w.own = v.own
  BY WriteLog, LatestType, StoredType DEF TypeInv, TypeOK, ObjectOK
<1>2. \A x \in Version : x.gen \in Nat /\ x.obs \in Nat
  BY DEF Version
<1> HIDE DEF n, w
<1>3. \A i \in 1..n : Ordered(log[i], Latest)
  BY <1>1 DEF HistoryInv, n
<1>4. \A i \in 1..n : Ordered(log[i], w)
  BY <1>1, <1>2, <1>3 DEF Ordered, w
<1>5. Ordered(w, w)
  BY <1>1, <1>2 DEF Ordered, w
<1>6. \A i, j \in 1..n : i <= j => Ordered(log[i], log[j])
  BY DEF HistoryInv, n
<1> SUFFICES ASSUME NEW i \in 1..Len(log'), NEW j \in 1..Len(log'), i <= j
             PROVE  Ordered(log[i], log[j])'
  BY DEF HistoryInv, Ordered
<1>7. CASE j \in 1..n
  BY <1>1, <1>6, <1>7 DEF Ordered
<1>8. CASE j = n + 1 /\ i \in 1..n
  BY <1>1, <1>4, <1>8 DEF Ordered
<1>9. CASE j = n + 1 /\ i = n + 1
  BY <1>1, <1>5, <1>9 DEF Ordered
<1>. QED
  BY <1>1, <1>7, <1>8, <1>9

\* What every write is like: it comes after the current version, and what it
\* records is what was recorded, or what the worker is about to record.
GoodWrite(v) ==
  /\ Ordered(Latest, Stored(v))
  /\ v.own => Stored(v).present
  /\ \/ v.obs = Latest.obs /\ v.id = Latest.id
     \/ pc = "status" /\ v.obs = upd.obs /\ v.id = upd.id

\* A write that takes nothing away comes after the current version.
LEMMA KeepingWrite ==
  ASSUME NEW v \in Version, Latest \in Version, Latest.present, v.present = Latest.present,
         Latest.own => v.own, Latest.deleting => v.deleting,
         Latest.gen <= v.gen, Latest.obs <= v.obs
  PROVE  Ordered(Latest, Stored(v)) /\ (v.own => Stored(v).present)
<1>1. /\ Stored(v).own = v.own /\ Stored(v).obs = v.obs /\ Stored(v).gen = v.gen
      /\ Stored(v).deleting = v.deleting
      /\ v.own => Stored(v).present
  BY StoredType
<1>. QED
  BY <1>1 DEF Ordered

LEMMA StepWrites ==
  ASSUME IInv, [Next]_vars
  PROVE  \/ log' = log
         \/ UNCHANGED removed /\ \E v \in Version : Write(v) /\ GoodWrite(v)
<1> USE BoundsAssumption DEF BoundsAssumption
<1>0. /\ Latest \in Version /\ Latest.gen \in Nat /\ Latest.obs \in Nat
      /\ ~Latest.deleting => Latest.gen <= MaxGen
      /\ upd \in [obs: 0..(MaxGen + 1), id: Nat]
      /\ \A x \in Version : x.gen \in Nat /\ x.obs \in Nat
  <2>1. Latest \in Version /\ Latest = log[Len(log)] /\ Len(log) \in 1..Len(log)
    BY LatestType DEF IInv, TypeInv, TypeOK
  <2>2. \A x \in Version : x.gen \in Nat /\ x.obs \in Nat
    BY DEF Version
  <2>. QED
    BY <2>1, <2>2 DEF IInv, TypeInv, TypeOK, WorkerOK, CountInv
<1>1. CASE Edit
  <2> DEFINE v == [Latest EXCEPT !.gen = @ + 1]
  <2>1. Latest.present /\ Latest.gen <= MaxGen /\ Write(v) /\ UNCHANGED removed
    BY <1>0, <1>1 DEF Edit, history
  <2>2. /\ v \in Version /\ v.own = Latest.own /\ v.obs = Latest.obs /\ v.id = Latest.id
        /\ v.gen = Latest.gen + 1 /\ v.deleting = Latest.deleting /\ v.present = Latest.present
    BY <1>0, <2>1, EditType
  <2> HIDE DEF v
  <2>3. GoodWrite(v)
    <3>0. /\ Latest.own => v.own
          /\ Latest.deleting => v.deleting
          /\ Latest.gen <= v.gen /\ Latest.obs <= v.obs
      BY <1>0, <2>2
    <3>1. Ordered(Latest, Stored(v)) /\ (v.own => Stored(v).present)
      BY <1>0, <2>1, <2>2, <3>0, KeepingWrite
    <3>. QED
      BY <2>2, <3>1 DEF GoodWrite
  <2>. QED
    BY <2>1, <2>2, <2>3
<1>2. CASE Delete
  <2> DEFINE v == [Latest EXCEPT !.deleting = TRUE, !.gen = @ + 1]
  <2>1. Latest.present /\ Latest.gen <= MaxGen /\ Write(v) /\ UNCHANGED removed
    BY <1>0, <1>2 DEF Delete, history
  <2>2. /\ v \in Version /\ v.own = Latest.own /\ v.obs = Latest.obs /\ v.id = Latest.id
        /\ v.gen = Latest.gen + 1 /\ v.deleting = TRUE /\ v.present = Latest.present
    BY <1>0, <2>1, DeleteType
  <2> HIDE DEF v
  <2>3. GoodWrite(v)
    <3>0. /\ Latest.own => v.own
          /\ Latest.deleting => v.deleting
          /\ Latest.gen <= v.gen /\ Latest.obs <= v.obs
      BY <1>0, <2>2
    <3>1. Ordered(Latest, Stored(v)) /\ (v.own => Stored(v).present)
      BY <1>0, <2>1, <2>2, <3>0, KeepingWrite
    <3>. QED
      BY <2>2, <3>1 DEF GoodWrite
  <2>. QED
    BY <2>1, <2>2, <2>3
<1>3. CASE ReleaseForeign
  <2> DEFINE v == [Latest EXCEPT !.foreign = FALSE]
  <2>1. Latest.present /\ Write(v) /\ UNCHANGED removed
    BY <1>3 DEF ReleaseForeign, history
  <2>2. /\ v \in Version /\ v.own = Latest.own /\ v.obs = Latest.obs /\ v.id = Latest.id
        /\ v.gen = Latest.gen /\ v.deleting = Latest.deleting /\ v.present = Latest.present
    BY <1>0, ForeignType
  <2> HIDE DEF v
  <2>3. GoodWrite(v)
    <3>0. /\ Latest.own => v.own
          /\ Latest.deleting => v.deleting
          /\ Latest.gen <= v.gen /\ Latest.obs <= v.obs
      BY <1>0, <2>2
    <3>1. Ordered(Latest, Stored(v)) /\ (v.own => Stored(v).present)
      BY <1>0, <2>1, <2>2, <3>0, KeepingWrite
    <3>. QED
      BY <2>2, <3>1 DEF GoodWrite
  <2>. QED
    BY <2>1, <2>2, <2>3
<1>4. CASE AddFinalizer /\ log' # log
  <2> DEFINE v == [Latest EXCEPT !.own = TRUE]
  <2>1. Latest.present /\ Write(v) /\ UNCHANGED removed
    <3>1. CarryOut(v) /\ UNCHANGED removed
      BY <1>4 DEF AddFinalizer, WriteFinalizer, history
    <3>. QED
      BY <1>4, <3>1, CarriedOut
  <2>2. /\ v \in Version /\ v.own = TRUE /\ v.obs = Latest.obs /\ v.id = Latest.id
        /\ v.gen = Latest.gen /\ v.deleting = Latest.deleting /\ v.present = Latest.present
    BY <1>0, OwnType
  <2> HIDE DEF v
  <2>3. GoodWrite(v)
    <3>0. /\ Latest.own => v.own
          /\ Latest.deleting => v.deleting
          /\ Latest.gen <= v.gen /\ Latest.obs <= v.obs
      BY <1>0, <2>2
    <3>1. Ordered(Latest, Stored(v)) /\ (v.own => Stored(v).present)
      BY <1>0, <2>1, <2>2, <3>0, KeepingWrite
    <3>. QED
      BY <2>2, <3>1 DEF GoodWrite
  <2>. QED
    BY <2>1, <2>2, <2>3
<1>5. CASE AttemptStatus /\ log' # log
  <2> DEFINE v == Merge(Latest, upd)
  <2>1. Latest.present /\ Write(v) /\ UNCHANGED removed /\ pc = "status"
    <3>1. CarryOut(v) /\ UNCHANGED removed /\ pc = "status"
      BY <1>5 DEF AttemptStatus, WriteStatus
    <3>. QED
      BY <1>5, <3>1, CarriedOut
  <2>2. /\ v \in Version /\ v.own = Latest.own /\ v.obs = upd.obs /\ v.id = upd.id
        /\ v.gen = Latest.gen /\ v.deleting = Latest.deleting /\ v.present = Latest.present
    BY <1>0, MergeType
  <2>3. Latest.obs <= upd.obs
    BY <2>1, LatestType DEF IInv, TypeInv, TypeOK, ObservedInv
  <2> HIDE DEF v
  <2>4. GoodWrite(v)
    <3>0. /\ Latest.own => v.own
          /\ Latest.deleting => v.deleting
          /\ Latest.gen <= v.gen /\ Latest.obs <= v.obs
      BY <1>0, <2>3, <2>2
    <3>1. Ordered(Latest, Stored(v)) /\ (v.own => Stored(v).present)
      BY <1>0, <2>1, <2>2, <3>0, KeepingWrite
    <3>. QED
      BY <2>1, <2>2, <3>1 DEF GoodWrite
  <2>. QED
    BY <2>1, <2>2, <2>4
<1>6. CASE AttemptRelease /\ log' # log
  <2> DEFINE v == [Latest EXCEPT !.own = rest.ver.own]
  <2>1. Write(v) /\ UNCHANGED removed /\ pc = "release"
    <3>1. CarryOut(v) /\ UNCHANGED removed /\ pc = "release"
      BY <1>6 DEF AttemptRelease, WriteRelease, history
    <3>. QED
      BY <1>6, <3>1, CarriedOut
  <2>2. removed /\ rest.ver.own = FALSE
    <3>1. rest.ver \in Version
      BY DEF IInv, TypeInv, TypeOK, WorkerOK
    <3>2. rest.ver.own \in BOOLEAN
      BY <3>1 DEF Version
    <3>. QED
      BY <2>1, <3>2 DEF IInv, CopyInv
  <2>3. /\ v \in Version /\ v.own = FALSE /\ v.obs = Latest.obs /\ v.id = Latest.id
        /\ v.gen = Latest.gen /\ v.deleting = Latest.deleting /\ v.present = Latest.present
    BY <1>0, <2>2, OwnType
  <2> HIDE DEF v
  <2>4. GoodWrite(v)
    BY <1>0, <2>2, <2>3, StoredType DEF GoodWrite, Ordered
  <2>. QED
    BY <2>1, <2>3, <2>4
<1>7. CASE Deliver \/ Resync \/ Crash \/ Begin
  BY <1>7 DEF Deliver, Resync, Crash, Begin
<1>8. CASE SendUpdate \/ RefetchStatus \/ SendRemove \/ RefetchRelease
  BY <1>8 DEF SendUpdate, RefetchStatus, SendRemove, RefetchRelease
<1>9. CASE UNCHANGED vars
  BY <1>9 DEF vars
<1>. QED
  BY <1>1, <1>2, <1>3, <1>4, <1>5, <1>6, <1>7, <1>8, <1>9 DEF Next, Worker, Environment

\* The cache only moves forward, and what was done stays done.
LEMMA StepForward ==
  ASSUME IInv, [Next]_vars
  PROVE  /\ TypeInv'
         /\ removed => removed'
         /\ accepted \subseteq accepted'
         /\ urls' = urls
         /\ cached \in 1..Len(log) /\ cached <= cached' /\ cached' \in 1..Len(log')
<1>1. TypeInv' /\ cached \in 1..Len(log) /\ cached' \in 1..Len(log') /\ Len(log) \in Nat
  BY TypeNext DEF IInv, TypeInv, TypeOK, ObjectOK
<1>2. CASE Environment
  BY <1>1, <1>2 DEF Environment, Edit, Delete, ReleaseForeign, Deliver, Resync, Crash, history
<1>3. CASE Worker
  <2>1. (removed => removed') /\ accepted \subseteq accepted' /\ urls' = urls
    BY <1>3 DEF Worker, Begin, AddFinalizer, SendUpdate, AttemptStatus, RefetchStatus,
       SendRemove, AttemptRelease, RefetchRelease, history
  <2>2. cached' = cached
    BY <1>3 DEF Worker, Begin, AddFinalizer, SendUpdate, AttemptStatus, RefetchStatus,
       SendRemove, AttemptRelease, RefetchRelease
  <2>. QED
    BY <1>1, <2>1, <2>2
<1>4. CASE UNCHANGED vars
  BY <1>1, <1>4 DEF vars
<1>. QED
  BY <1>2, <1>3, <1>4 DEF Next

\* The history is extended, and what is recorded in it was recorded before or
\* is what the worker has just recorded.
LEMMA StepHistory ==
  ASSUME IInv, [Next]_vars
  PROVE  /\ HistoryInv'
         /\ Len(log) \in Nat /\ Len(log') \in Nat /\ Len(log) <= Len(log')
         /\ \A i \in 1..Len(log) : log'[i] = log[i]
         /\ \A i \in 1..Len(log') :
              \/ \E k \in 1..Len(log) : log'[i].obs = log[k].obs /\ log'[i].id = log[k].id
              \/ pc = "status" /\ log'[i].obs = upd.obs /\ log'[i].id = upd.id
<1>0. ObjectOK /\ TypeInv /\ HistoryInv /\ Len(log) \in Nat /\ (removed => removed')
  BY StepForward, LatestType DEF IInv, TypeInv, TypeOK
<1>1. CASE log' = log
  <2>1. HistoryInv'
    BY <1>0, <1>1 DEF HistoryInv, Ordered
  <2>. QED
    BY <1>0, <1>1, <2>1
<1>2. CASE UNCHANGED removed /\ \E v \in Version : Write(v) /\ GoodWrite(v)
  <2>1. PICK v \in Version : Write(v) /\ GoodWrite(v)
    BY <1>2
  <2>2. HistoryInv'
    BY <1>0, <1>2, <2>1, HistoryWrite DEF GoodWrite
  <2>3. /\ Len(log') = Len(log) + 1
        /\ \A i \in 1..Len(log) : log'[i] = log[i]
        /\ log'[Len(log) + 1].obs = v.obs /\ log'[Len(log) + 1].id = v.id
    BY <1>0, <2>1, WriteLog, StoredType
  <2>4. /\ \/ v.obs = log[Len(log)].obs /\ v.id = log[Len(log)].id
           \/ pc = "status" /\ v.obs = upd.obs /\ v.id = upd.id
        /\ Len(log) \in 1..Len(log)
    BY <1>0, <2>1, LatestType DEF GoodWrite
  <2>5. \A i \in 1..Len(log') :
          \/ \E k \in 1..Len(log) : log'[i].obs = log[k].obs /\ log'[i].id = log[k].id
          \/ pc = "status" /\ log'[i].obs = upd.obs /\ log'[i].id = upd.id
    <3> SUFFICES ASSUME NEW i \in 1..Len(log')
                 PROVE  \/ \E k \in 1..Len(log) :
                               log'[i].obs = log[k].obs /\ log'[i].id = log[k].id
                        \/ pc = "status" /\ log'[i].obs = upd.obs /\ log'[i].id = upd.id
      OBVIOUS
    <3>1. CASE i \in 1..Len(log)
      BY <2>3, <3>1
    <3>2. CASE i = Len(log) + 1
      BY <2>3, <2>4, <3>2
    <3>. QED
      BY <1>0, <2>3, <3>1, <3>2
  <2>. QED
    BY <1>0, <2>2, <2>3, <2>5
<1>. QED
  BY <1>1, <1>2, StepWrites

-----------------------------------------------------------------------------
(* The worker's steps.                                                     *)

\* How the worker comes to each place where a part of the invariant speaks
\* about it: it was there before, or this step has brought it there.
LEMMA StepWorker ==
  ASSUME IInv, [Next]_vars
  PROVE  /\ pc' \in {"finalize", "send", "remove"} =>
              \/ pc' = pc /\ rest' = rest
              \/ /\ rest' = [rv |-> cached, ver |-> log[cached]]
                 /\ pc' = Branch(log[cached])
                 /\ UNCHANGED <<log, cached, removed>>
         /\ pc' \in {"status", "refetchStatus"} =>
              \/ pc \in {"status", "refetchStatus"} /\ upd' = upd
              \/ /\ pc = "send" /\ upd'.obs = rest.ver.gen
                 /\ urls.update => rest.ver.gen \in accepted'
                 /\ UNCHANGED <<log, cached>>
         /\ pc' \in {"release", "refetchRelease"} =>
              pc \in {"release", "refetchRelease"} \/ removed'
         /\ pc' = "release" => ~rest'.ver.own \/ (pc = "release" /\ rest' = rest)
         /\ accepted' # accepted => pc = "send" /\ UNCHANGED log
         /\ removed' # removed => /\ pc = "remove" /\ pc' = "release"
                                  /\ UNCHANGED <<log, cached>>
<1>0. /\ rest \in [rv: 0..Len(log), ver: Version] /\ log[cached] \in Version
      /\ rest.ver.gen \in Nat
  <2>1. rest \in [rv: 0..Len(log), ver: Version] /\ log[cached] \in Version
    BY LatestType DEF IInv, TypeInv, TypeOK, WorkerOK
  <2>. QED
    BY <2>1 DEF Version
<1>1. CASE Edit \/ Delete \/ ReleaseForeign \/ Deliver \/ Resync
  BY <1>1 DEF Edit, Delete, ReleaseForeign, Deliver, Resync, workVars, history
<1>2. CASE Crash
  BY <1>2 DEF Crash, Return, history
<1>3. CASE Begin
  <2>1. /\ pc' # "idle" => /\ pc' = Branch(log[cached])
                           /\ rest' = [rv |-> cached, ver |-> log[cached]]
        /\ UNCHANGED <<log, cached, accepted, removed>>
    BY <1>3 DEF Begin
  <2>2. pc' \in {"remove", "finalize", "send", "idle"}
    BY <1>0, <1>3 DEF Begin, Branch, Version
  <2>. QED
    BY <2>1, <2>2
<1>4. CASE AddFinalizer
  BY <1>4 DEF AddFinalizer, Retry, Return, history
<1>5. CASE SendUpdate
  <2>1. CASE Retry
    BY <1>5, <2>1 DEF SendUpdate, Retry, Return
  <2>2. CASE pc' = "status"
    BY <1>5, <2>2 DEF SendUpdate, Retry, Return
  <2>. QED
    BY <1>5, <2>1, <2>2 DEF SendUpdate
<1>6. CASE AttemptStatus
  BY <1>6 DEF AttemptStatus, Return
<1>7. CASE RefetchStatus
  BY <1>7 DEF RefetchStatus, Retry, Return
<1>8. CASE SendRemove
  <2>1. CASE Retry
    BY <1>8, <2>1 DEF SendRemove, Retry, Return
  <2>2. CASE pc' = "release" /\ rest' = [rest EXCEPT !.ver.own = FALSE]
    <3>1. ~rest'.ver.own
      BY <1>0, <2>2 DEF Version
    <3>. QED
      BY <1>8, <2>2, <3>1 DEF SendRemove, Retry, Return
  <2>. QED
    BY <1>8, <2>1, <2>2 DEF SendRemove
<1>9. CASE AttemptRelease
  BY <1>9 DEF AttemptRelease, Return, history
<1>10. CASE RefetchRelease
  <2>1. CASE pc' = "idle"
    BY <1>10, <2>1 DEF RefetchRelease, history
  <2>2. CASE pc' = "release" /\ rest' = [rv |-> cached, ver |-> [log[cached] EXCEPT !.own = FALSE]]
    <3>1. [log[cached] EXCEPT !.own = FALSE].own = FALSE
      BY <1>0, OwnType
    <3>2. rest'.ver.own = FALSE
      BY <2>2, <3>1
    <3>. QED
      BY <1>10, <2>2, <3>2 DEF RefetchRelease, history
  <2>. QED
    BY <1>10, <2>1, <2>2 DEF RefetchRelease, Retry, Return
<1>11. CASE UNCHANGED vars
  BY <1>11 DEF vars
<1>. QED
  BY <1>1, <1>2, <1>3, <1>4, <1>5, <1>6, <1>7, <1>8, <1>9, <1>10, <1>11
     DEF Next, Worker, Environment

\* The branch Reconcile takes tells what the object looked like.
LEMMA BranchFacts ==
  ASSUME NEW v \in Version
  PROVE  /\ Branch(v) = "finalize" => ~v.deleting /\ ~v.own
         /\ Branch(v) = "send" => ~v.deleting /\ v.own
         /\ Branch(v) = "remove" => v.deleting
BY DEF Branch, Version

-----------------------------------------------------------------------------
(* The invariant is inductive.                                             *)

LEMMA IInvNext == IInv /\ [Next]_vars => IInv'
<1> SUFFICES ASSUME IInv, [Next]_vars PROVE IInv'
  OBVIOUS
<1>1. /\ TypeInv' /\ HistoryInv'
      /\ Len(log) \in Nat /\ Len(log') \in Nat /\ Len(log) <= Len(log')
      /\ \A i \in 1..Len(log) : log'[i] = log[i]
      /\ cached \in 1..Len(log) /\ cached' \in 1..Len(log') /\ cached <= cached'
      /\ removed => removed'
      /\ accepted \subseteq accepted'
      /\ urls' = urls
  BY StepForward, StepHistory
<1>2. \A i \in 1..Len(log') :
        \/ \E k \in 1..Len(log) : log'[i].obs = log[k].obs
        \/ pc = "status" /\ log'[i].obs = upd.obs
  BY StepHistory
<1>3. /\ log[cached] \in Version /\ rest.ver \in Version
      /\ \A i \in 1..Len(log) : log[i].obs \in Nat /\ log[i].gen \in Nat
      /\ \A i \in 1..Len(log') : log'[i].obs \in Nat /\ log'[i].gen \in Nat
      /\ upd.obs \in Nat /\ rest.ver.gen \in Nat
  <2>1. /\ log \in Seq(Version) /\ log' \in Seq(Version)
        /\ log[cached] \in Version /\ rest.ver \in Version /\ upd.obs \in Nat
    BY <1>1, LatestType DEF IInv, TypeInv, TypeOK, ObjectOK, WorkerOK
  <2>2. \A v \in Version : v.obs \in Nat /\ v.gen \in Nat
    BY DEF Version
  <2>. QED
    BY <2>1, <2>2
<1>4. CopyInv'
  <2>1. ASSUME pc' \in {"finalize", "send", "remove"}
        PROVE  /\ rest'.rv \in 1..cached' /\ rest'.ver = log'[rest'.rv]
               /\ pc' = "finalize" => ~rest'.ver.deleting /\ ~rest'.ver.own
               /\ pc' = "send" => ~rest'.ver.deleting /\ rest'.ver.own
               /\ pc' = "remove" => rest'.ver.deleting
    <3>1. CASE pc' = pc /\ rest' = rest
      <4>1. rest.rv \in 1..cached /\ rest.ver = log[rest.rv]
        BY <2>1, <3>1 DEF IInv, CopyInv
      <4>2. log'[rest.rv] = log[rest.rv] /\ rest.rv \in 1..cached'
        BY <1>1, <4>1
      <4>. QED
        BY <2>1, <3>1, <4>1, <4>2 DEF IInv, CopyInv
    <3>2. CASE /\ rest' = [rv |-> cached, ver |-> log[cached]]
               /\ pc' = Branch(log[cached])
               /\ UNCHANGED <<log, cached, removed>>
      BY <1>1, <1>3, <3>2, BranchFacts
    <3>. QED
      BY <2>1, <3>1, <3>2, StepWorker
  <2>2. pc' = "release" => ~rest'.ver.own
    BY StepWorker DEF IInv, CopyInv
  <2>3. pc' \in {"release", "refetchRelease"} => removed'
    BY <1>1, StepWorker DEF IInv, CopyInv
  <2>. QED
    BY <2>1, <2>2, <2>3 DEF CopyInv
<1>5. DebtInv'
  <2>1. ASSUME accepted' # {}
        PROVE  \E i \in 1..Len(log') : log'[i].own
    <3>1. CASE accepted # {}
      <4>1. PICK i \in 1..Len(log) : log[i].own
        BY <3>1 DEF IInv, DebtInv
      <4>. QED
        BY <1>1, <4>1
    <3>2. CASE accepted = {}
      <4>1. pc = "send" /\ UNCHANGED log
        BY <2>1, <3>2, StepWorker
      <4>2. rest.rv \in 1..cached /\ rest.ver = log[rest.rv] /\ rest.ver.own
        BY <4>1 DEF IInv, CopyInv
      <4>3. rest.rv \in 1..Len(log')
        BY <1>1, <4>2
      <4>. QED
        BY <4>1, <4>2, <4>3
    <3>. QED
      BY <3>1, <3>2
  <2>2. ASSUME removed'
        PROVE  log'[cached'].deleting /\ pc' \notin {"finalize", "send"}
    <3>1. CASE removed
      <4>1. log[cached].deleting /\ pc \notin {"finalize", "send"}
        BY <3>1 DEF IInv, DebtInv
      <4>2. cached \in 1..Len(log') /\ log'[cached] = log[cached]
        BY <1>1
      <4>3. log'[cached'].deleting
        BY <1>1, <4>1, <4>2 DEF HistoryInv, Ordered
      <4>4. Branch(log[cached]) \notin {"finalize", "send"}
        BY <1>3, <4>1, BranchFacts
      <4>. QED
        BY <4>1, <4>3, <4>4, StepWorker
    <3>2. CASE ~removed
      <4>1. pc = "remove" /\ pc' = "release" /\ UNCHANGED <<log, cached>>
        BY <2>2, <3>2, StepWorker
      <4>2. rest.rv \in 1..cached /\ log[rest.rv].deleting
        BY <4>1 DEF IInv, CopyInv
      <4>3. log[cached].deleting
        BY <1>1, <4>2 DEF IInv, HistoryInv, Ordered
      <4>. QED
        BY <4>1, <4>3
    <3>. QED
      BY <3>1, <3>2
  <2>. QED
    BY <2>1, <2>2 DEF DebtInv
<1>6. ObservedInv'
  <2>1. cached \in 1..Len(log') /\ log[cached].gen <= log'[cached'].gen
    BY <1>1 DEF HistoryInv, Ordered
  <2>2. ASSUME NEW i \in 1..Len(log')
        PROVE  log'[i].obs <= log[cached].gen
    <3>1. CASE \E k \in 1..Len(log) : log'[i].obs = log[k].obs
      BY <3>1 DEF IInv, ObservedInv
    <3>2. CASE pc = "status" /\ log'[i].obs = upd.obs
      BY <3>2 DEF IInv, ObservedInv
    <3>. QED
      BY <1>2, <3>1, <3>2
  <2>3. \A i \in 1..Len(log') : log'[i].obs <= log'[cached'].gen
    BY <1>1, <1>3, <2>1, <2>2
  <2>4. ASSUME pc' = "send"
        PROVE  \A i \in 1..Len(log') : log'[i].obs <= rest'.ver.gen
    <3>1. CASE pc' = pc /\ rest' = rest
      BY <1>2, <2>4, <3>1 DEF IInv, ObservedInv
    <3>2. CASE rest' = [rv |-> cached, ver |-> log[cached]]
      BY <2>2, <3>2
    <3>. QED
      BY <2>4, <3>1, <3>2, StepWorker
  <2>5. ASSUME pc' \in {"status", "refetchStatus"}
        PROVE  /\ upd'.obs <= log'[cached'].gen
               /\ \A i \in 1..Len(log') : log'[i].obs <= upd'.obs
    <3>1. CASE pc \in {"status", "refetchStatus"} /\ upd' = upd
      <4>1. upd.obs <= log[cached].gen /\ \A i \in 1..Len(log) : log[i].obs <= upd.obs
        BY <3>1 DEF IInv, ObservedInv
      <4>2. ASSUME NEW i \in 1..Len(log')
            PROVE  log'[i].obs <= upd.obs
        <5>1. CASE \E k \in 1..Len(log) : log'[i].obs = log[k].obs
          BY <4>1, <5>1
        <5>2. CASE log'[i].obs = upd.obs
          <6>1. upd.obs \in Nat
            BY <1>3
          <6>. QED
            BY <5>2, <6>1
        <5>. QED
          BY <1>2, <5>1, <5>2
      <4>3. log[cached].gen \in Nat /\ log'[cached'].gen \in Nat
        BY <1>1, <1>3
      <4>4. upd'.obs = upd.obs /\ upd.obs \in Nat
        BY <1>3, <3>1 DEF IInv, TypeInv, TypeOK, WorkerOK
      <4>5. upd.obs <= log'[cached'].gen
        BY <2>1, <4>1, <4>3, <4>4
      <4>. QED
        BY <4>2, <4>4, <4>5
    <3>2. CASE /\ pc = "send" /\ upd'.obs = rest.ver.gen
               /\ UNCHANGED <<log, cached>>
      <4>1. /\ rest.rv \in 1..cached /\ rest.ver = log[rest.rv]
            /\ \A i \in 1..Len(log) : log[i].obs <= rest.ver.gen
        BY <3>2 DEF IInv, CopyInv, ObservedInv
      <4>2. rest.ver.gen <= log[cached].gen
        BY <1>1, <4>1 DEF IInv, HistoryInv, Ordered
      <4>. QED
        BY <3>2, <4>1, <4>2
    <3>. QED
      BY <2>5, <3>1, <3>2, StepWorker
  <2>. QED
    BY <2>3, <2>4, <2>5 DEF ObservedInv
<1>7. SentInv'
  <2> SUFFICES ASSUME urls'.update
               PROVE  /\ pc' \in {"status", "refetchStatus"} => upd'.obs \in accepted'
                      /\ RecordedWasSent'
    BY DEF SentInv
  <2>1. /\ pc \in {"status", "refetchStatus"} => upd.obs \in accepted
        /\ \A i \in 1..Len(log) : log[i].obs # 0 => log[i].obs \in accepted
    <3>1. DOMAIN log = 1..Len(log)
      BY DEF IInv, TypeInv, TypeOK, ObjectOK
    <3>. QED
      BY <1>1, <3>1 DEF IInv, SentInv, RecordedWasSent
  <2>2. pc' \in {"status", "refetchStatus"} => upd'.obs \in accepted'
    BY <1>1, <2>1, StepWorker
  <2>3. \A i \in 1..Len(log') : log'[i].obs # 0 => log'[i].obs \in accepted'
    BY <1>1, <1>2, <2>1
  <2>4. DOMAIN log' = 1..Len(log')
    BY <1>1 DEF TypeInv, TypeOK, ObjectOK
  <2>. QED
    BY <2>2, <2>3, <2>4 DEF RecordedWasSent
<1>. QED
  BY <1>1, <1>4, <1>5, <1>6, <1>7 DEF IInv

LEMMA Invariance == Spec => []IInv
BY IInvInit, IInvNext, PTL DEF Spec

-----------------------------------------------------------------------------
(* The theorems.                                                           *)

\* From the first accepted update request until a remove request has returned
\* the object exists with the operator's finalizer, for every number of edits,
\* failures, restarts and stale reads.
THEOREM FinalizerHeldCorrect == Spec => []FinalizerHeld
<1>1. IInv => FinalizerHeld
  <2> SUFFICES ASSUME IInv, accepted # {}, ~removed PROVE Latest.present /\ Latest.own
    BY DEF FinalizerHeld
  <2>1. PICK i \in 1..Len(log) : log[i].own
    BY DEF IInv, DebtInv
  <2>2. Latest = log[Len(log)] /\ Len(log) \in 1..Len(log) /\ Len(log) \in Nat
    BY LatestType DEF IInv, TypeInv, TypeOK
  <2>. QED
    BY <2>1, <2>2 DEF IInv, HistoryInv, Ordered
<1>. QED
  BY <1>1, Invariance, PTL

\* When the object gives an update URL, only a generation that the remote
\* server accepted is ever recorded.
THEOREM RecordedWasSentCorrect == Spec => [](urls.update => RecordedWasSent)
<1>1. IInv => (urls.update => RecordedWasSent)
  BY DEF IInv, SentInv
<1>. QED
  BY <1>1, Invariance, PTL

\* The recorded generation never goes back.
THEOREM ObservedMonotoneCorrect == Spec => []ObservedMonotone
<1>1. IInv => ObservedMonotone
  <2> SUFFICES ASSUME IInv PROVE ObservedMonotone
    OBVIOUS
  <2>1. DOMAIN log = 1..Len(log)
    BY DEF IInv, TypeInv, TypeOK, ObjectOK
  <2>. QED
    BY <2>1 DEF IInv, HistoryInv, Ordered, ObservedMonotone
<1>. QED
  BY <1>1, Invariance, PTL

\* Once a remove request has returned nothing is made on the remote server.
THEOREM NothingCreatedCorrect == Spec => NothingCreatedAfterRemove
<1>1. IInv /\ [Next]_vars => [removed => live' \subseteq live]_vars
  <2> SUFFICES ASSUME IInv, [Next]_vars, removed PROVE live' \subseteq live
    OBVIOUS
  <2>1. pc # "send"
    BY DEF IInv, DebtInv
  <2>2. CASE Environment
    BY <2>2 DEF Environment, Edit, Delete, ReleaseForeign, Deliver, Resync, Crash, remote
  <2>3. CASE Worker
    BY <2>1, <2>3 DEF Worker, Begin, AddFinalizer, SendUpdate, AttemptStatus, RefetchStatus,
       SendRemove, AttemptRelease, RefetchRelease, remote
  <2>4. CASE UNCHANGED vars
    BY <2>4 DEF vars
  <2>. QED
    BY <2>2, <2>3, <2>4 DEF Next
<1>. QED
  BY <1>1, Invariance, PTL DEF Spec, NothingCreatedAfterRemove

-----------------------------------------------------------------------------
(* The ids in the status name resources that exist.                        *)

\* The same of the id that a running write loop is about to record.
NamesInv ==
  ~Latest.deleting =>
    /\ \A i \in 1..Len(log) : log[i].id # 0 => log[i].id \in live
    /\ pc \in {"status", "refetchStatus"} => (upd.id # 0 => upd.id \in live)

LEMMA NamesInit == Init => NamesInv
<1> SUFFICES ASSUME Init PROVE NamesInv
  OBVIOUS
<1>1. PICK foreign \in BOOLEAN :
        log = << [present |-> TRUE, gen |-> 1, deleting |-> FALSE, own |-> FALSE,
                  foreign |-> foreign, obs |-> 0, id |-> 0] >>
  BY DEF Init
<1>2. Len(log) = 1 /\ log[1].id = 0 /\ pc = "idle"
  BY <1>1 DEF Init
<1>. QED
  BY <1>2 DEF NamesInv

\* A deletion is final.
LEMMA StillDeleted ==
  ASSUME IInv, [Next]_vars, Latest.deleting
  PROVE  Latest'.deleting
<1>1. /\ HistoryInv' /\ Len(log) \in Nat /\ Len(log') \in Nat /\ Len(log) <= Len(log')
      /\ \A i \in 1..Len(log) : log'[i] = log[i]
  BY StepHistory
<1>2. Latest = log[Len(log)] /\ Len(log) \in 1..Len(log)
  BY LatestType DEF IInv, TypeInv, TypeOK
<1>3. /\ Len(log) \in 1..Len(log') /\ Len(log') \in 1..Len(log')
      /\ log'[Len(log)].deleting
  BY <1>1, <1>2
<1>4. log'[Len(log')].deleting
  BY <1>1, <1>3 DEF HistoryInv, Ordered
<1>. QED
  BY <1>4 DEF Latest

\* A remove request is only sent for an object that was deleted, although it
\* is sent for an old copy.
LEMMA LiveStays ==
  ASSUME IInv, [Next]_vars, ~Latest.deleting
  PROVE  live \subseteq live'
<1>1. pc # "remove"
  <2> SUFFICES ASSUME pc = "remove" PROVE FALSE
    OBVIOUS
  <2>1. rest.rv \in 1..cached /\ log[rest.rv].deleting
    BY DEF IInv, CopyInv
  <2>2. /\ Latest = log[Len(log)] /\ Len(log) \in 1..Len(log) /\ Len(log) \in Nat
        /\ cached \in 1..Len(log)
    BY LatestType DEF IInv, TypeInv, TypeOK, ObjectOK
  <2>3. rest.rv \in 1..Len(log) /\ rest.rv <= Len(log)
    BY <2>1, <2>2
  <2>. QED
    BY <2>1, <2>2, <2>3 DEF IInv, HistoryInv, Ordered
<1>2. CASE Environment
  BY <1>2 DEF Environment, Edit, Delete, ReleaseForeign, Deliver, Resync, Crash, remote
<1>3. CASE SendUpdate
  BY <1>3 DEF SendUpdate, Serve, remote
<1>4. CASE Worker /\ ~SendUpdate
  BY <1>1, <1>4 DEF Worker, Begin, AddFinalizer, AttemptStatus, RefetchStatus,
     SendRemove, AttemptRelease, RefetchRelease, remote
<1>5. CASE UNCHANGED vars
  BY <1>5 DEF vars
<1>. QED
  BY <1>2, <1>3, <1>4, <1>5 DEF Next

\* An answer names a resource that exists, or none.
LEMMA StepAnswer ==
  ASSUME IInv, [Next]_vars, pc' \in {"status", "refetchStatus"}
  PROVE  \/ pc \in {"status", "refetchStatus"} /\ upd' = upd
         \/ upd'.id # 0 => upd'.id \in live'
<1>1. CASE SendUpdate
  <2>1. pc' = "status"
    BY <1>1 DEF SendUpdate, Retry, Return
  <2>2. CASE /\ Serve(rest.ver.id)
             /\ upd' = [obs |-> rest.ver.gen, id |-> Answer(rest.ver.id)]
    BY <2>2 DEF Serve, Answer, remote
  <2>3. CASE upd' = [obs |-> rest.ver.gen, id |-> 0]
    BY <2>3
  <2>. QED
    BY <1>1, <2>1, <2>2, <2>3 DEF SendUpdate, Retry, Return
<1>2. CASE ~SendUpdate
  <2>2. CASE Environment
    BY <2>2 DEF Environment, Edit, Delete, ReleaseForeign, Deliver, Resync, Crash, Return,
       workVars
  <2>3. CASE AttemptStatus \/ RefetchStatus
    BY <2>3 DEF AttemptStatus, RefetchStatus, Retry, Return
  <2>4. CASE AddFinalizer \/ SendRemove \/ AttemptRelease \/ RefetchRelease
    BY <2>4 DEF AddFinalizer, SendRemove, AttemptRelease, RefetchRelease, Retry, Return
  <2>5. CASE Begin
    <3>1. log[cached] \in Version
      BY LatestType DEF IInv, TypeInv, TypeOK
    <3>. QED
      BY <2>5, <3>1 DEF Begin, Branch, Version
  <2>6. CASE UNCHANGED vars
    BY <2>6 DEF vars
  <2>. QED
    BY <1>2, <2>2, <2>3, <2>4, <2>5, <2>6 DEF Next, Worker
<1>. QED
  BY <1>1, <1>2

LEMMA NamesNext == IInv /\ NamesInv /\ [Next]_vars => NamesInv'
<1> SUFFICES ASSUME IInv, NamesInv, [Next]_vars, ~Latest'.deleting
             PROVE  /\ \A i \in 1..Len(log') : log'[i].id # 0 => log'[i].id \in live'
                    /\ pc' \in {"status", "refetchStatus"} =>
                         (upd'.id # 0 => upd'.id \in live')
  BY DEF NamesInv
<1>1. ~Latest.deleting /\ live \subseteq live'
  BY StillDeleted, LiveStays
<1>2. /\ \A i \in 1..Len(log) : log[i].id # 0 => log[i].id \in live
      /\ pc \in {"status", "refetchStatus"} => (upd.id # 0 => upd.id \in live)
  BY <1>1 DEF NamesInv
<1>3. \A i \in 1..Len(log') :
        \/ \E k \in 1..Len(log) : log'[i].id = log[k].id
        \/ pc = "status" /\ log'[i].id = upd.id
  BY StepHistory
<1>4. \A i \in 1..Len(log') : log'[i].id # 0 => log'[i].id \in live'
  BY <1>1, <1>2, <1>3
<1>5. pc' \in {"status", "refetchStatus"} => (upd'.id # 0 => upd'.id \in live')
  BY <1>1, <1>2, StepAnswer
<1>. QED
  BY <1>4, <1>5

\* While nobody has deleted the object, every id that its status ever had
\* names a resource that exists.
THEOREM StatusNamesResourceCorrect == Spec => []StatusNamesResource
<1>1. IInv /\ NamesInv => StatusNamesResource
  <2>1. IInv => DOMAIN log = 1..Len(log)
    BY DEF IInv, TypeInv, TypeOK, ObjectOK
  <2>. QED
    BY <2>1 DEF NamesInv, StatusNamesResource
<1>2. Spec => []NamesInv
  BY NamesInit, NamesNext, Invariance, PTL DEF Spec
<1>. QED
  BY <1>1, <1>2, Invariance, PTL

-----------------------------------------------------------------------------
(* A run is bounded.                                                       *)

\* While a run is not over it has requests left, at most two for each attempt
\* of a write loop and two more.
LEMMA LeftBounds ==
  ASSUME TypeInv
  PROVE  /\ Left \in 0..(2 * MaxSteps + 1)
         /\ pc # "idle" => Left > 0
<1>1. /\ MaxSteps \in Nat /\ steps \in 0..MaxSteps
      /\ pc \in {"status", "release"} => steps > 0
  BY BoundsAssumption DEF BoundsAssumption, TypeInv, TypeOK, WorkerOK, CountInv
<1>. QED
  BY <1>1 DEF Left

\* A run that ends has none left.
LEMMA ReturnLeft ==
  ASSUME TypeInv, Return, pc # "idle"
  PROVE  Left' < Left
<1>1. Left' = 0
  BY DEF Return, Left
<1>. QED
  BY <1>1, LeftBounds

LEMMA StepLeft ==
  ASSUME TypeInv, pc # "idle", Worker \/ (Next /\ workVars' # workVars)
  PROVE  Left' < Left
<1>0. /\ MaxSteps \in Nat /\ steps \in 0..MaxSteps
      /\ pc \in {"status", "release"} => steps > 0
  BY BoundsAssumption DEF BoundsAssumption, TypeInv, TypeOK, WorkerOK, CountInv
<1>1. CASE Return
  BY <1>1, ReturnLeft
<1>2. CASE Worker /\ ~Return
  <2>1. CASE SendUpdate \/ SendRemove
    <3>1. pc \in {"send", "remove"} /\ pc' \in {"status", "release"} /\ steps' = MaxSteps
      BY <1>2, <2>1 DEF SendUpdate, SendRemove, Retry
    <3>2. Left = 2 * MaxSteps + 1 /\ Left' = 2 * MaxSteps
      BY <3>1 DEF Left
    <3>. QED
      BY <1>0, <3>2
  <2>2. CASE AttemptStatus \/ AttemptRelease
    <3>1. /\ pc \in {"status", "release"} /\ steps' = steps - 1
          /\ pc' = pc \/ pc' \in {"refetchStatus", "refetchRelease"}
      BY <1>2, <2>2 DEF AttemptStatus, AttemptRelease, BackoffStep
    <3>2. Left = 2 * steps /\ (Left' = 2 * steps' \/ Left' = 2 * steps' + 1)
      BY <3>1 DEF Left
    <3>. QED
      BY <1>0, <3>1, <3>2
  <2>3. CASE RefetchStatus \/ RefetchRelease
    <3>1. /\ pc \in {"refetchStatus", "refetchRelease"} /\ steps' = steps
          /\ pc' \in {"status", "release"}
      BY <1>2, <2>3 DEF RefetchStatus, RefetchRelease, Retry
    <3>2. Left = 2 * steps + 1 /\ Left' = 2 * steps
      BY <3>1 DEF Left
    <3>. QED
      BY <1>0, <3>2
  <2>4. CASE Begin \/ AddFinalizer
    BY <1>2, <2>4 DEF Begin, AddFinalizer, Retry
  <2>. QED
    BY <1>2, <2>1, <2>2, <2>3, <2>4 DEF Worker
<1>3. CASE Environment /\ workVars' # workVars
  BY <1>1, <1>3 DEF Environment, Edit, Delete, ReleaseForeign, Deliver, Resync, Crash
<1>. QED
  BY <1>1, <1>2, <1>3 DEF Next

\* Every step of a run leaves it fewer requests, whatever happens meanwhile.
THEOREM RunGetsOnCorrect == Spec => RunGetsOn
<1>1. TypeInv /\ [Next]_vars =>
        [pc # "idle" /\ (Worker \/ workVars' # workVars) => Left' < Left]_vars
  BY StepLeft DEF vars, workVars
<1>2. Spec => []TypeInv
  BY TypeInit, TypeNext, PTL DEF Spec
<1>. QED
  BY <1>1, <1>2, PTL DEF Spec, RunGetsOn

-----------------------------------------------------------------------------
(* The controller implements RemoteObligation.                             *)

\* Only an object that is there is written, and only the step that adds the
\* finalizer writes one that was not there.
LEMMA StepOwn ==
  ASSUME IInv, [Next]_vars, log' # log
  PROVE  /\ Latest.present
         /\ Latest'.own => Latest.own \/ pc = "finalize"
<1>0. ObjectOK /\ Latest \in Version /\ upd \in [obs: 0..(MaxGen + 1), id: Nat]
  BY LatestType DEF IInv, TypeInv, TypeOK, WorkerOK
<1>a. ASSUME NEW v \in Version, Write(v)
      PROVE  Latest'.own = v.own
  <2>1. /\ Len(log') = Len(log) + 1 /\ log'[Len(log) + 1] = Stored(v)
        /\ Stored(v).own = v.own
    BY <1>0, <1>a, WriteLog, StoredType
  <2>. QED
    BY <2>1 DEF Latest
<1>1. CASE Edit
  <2>1. Latest.present /\ Latest.gen <= MaxGen /\ MaxGen \in Nat
    BY <1>0, <1>1, LatestType, BoundsAssumption DEF Edit, BoundsAssumption
  <2>. QED
    BY <1>0, <1>1, <1>a, <2>1, EditType DEF Edit
<1>2. CASE Delete
  <2>1. Latest.present /\ Latest.gen <= MaxGen /\ MaxGen \in Nat
    BY <1>0, <1>2, LatestType, BoundsAssumption
       DEF Delete, BoundsAssumption, IInv, TypeInv, CountInv
  <2>2. Write([Latest EXCEPT !.deleting = TRUE, !.gen = @ + 1])
    BY <1>2 DEF Delete
  <2>3. [Latest EXCEPT !.deleting = TRUE, !.gen = @ + 1] \in Version
    BY <1>0, <2>1, DeleteType
  <2>4. Latest'.own = [Latest EXCEPT !.deleting = TRUE, !.gen = @ + 1].own
    BY <1>a, <2>2, <2>3
  <2>5. [Latest EXCEPT !.deleting = TRUE, !.gen = @ + 1].own = Latest.own
    BY <1>0 DEF Version
  <2>. QED
    BY <2>1, <2>4, <2>5
<1>3. CASE ReleaseForeign
  BY <1>0, <1>3, <1>a, ForeignType DEF ReleaseForeign
<1>4. CASE AddFinalizer
  <2>1. Latest.present /\ pc = "finalize"
    BY <1>4, CarriedOut DEF AddFinalizer, WriteFinalizer
  <2>. QED
    BY <2>1
<1>5. CASE AttemptStatus
  <2>1. Latest.present /\ Write(Merge(Latest, upd))
    BY <1>5, CarriedOut DEF AttemptStatus, WriteStatus
  <2>. QED
    BY <1>0, <1>a, <2>1, MergeType
<1>6. CASE AttemptRelease
  <2>1. Latest.present /\ Write([Latest EXCEPT !.own = rest.ver.own]) /\ pc = "release"
    BY <1>6, CarriedOut DEF AttemptRelease, WriteRelease
  <2>2. rest.ver \in Version /\ ~rest.ver.own
    BY <2>1 DEF IInv, TypeInv, TypeOK, WorkerOK, CopyInv
  <2>3. rest.ver.own \in BOOLEAN
    BY <2>2 DEF Version
  <2>4. Latest'.own = rest.ver.own
    BY <1>0, <1>a, <2>1, <2>3, OwnType
  <2>. QED
    BY <2>1, <2>2, <2>4
<1>7. CASE Deliver \/ Resync \/ Crash \/ Begin \/ SendUpdate \/ RefetchStatus
            \/ SendRemove \/ RefetchRelease \/ UNCHANGED vars
  BY <1>7 DEF Deliver, Resync, Crash, Begin, SendUpdate, RefetchStatus, SendRemove,
     RefetchRelease, vars
<1>. QED
  BY <1>1, <1>2, <1>3, <1>4, <1>5, <1>6, <1>7 DEF Next, Worker, Environment

\* The request that makes the debt is only sent while the finalizer is on.
LEMMA SendGuarded ==
  ASSUME IInv, pc = "send"
  PROVE  ~removed /\ Latest.present /\ Latest.own
<1>1. ~removed /\ rest.rv \in 1..cached /\ log[rest.rv].own
  BY DEF IInv, DebtInv, CopyInv
<1>2. Latest = log[Len(log)] /\ Len(log) \in 1..Len(log) /\ cached \in 1..Len(log)
  BY LatestType DEF IInv, TypeInv, TypeOK, ObjectOK
<1>3. rest.rv \in 1..Len(log) /\ rest.rv <= Len(log)
  BY <1>1, <1>2
<1>. QED
  BY <1>1, <1>2, <1>3 DEF IInv, HistoryInv, Ordered

LEMMA ObligationInit == Init => Obligation!Init
<1> SUFFICES ASSUME Init PROVE object = "plain" /\ debt = "none"
  BY DEF Obligation!Init
<1>1. PICK foreign \in BOOLEAN :
        log = << [present |-> TRUE, gen |-> 1, deleting |-> FALSE, own |-> FALSE,
                  foreign |-> foreign, obs |-> 0, id |-> 0] >>
  BY DEF Init
<1>2. Latest.present = TRUE /\ Latest.own = FALSE
  BY <1>1 DEF Latest
<1>. QED
  BY <1>2 DEF Init, object, debt

LEMMA ObligationNext ==
  ASSUME IInv, [Next]_vars
  PROVE  [Obligation!Next]_<<object, debt>>
<1>0. /\ IInv' /\ (removed => removed') /\ accepted \subseteq accepted'
      /\ removed \in BOOLEAN /\ removed' \in BOOLEAN
  BY IInvNext, StepForward DEF IInv, TypeInv, TypeOK, RemoteOK
<1>1. FinalizerHeld
  <2> SUFFICES ASSUME accepted # {}, ~removed PROVE Latest.present /\ Latest.own
    BY DEF FinalizerHeld
  <2>1. PICK i \in 1..Len(log) : log[i].own
    BY DEF IInv, DebtInv
  <2>2. Latest = log[Len(log)] /\ Len(log) \in 1..Len(log) /\ Len(log) \in Nat
    BY LatestType DEF IInv, TypeInv, TypeOK
  <2>. QED
    BY <2>1, <2>2 DEF IInv, HistoryInv, Ordered
<1>2. CASE accepted' # accepted
  <2>1. pc = "send" /\ UNCHANGED log /\ ~removed /\ Latest.present /\ Latest.own /\ ~removed'
    BY <1>0, <1>2, SendGuarded, StepWorker
  <2>2. object = "guarded" /\ object' = "guarded" /\ debt' = "owed" /\ debt \in {"none", "owed"}
    BY <1>0, <1>2, <2>1 DEF object, debt, Latest
  <2>. QED
    BY <2>2 DEF Obligation!Next, Obligation!Owe
<1>3. CASE removed' # removed
  <2>1. pc = "remove" /\ UNCHANGED log /\ ~removed /\ removed'
    BY <1>0, <1>3, StepWorker
  <2>2. object' = object /\ debt # "settled" /\ debt' = "settled"
    BY <2>1 DEF object, debt, Latest
  <2>. QED
    BY <2>2 DEF Obligation!Next, Obligation!Settle
<1>4. CASE accepted' = accepted /\ removed' = removed /\ log' = log
  BY <1>4 DEF object, debt, Latest
<1>5. CASE accepted' = accepted /\ removed' = removed /\ log' # log
  <2>1. debt' = debt
    BY <1>5 DEF debt
  <2>2. Latest.present /\ (Latest'.own => Latest.own \/ pc = "finalize")
    BY <1>5, StepOwn
  <2>3. /\ Latest \in Version /\ Latest' \in Version
        /\ Latest'.own /\ ~removed' => Latest'.present
        /\ Latest.own /\ ~removed => Latest'.own
    <3>1. PICK v \in Version : Write(v) /\ GoodWrite(v)
      BY <1>5, StepWrites
    <3>2. ObjectOK
      BY DEF IInv, TypeInv, TypeOK
    <3>3. Len(log') = Len(log) + 1 /\ log'[Len(log) + 1] = Stored(v)
      BY <3>1, <3>2, WriteLog
    <3>4. Latest' = Stored(v) /\ Stored(v) \in Version /\ Stored(v).own = v.own
      BY <3>1, <3>3, StoredType DEF Latest
    <3>. QED
      BY <3>1, <3>2, <3>4, LatestType DEF GoodWrite, Ordered
  <2>4. CASE Latest.own /\ ~removed
    BY <1>5, <2>1, <2>2, <2>3, <2>4 DEF object
  <2>5. CASE Latest.own /\ removed
    <3>1. object = "guarded" /\ debt = "settled" /\ object' \in {"guarded", "plain", "absent"}
      BY <2>2, <2>5 DEF object, debt
    <3>. QED
      BY <2>1, <3>1 DEF Obligation!Next, Obligation!Release
  <2>6. CASE ~Latest.own /\ Latest'.own
    <3>1. pc = "finalize" /\ ~removed
      BY <2>2, <2>6 DEF IInv, DebtInv
    <3>2. accepted = {}
      BY <1>1, <2>6, <3>1 DEF FinalizerHeld
    <3>3. object = "plain" /\ debt = "none" /\ object' = "guarded"
      BY <1>5, <2>2, <2>3, <2>6, <3>1, <3>2 DEF object, debt
    <3>. QED
      BY <2>1, <3>3 DEF Obligation!Next, Obligation!Guard
  <2>7. CASE ~Latest.own /\ ~Latest'.own
    <3>1. object = "plain" /\ object' \in {"plain", "absent"}
      BY <2>2, <2>7 DEF object
    <3>2. debt # "owed"
      BY <1>1, <2>7 DEF FinalizerHeld, debt
    <3>. QED
      BY <2>1, <3>1, <3>2 DEF Obligation!Next, Obligation!Vanish
  <2>. QED
    BY <2>4, <2>5, <2>6, <2>7
<1>. QED
  BY <1>2, <1>3, <1>4, <1>5

\* The controller implements the abstract obligation.
THEOREM ObligationCorrect == Spec => ImplementsObligation
BY ObligationInit, ObligationNext, Invariance, PTL
   DEF Spec, ImplementsObligation, Obligation!Spec

-----------------------------------------------------------------------------
(* No work is forgotten.                                                   *)

\* Something will make the worker look at the object again.
Awaited == queued \/ cached < Len(log)

\* While the key is not queued a run has the version that the cache holds; a
\* run that met a conflict has an older one than the current; a status that
\* is written for nothing was written before; and attempts that were used up
\* without a conflict were used up by requests that failed.
AwareInv ==
  /\ pc # "idle" /\ ~queued => rest.rv = cached
  /\ pc \in {"refetchStatus", "refetchRelease"} => rest.rv < Len(log)
  /\ pc = "send" => rest.ver.obs # rest.ver.gen
  /\ pc = "status" => Awaited \/ log[rest.rv].obs # upd.obs
  /\ pc \in {"status", "release"} =>
       Awaited \/ ~Latest.present \/ faults + steps >= MaxSteps
  /\ NothingForgotten

LEMMA AwareInit == Init => AwareInv
<1> SUFFICES ASSUME Init PROVE AwareInv
  OBVIOUS
<1>1. pc = "idle" /\ queued
  BY DEF Init
<1>. QED
  BY <1>1 DEF AwareInv, NothingForgotten

\* A step that writes leaves a version that the cache has not seen.
LEMMA WriteAwaited ==
  ASSUME IInv, [Next]_vars, log' # log
  PROVE  Awaited' /\ Len(log) < Len(log')
<1>1. PICK v \in Version : Write(v)
  BY StepWrites
<1>2. /\ Len(log) \in Nat /\ Len(log') = Len(log) + 1 /\ cached \in 1..Len(log)
  BY <1>1, WriteLog DEF IInv, TypeInv, TypeOK, ObjectOK
<1>3. cached' = cached
  BY DEF Next, Worker, Environment, Edit, Delete, ReleaseForeign, Deliver, Resync, Crash,
     Begin, AddFinalizer, SendUpdate, AttemptStatus, RefetchStatus, SendRemove,
     AttemptRelease, RefetchRelease, vars
<1>. QED
  BY <1>2, <1>3 DEF Awaited

\* What is awaited stays so until a run begins, an object that is gone stays
\* gone, and failures are counted.
LEMMA StepAwaited ==
  ASSUME IInv, [Next]_vars
  PROVE  /\ pc # "idle" /\ Awaited => Awaited'
         /\ ~Latest.present => ~Latest'.present /\ UNCHANGED log
         /\ faults \in Nat /\ faults' \in Nat /\ faults <= faults'
         /\ queued \in BOOLEAN /\ cached \in 1..Len(log) /\ Len(log) \in Nat
<1>1. /\ faults \in Nat /\ faults' \in Nat /\ queued \in BOOLEAN
      /\ cached \in 1..Len(log) /\ Len(log) \in Nat
      /\ MaxFaults \in Nat
  <2>1. TypeInv' /\ TypeInv /\ MaxFaults \in Nat
    BY StepForward, BoundsAssumption DEF IInv, BoundsAssumption
  <2>. QED
    BY <2>1 DEF TypeInv, TypeOK, ObjectOK, BoundsOK
<1>2. faults <= faults'
  BY <1>1 DEF Next, Worker, Environment, Edit, Delete, ReleaseForeign, Deliver, Resync, Crash,
     Begin, AddFinalizer, SendUpdate, AttemptStatus, RefetchStatus, SendRemove,
     AttemptRelease, RefetchRelease, vars, bounds, Fault, NoFault
<1>3. ASSUME ~Latest.present PROVE UNCHANGED log /\ ~Latest'.present
  <2>1. UNCHANGED log
    BY <1>3, StepOwn
  <2>. QED
    BY <1>3, <2>1 DEF Latest
<1>4. ASSUME pc # "idle", Awaited PROVE Awaited'
  <2>1. CASE log' # log
    BY <2>1, WriteAwaited
  <2>2. CASE UNCHANGED log /\ ~Begin
    <3>1. queued => queued'
      BY <2>2 DEF Next, Worker, Environment, Edit, Delete, ReleaseForeign, Deliver, Resync,
         Crash, AddFinalizer, SendUpdate, AttemptStatus, RefetchStatus, SendRemove,
         AttemptRelease, RefetchRelease, vars, Retry
    <3>2. cached' = cached \/ queued'
      BY <2>2 DEF Next, Worker, Environment, Edit, Delete, ReleaseForeign, Deliver, Resync,
         Crash, AddFinalizer, SendUpdate, AttemptStatus, RefetchStatus, SendRemove,
         AttemptRelease, RefetchRelease, vars, Retry
    <3>. QED
      BY <1>4, <2>2, <3>1, <3>2 DEF Awaited
  <2>. QED
    BY <1>4, <2>1, <2>2 DEF Begin
<1>. QED
  BY <1>1, <1>2, <1>3, <1>4

\* A branch is left out only for an object that needs nothing.
LEMMA BranchIdle ==
  ASSUME NEW v \in Version, v.present => Branch(v) = "idle"
  PROVE  ~Needs(v)
BY DEF Branch, Needs, Version

\* An object that is being deleted and has lost the finalizer needs nothing.
LEMMA ReleasedNeedsNothing ==
  ASSUME IInv, removed, ~Latest.own
  PROVE  ~Needs(Latest)
<1>1. log[cached].deleting
  BY DEF IInv, DebtInv
<1>2. /\ Latest = log[Len(log)] /\ Len(log) \in 1..Len(log) /\ Len(log) \in Nat
      /\ cached \in 1..Len(log)
  BY LatestType DEF IInv, TypeInv, TypeOK, ObjectOK
<1>3. Latest.deleting
  BY <1>1, <1>2 DEF IInv, HistoryInv, Ordered
<1>. QED
  BY <1>3 DEF Needs

\* A run that ends leaves the object awaited or in need of nothing, unless
\* the requests that failed used up the attempts.
LEMMA EndAware ==
  ASSUME IInv, AwareInv, Worker, Return, pc # "idle"
  PROVE  Awaited' \/ ~Needs(Latest') \/ faults' >= MaxSteps
<1> USE BoundsAssumption DEF BoundsAssumption
<1>0. /\ steps \in 0..MaxSteps /\ faults \in Nat /\ MaxSteps \in Nat
      /\ rest.ver \in Version /\ Latest \in Version
  BY LatestType DEF IInv, TypeInv, TypeOK, WorkerOK, BoundsOK
<1>1. [Next]_vars
  BY DEF Next
<1>2. CASE log' # log
  BY <1>1, <1>2, WriteAwaited
<1>3. CASE Retry
  BY <1>3 DEF Retry, Awaited
<1>4. CASE UNCHANGED log /\ ~Retry
  <2>0. Latest' = Latest
    BY <1>4 DEF Latest
  <2>1. CASE AttemptStatus \/ AttemptRelease
    <3>1. pc \in {"status", "release"}
      BY <2>1 DEF AttemptStatus, AttemptRelease
    <3>2. CASE Awaited
      BY <1>1, <3>2, StepAwaited
    <3>3. CASE ~Latest.present
      BY <2>0, <3>3 DEF Needs
    <3>4. CASE Fault /\ ~StepsLeft /\ faults + steps >= MaxSteps
      BY <1>0, <3>4 DEF Fault, StepsLeft
    <3>5. CASE Latest.own = rest.ver.own /\ AttemptRelease
      <4>1. removed /\ ~Latest.own
        BY <3>5 DEF AttemptRelease, IInv, CopyInv
      <4>. QED
        BY <2>0, <4>1, ReleasedNeedsNothing
    <3>6. CASE Current /\ Latest.obs = upd.obs /\ pc = "status"
      <4>1. log[rest.rv].obs = upd.obs
        BY <3>6 DEF Current, Latest
      <4>. QED
        BY <1>1, <3>6, <4>1, StepAwaited DEF AwareInv
    <3>7. /\ Awaited \/ ~Latest.present \/ faults + steps >= MaxSteps
          /\ \/ WriteStatus /\ pc = "status"
             \/ WriteRelease /\ AttemptRelease
             \/ pc' \in {"refetchStatus", "refetchRelease"}
             \/ ~Latest.present
             \/ Fault /\ ~StepsLeft
             \/ pc' = pc
      BY <2>1, <3>1 DEF AwareInv, AttemptStatus, AttemptRelease
    <3>8. /\ Merge(Latest, upd) \in Version /\ Merge(Latest, upd).obs = upd.obs
          /\ [Latest EXCEPT !.own = rest.ver.own] \in Version
          /\ [Latest EXCEPT !.own = rest.ver.own].own = rest.ver.own
      <4>1. upd \in [obs: 0..(MaxGen + 1), id: Nat] /\ rest.ver.own \in BOOLEAN
        BY <1>0 DEF IInv, TypeInv, TypeOK, WorkerOK, Version
      <4>. QED
        BY <1>0, <4>1, MergeType, OwnType
    <3>9. \A v \in Version : CarryOut(v) => Current /\ v = Latest
      <4>1. ObjectOK /\ Len(log) \in Nat
        BY LatestType DEF IInv, TypeInv, TypeOK
      <4>2. \A v \in Version : ~Write(v)
        BY <1>4, <4>1, WriteLog
      <4>. QED
        BY <4>2 DEF CarryOut
    <3>10. WriteStatus => Current /\ Latest.obs = upd.obs
      BY <3>8, <3>9 DEF WriteStatus
    <3>11. WriteRelease => Latest.own = rest.ver.own
      BY <3>8, <3>9 DEF WriteRelease
    <3>12. pc' = "idle"
      BY DEF Return
    <3>. QED
      BY <3>1, <3>2, <3>3, <3>4, <3>5, <3>6, <3>7, <3>10, <3>11, <3>12
  <2>2. CASE RefetchStatus \/ RefetchRelease
    <3>1. rest.rv < Len(log) /\ (~queued => rest.rv = cached)
      BY <2>2 DEF AwareInv, RefetchStatus, RefetchRelease
    <3>2. Awaited
      BY <3>1 DEF Awaited
    <3>. QED
      BY <1>1, <3>2, StepAwaited
  <2>3. CASE AddFinalizer
    <3>1. CarryOut([Latest EXCEPT !.own = TRUE])
      BY <1>4, <2>3 DEF AddFinalizer, WriteFinalizer
    <3>2. [Latest EXCEPT !.own = TRUE] \in Version /\ [Latest EXCEPT !.own = TRUE].own
      BY <1>0, OwnType
    <3>3. ~Latest.own
      BY <2>3, <3>1 DEF AddFinalizer, CarryOut, Current, Latest, IInv, CopyInv
    <3>4. Write([Latest EXCEPT !.own = TRUE])
      BY <3>1, <3>2, <3>3, CarriedOut
    <3>5. ObjectOK /\ Len(log) \in Nat
      BY LatestType DEF IInv, TypeInv, TypeOK
    <3>. QED
      BY <1>4, <3>2, <3>4, <3>5, WriteLog
  <2>4. CASE SendUpdate \/ SendRemove
    <3>1. pc' \in {"status", "release"}
      BY <1>4, <2>4 DEF SendUpdate, SendRemove
    <3>. QED
      BY <3>1 DEF Return
  <2>. QED
    BY <2>1, <2>2, <2>3, <2>4 DEF Worker, Begin
<1>. QED
  BY <1>2, <1>3, <1>4

\* The same between two requests of a run.
LEMMA RunAware ==
  ASSUME IInv, AwareInv, Worker, ~Return, pc # "idle"
  PROVE  AwareInv'
<1> USE BoundsAssumption DEF BoundsAssumption
<1>0. /\ steps \in 0..MaxSteps /\ faults \in Nat /\ MaxSteps \in Nat
      /\ rest.rv \in 0..Len(log) /\ Len(log) \in Nat /\ [Next]_vars
  BY LatestType DEF IInv, TypeInv, TypeOK, WorkerOK, BoundsOK, Next
<1>1. CASE SendUpdate \/ SendRemove
  <2>1. /\ pc' \in {"status", "release"} /\ steps' = MaxSteps /\ rest'.rv = rest.rv
        /\ UNCHANGED <<queued, cached>>
    <3>1. rest' \in {[rest EXCEPT !.ver = Merge(@, upd')], [rest EXCEPT !.ver.own = FALSE]}
      BY <1>1 DEF SendUpdate, SendRemove, Retry
    <3>2. rest'.rv = rest.rv
      BY <3>1 DEF IInv, TypeInv, TypeOK, WorkerOK
    <3>. QED
      BY <1>1, <3>2 DEF SendUpdate, SendRemove, Retry
  <2>2. faults' + steps' >= MaxSteps
    <3>1. faults' \in Nat
      BY <1>0, StepAwaited
    <3>2. \A m, n \in Nat : m + n >= n
      OBVIOUS
    <3>. QED
      BY <1>0, <2>1, <3>1, <3>2
  <2>3. pc' # "idle" /\ ~queued' => rest'.rv = cached'
    BY <2>1 DEF AwareInv
  <2>4. pc' = "status" => log'[rest'.rv].obs # upd'.obs
    <3>1. SendUpdate => upd'.obs = rest.ver.gen
      BY <2>1 DEF SendUpdate, Retry, Return
    <3>2. pc = "send" => rest.ver = log[rest.rv] /\ rest.ver.obs # rest.ver.gen
      BY DEF IInv, CopyInv, AwareInv
    <3>. QED
      BY <1>1, <2>1, <3>1, <3>2 DEF SendUpdate, SendRemove, Retry, Return
  <2>. QED
    BY <2>1, <2>2, <2>3, <2>4 DEF AwareInv, NothingForgotten
<1>2. CASE AttemptStatus \/ AttemptRelease
  <2>1. /\ pc \in {"status", "release"} /\ UNCHANGED <<rest, upd, cached, queued>>
        /\ steps' = steps - 1
        /\ \/ Conflict /\ UNCHANGED log /\ pc' \in {"refetchStatus", "refetchRelease"}
           \/ pc' = pc /\ (~Latest.present \/ Fault)
    BY <1>2 DEF AttemptStatus, AttemptRelease, BackoffStep
  <2>2. pc' \in {"refetchStatus", "refetchRelease"} => rest'.rv < Len(log')
    BY <1>0, <2>1 DEF Conflict
  <2>3. ASSUME pc' = pc
        PROVE  Awaited' \/ ~Latest'.present \/ faults' + steps' >= MaxSteps
    <3>1. CASE Awaited \/ ~Latest.present
      BY <1>0, <3>1, StepAwaited, <2>1
    <3>2. CASE faults + steps >= MaxSteps /\ Fault
      BY <1>0, <2>1, <3>2 DEF Fault
    <3>. QED
      BY <2>1, <2>3, <3>1, <3>2 DEF AwareInv
  <2>4. pc' = "status" => Awaited' \/ log'[rest'.rv].obs # upd'.obs
    <3>1. CASE log' # log
      BY <1>0, <3>1, WriteAwaited
    <3>2. CASE log' = log
      BY <1>0, <2>1, <3>2, StepAwaited DEF AwareInv
    <3>. QED
      BY <3>1, <3>2
  <2>5. pc' # "idle" /\ ~queued' => rest'.rv = cached'
    BY <2>1 DEF AwareInv
  <2>. QED
    BY <2>1, <2>2, <2>3, <2>4, <2>5 DEF AwareInv, NothingForgotten
<1>3. CASE RefetchStatus \/ RefetchRelease
  <2>1. /\ pc \in {"refetchStatus", "refetchRelease"} /\ pc' \in {"status", "release"}
        /\ rest'.rv = cached /\ UNCHANGED <<queued, cached>>
    BY <1>3 DEF RefetchStatus, RefetchRelease, Retry
  <2>2. rest.rv < Len(log) /\ (~queued => rest.rv = cached)
    BY <2>1 DEF AwareInv
  <2>3. Awaited
    BY <2>2 DEF Awaited
  <2>4. Awaited'
    BY <1>0, <2>1, <2>3, StepAwaited
  <2>. QED
    BY <2>1, <2>4 DEF AwareInv, NothingForgotten
<1>. QED
  BY <1>1, <1>2, <1>3 DEF Worker, Begin, AddFinalizer, Retry

LEMMA AwareNext == IInv /\ AwareInv /\ [Next]_vars => AwareInv'
<1> SUFFICES ASSUME IInv, AwareInv, [Next]_vars PROVE AwareInv'
  OBVIOUS
<1>0. /\ faults \in Nat /\ faults' \in Nat /\ faults <= faults'
      /\ MaxSteps \in Nat /\ Len(log) \in Nat /\ Len(log') \in Nat
      /\ Len(log) <= Len(log') /\ cached \in 1..Len(log) /\ cached' \in 1..Len(log')
      /\ log[cached] \in Version /\ Latest = log[Len(log)]
  BY StepForward, StepAwaited, StepHistory, LatestType, BoundsAssumption
     DEF IInv, TypeInv, TypeOK, BoundsAssumption
<1>1. Needs(Latest)' <=> Needs(Latest')
  BY DEF Needs, SameGeneration
<1>2. CASE Begin
  <2>1. /\ pc' = IF log[cached].present THEN Branch(log[cached]) ELSE "idle"
        /\ pc' # "idle" => rest'.rv = cached
        /\ UNCHANGED <<log, cached>>
    BY <1>2 DEF Begin
  <2>2. pc' \in {"remove", "finalize", "send", "idle"}
    BY <1>0, <2>1 DEF Branch, Version
  <2>3. ASSUME pc' = "idle", cached = Len(log) PROVE ~Needs(Latest)'
    <3>1. ~Needs(log[cached])
      BY <1>0, <2>1, <2>3, BranchIdle
    <3>2. Latest' = log[cached]
      BY <1>0, <2>1, <2>3 DEF Latest
    <3>. QED
      BY <1>1, <3>1, <3>2
  <2>4. pc' = "send" => rest'.ver.obs # rest'.ver.gen
    BY <1>2, <2>1 DEF Begin, Branch, SameGeneration
  <2>. QED
    BY <2>1, <2>2, <2>3, <2>4 DEF AwareInv, NothingForgotten
<1>3. CASE Worker /\ pc # "idle" /\ Return
  <2>1. Awaited' \/ ~Needs(Latest') \/ faults' >= MaxSteps
    BY <1>3, EndAware
  <2>2. NothingForgotten'
    BY <1>0, <1>1, <2>1 DEF NothingForgotten, Awaited
  <2>. QED
    BY <1>3, <2>2 DEF AwareInv, Return
<1>4. CASE Worker /\ pc # "idle" /\ ~Return
  BY <1>4, RunAware
<1>5. CASE Crash
  BY <1>5 DEF Crash, Return, AwareInv, NothingForgotten
<1>6. CASE (Environment /\ ~Crash) \/ UNCHANGED vars
  <2>1. /\ UNCHANGED <<pc, rest, upd, steps, faults>>
        /\ ~queued' => ~queued /\ UNCHANGED cached
    BY <1>6 DEF Environment, Edit, Delete, ReleaseForeign, Deliver, Resync, workVars, bounds,
       vars
  <2>2. NothingForgotten'
    <3>1. CASE log' # log
      BY <1>0, <3>1, WriteAwaited DEF NothingForgotten, Awaited
    <3>2. CASE log' = log
      BY <1>1, <2>1, <3>2 DEF AwareInv, NothingForgotten, Latest
    <3>. QED
      BY <3>1, <3>2
  <2>3. ASSUME pc' \in {"status", "release"}
        PROVE  Awaited' \/ ~Latest'.present \/ faults' + steps' >= MaxSteps
    BY <2>1, <2>3, StepAwaited DEF AwareInv
  <2>4. pc' \in {"refetchStatus", "refetchRelease"} => rest'.rv < Len(log')
    <3>1. rest.rv \in 0..Len(log)
      BY DEF IInv, TypeInv, TypeOK, WorkerOK
    <3>. QED
      BY <1>0, <2>1, <3>1 DEF AwareInv
  <2>5. pc' # "idle" /\ ~queued' => rest'.rv = cached'
    BY <2>1 DEF AwareInv
  <2>6. pc' = "send" => rest'.ver.obs # rest'.ver.gen
    BY <2>1 DEF AwareInv
  <2>7. pc' = "status" => Awaited' \/ log'[rest'.rv].obs # upd'.obs
    <3>1. CASE log' # log
      BY <3>1, WriteAwaited
    <3>2. CASE log' = log
      BY <2>1, <3>2, StepAwaited DEF AwareInv
    <3>. QED
      BY <3>1, <3>2
  <2>. QED
    BY <2>2, <2>3, <2>4, <2>5, <2>6, <2>7 DEF AwareInv
<1>. QED
  BY <1>2, <1>3, <1>4, <1>5, <1>6 DEF Next, Worker, AddFinalizer, SendUpdate, AttemptStatus,
     RefetchStatus, SendRemove, AttemptRelease, RefetchRelease

\* When the key is not queued and the cache is up to date there is nothing to
\* do, unless as many requests failed as a write loop has attempts.
THEOREM NothingForgottenCorrect == Spec => []NothingForgotten
<1>1. Spec => []AwareInv
  BY AwareInit, AwareNext, Invariance, PTL DEF Spec
<1>2. AwareInv => NothingForgotten
  BY DEF AwareInv
<1>. QED
  BY <1>1, <1>2, PTL

=============================================================================
