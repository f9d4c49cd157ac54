-------------------------- MODULE SourceWatchProofs --------------------------
(***************************************************************************)
(* Proofs about SourceWatch, for any number of templates, kinds, sources   *)
(* and namespaces and every value of the bounds.                           *)
(***************************************************************************)
EXTENDS SourceWatch, SequenceTheorems, TLAPS

-----------------------------------------------------------------------------
(* The inductive invariant.                                                *)

\* The worker has asked for all namespaces before it handles a source, and
\* nobody watches the files of a git repository.
PhaseInv ==
  /\ pc = "handle" => job.spaces = {}
  /\ \A t \in Templates : informer[<<t, Git>>].state = "off"

\* What an informer has not handed over is of its kind and its label.
PendingInv ==
  \A i \in Keys, s \in Sources : \A n \in DOMAIN pending[i][s] :
    /\ informer[i].state # "off" /\ KindOf[s] = i[2]
    /\ pending[i][s][n].label = informer[i].label

\* While a template is as it was first, so is what the worker read of it, and
\* an informer has the template's own selector.
FirstInv ==
  \A t \in Templates : tmpl[t].gen = 1 =>
    /\ job.at = t => job.read = tmpl[t]
    /\ \A k \in Kinds : informer[<<t, k>>].state # "off" =>
         k = tmpl[t].sel.kind /\ informer[<<t, k>>].label = tmpl[t].sel.label

IInv ==
  /\ TypeOK /\ PhaseInv /\ PendingInv /\ FirstInv
  /\ InformerMissesNothing /\ StrayNeedsEdit

-----------------------------------------------------------------------------
(* Types.                                                                  *)

WorkerOK ==
  /\ queued \subseteq Templates
  /\ pc \in PCs /\ job \in Job /\ (pc = "idle" <=> job.at = None)

ClusterOK ==
  /\ tmpl \in [Templates -> Generation] /\ \A t \in Templates : tmpl[t].gen > 0
  /\ src \in [Sources -> Version] /\ odd \in BOOLEAN

WatchOK ==
  /\ informer \in [Keys -> [state: {"off", "starting", "on", "broken"},
                            label: Labels \cup {None}]]
  /\ pending \in [Keys -> [Sources -> Seq(Version)]]
  /\ hand \in [Keys -> Event]

ResultsOK ==
  /\ last \in [Templates -> [Sources -> [gen: 0..MaxGen, rev: 0..MaxRev]]]
  /\ note \in [Templates -> [Sources -> {"due", "done", "failed"}]]
  /\ troubles \in 0..MaxTroubles

\* The type invariant by what the actions change.
LEMMA TypeParts == TypeOK <=> ClusterOK /\ WorkerOK /\ WatchOK /\ ResultsOK
BY DEF TypeOK, ClusterOK, WorkerOK, WatchOK, ResultsOK

\* The values that stand for nothing are of the types.
LEMMA Nothing ==
  /\ NoSelector.kind = None /\ NoSelector.spaces = {}
  /\ NoTemplate \in Generation /\ NoJob \in Job /\ NoJob.at = None /\ NoVersion \in Version
  /\ NoEvent \in Event /\ NoInformer.state = "off" /\ NoInformer.label = None
BY BoundsAssumption DEF NoSelector, NoTemplate, NoJob, NoVersion, NoEvent, NoInformer,
   Generation, Job, Version, Event

LEMMA SelectorSpaces == \A sel \in Selectors : sel.spaces \subseteq Spaces
BY SourcesAssumption DEF Selector

LEMMA GenerationSpaces == \A g \in Generation : g.sel.spaces \subseteq Spaces
BY SelectorSpaces DEF Generation, NoSelector

LEMMA TroubleType == ASSUME troubles \in 0..MaxTroubles, Trouble \/ NoTrouble
                     PROVE  troubles' \in 0..MaxTroubles
BY BoundsAssumption DEF Trouble, NoTrouble

\* What is listed is a set of items.
LEMMA ListedType ==
  ASSUME ClusterOK, NEW n PROVE Listed(n) \subseteq Item
BY DEF ClusterOK, Listed, Item

\* A result that was handled or failed keeps the types.
LEMMA HandledType ==
  ASSUME ResultsOK, NEW t \in Templates, NEW read \in Generation, NEW s,
         NEW v \in Version, Handled(t, read, s, v) \/ Failed(t, read, s, v)
  PROVE  /\ last' \in [Templates -> [Sources -> [gen: 0..MaxGen, rev: 0..MaxRev]]]
         /\ note' \in [Templates -> [Sources -> {"due", "done", "failed"}]]
<1>1. read.gen \in 0..MaxGen /\ v.rev \in 0..MaxRev BY DEF Generation, Version
<1>2. CASE Handled(t, read, s, v)
  <2>1. last' \in [Templates -> [Sources -> [gen: 0..MaxGen, rev: 0..MaxRev]]]
    BY <1>1, <1>2 DEF Handled, ResultsOK
  <2>2. note' \in [Templates -> [Sources -> {"due", "done", "failed"}]]
    BY <1>2 DEF Handled, ResultsOK
  <2> QED BY <2>1, <2>2
<1>3. CASE Failed(t, read, s, v) BY <1>3 DEF Failed, ResultsOK
<1> QED BY <1>2, <1>3

\* The initial states are well typed.
LEMMA InitType == Init => TypeOK
<1> SUFFICES ASSUME Init PROVE TypeOK OBVIOUS
<1>1. ClusterOK
  <2>1. 1 \in 0..MaxGen /\ 1 \in 0..MaxRev /\ 1 > 0 BY BoundsAssumption
  <2>2. src \in [Sources -> Version] BY <2>1 DEF Init, Version
  <2>3. tmpl \in [Templates -> Generation] /\ \A t \in Templates : tmpl[t].gen > 0
    BY <2>1 DEF Init, Generation
  <2> QED BY <2>2, <2>3 DEF Init, ClusterOK
<1>2. WorkerOK BY Nothing DEF Init, WorkerOK, PCs
<1>3. WatchOK
  <2>1. informer \in [Keys -> [state: {"off", "starting", "on", "broken"},
                               label: Labels \cup {None}]]
    BY DEF Init, NoInformer
  <2>2. pending \in [Keys -> [Sources -> Seq(Version)]] BY DEF Init
  <2>3. hand \in [Keys -> Event] BY Nothing DEF Init
  <2> QED BY <2>1, <2>2, <2>3 DEF WatchOK
<1>4. ResultsOK BY BoundsAssumption DEF Init, ResultsOK
<1> QED BY <1>1, <1>2, <1>3, <1>4, TypeParts

\* Edits keep the types.
LEMMA EditTemplateType ==
  ASSUME TypeOK, NEW t \in Templates, NEW sel \in Selectors \cup {NoSelector},
         EditTemplate(t, sel)
  PROVE  TypeOK'
<1> USE TypeParts
<1>1. tmpl[t].gen + 1 \in 0..MaxGen /\ tmpl[t].gen + 1 > 0
  BY BoundsAssumption DEF EditTemplate, ClusterOK, Generation
<1>2. [gen |-> tmpl[t].gen + 1, sel |-> sel] \in Generation BY <1>1 DEF Generation
<1>3. ClusterOK'
  BY <1>1, <1>2 DEF EditTemplate, ClusterOK, Generation
<1>4. WorkerOK' BY DEF EditTemplate, WorkerOK, worker
<1>5. note' \in [Templates -> [Sources -> {"due", "done", "failed"}]]
  BY DEF EditTemplate, ResultsOK
<1>6. WatchOK' /\ ResultsOK' BY <1>5 DEF EditTemplate, WatchOK, ResultsOK, watching
<1> QED BY <1>3, <1>4, <1>6, TypeParts DEF TypeOK, ClusterOK, WorkerOK, WatchOK, ResultsOK

LEMMA EditSourceType ==
  ASSUME TypeOK, NEW s \in Sources, NEW label \in Labels \cup {None}, EditSource(s, label)
  PROVE  TypeOK'
<1> USE TypeParts
<1> DEFINE v == [rev |-> src[s].rev + 1, label |-> label]
<1>1. v \in Version
  BY BoundsAssumption DEF EditSource, ClusterOK, Version
<1>2. ClusterOK' BY <1>1 DEF EditSource, ClusterOK
<1>3. WorkerOK' BY DEF EditSource, WorkerOK, worker
<1>4. pending' \in [Keys -> [Sources -> Seq(Version)]]
  <2>1. Notify(s, src[s], v) BY DEF EditSource
  <2>2. \A i \in Keys : Append(pending[i][s], v) \in Seq(Version)
    BY <1>1 DEF WatchOK
  <2>3. \A i \in Keys : pending'[i] \in [Sources -> Seq(Version)]
    BY <2>1, <2>2 DEF Notify, WatchOK
  <2> QED BY <2>1, <2>3 DEF Notify
<1>5. note' \in [Templates -> [Sources -> {"due", "done", "failed"}]]
  BY DEF EditSource, ResultsOK
<1>6. WatchOK' /\ ResultsOK' BY <1>4, <1>5 DEF EditSource, WatchOK, ResultsOK
<1> QED BY <1>2, <1>3, <1>6 DEF TypeOK, ClusterOK, WorkerOK, WatchOK, ResultsOK

\* So do the steps of the worker.
LEMMA FailType ==
  ASSUME TypeOK, pc # "idle", Fail PROVE WorkerOK' /\ troubles' \in 0..MaxTroubles
<1>1. troubles' \in 0..MaxTroubles BY TroubleType DEF Fail, TypeOK
<1>2. queued \cup {job.at} \subseteq Templates BY DEF TypeOK, Job
<1> QED BY <1>1, <1>2, Nothing DEF Fail, Return, WorkerOK, TypeOK, PCs

LEMMA ReturnType == ASSUME Return PROVE pc' = "idle" /\ job' \in Job /\ job'.at = None
BY Nothing DEF Return

LEMMA WorkerStepType ==
  ASSUME TypeOK, WorkerOK', troubles' \in 0..MaxTroubles,
         UNCHANGED <<cluster, watching, results>>
  PROVE  TypeOK'
BY DEF cluster, watching, results, TypeOK, WorkerOK

LEMMA ReconcileType ==
  ASSUME TypeOK, NEW t \in Templates, Reconcile(t) PROVE TypeOK'
<1>1. WorkerOK'
  <2>1. CASE Present(t)
    <3>1. tmpl[t] \in Generation /\ tmpl[t].sel.spaces \subseteq Spaces
      BY GenerationSpaces DEF TypeOK
    <3>2. job' \in Job /\ job'.at = t BY <2>1, <3>1 DEF Reconcile, Job
    <3>3. pc' = "select" /\ queued' \subseteq Templates BY <2>1 DEF Reconcile, TypeOK
    <3> QED BY <3>2, <3>3, NoneAssumption DEF WorkerOK, PCs
  <2>2. CASE ~Present(t) BY <2>2 DEF Reconcile, worker, WorkerOK, TypeOK
  <2> QED BY <2>1, <2>2
<1> QED BY <1>1, WorkerStepType DEF Reconcile, TypeOK

LEMMA ListType ==
  ASSUME TypeOK, NEW n \in Spaces, List(n) PROVE TypeOK'
<1>1. WorkerOK' /\ troubles' \in 0..MaxTroubles
  <2>1. CASE /\ job' = [job EXCEPT !.spaces = @ \ {n}, !.todo = @ \cup Listed(n)]
             /\ UNCHANGED <<pc, queued>> /\ NoTrouble
    <3>1. Listed(n) \subseteq Item BY ListedType, TypeParts
    <3>2. job' \in Job /\ job'.at = job.at BY <2>1, <3>1 DEF TypeOK, Job
    <3> QED BY <2>1, <3>2 DEF TypeOK, WorkerOK, NoTrouble
  <2>2. CASE Fail BY <2>2, FailType DEF List
  <2> QED BY <2>1, <2>2 DEF List
<1> QED BY <1>1, WorkerStepType DEF List, results

LEMMA DownloadType ==
  ASSUME TypeOK, Download PROVE TypeOK'
<1> DEFINE files == IF odd THEN {} ELSE UNION {Listed(n) : n \in job.spaces}
<1>1. WorkerOK' /\ troubles' \in 0..MaxTroubles
  <2>1. CASE Return /\ UNCHANGED queued /\ NoTrouble
    BY <2>1, ReturnType DEF TypeOK, WorkerOK, NoTrouble, PCs
  <2>2. CASE /\ pc' = "handle" /\ job' = [job EXCEPT !.spaces = {}, !.todo = files]
             /\ UNCHANGED queued /\ NoTrouble
    <3>1. files \subseteq Item BY ListedType, TypeParts
    <3>2. job' \in Job /\ job'.at = job.at BY <2>2, <3>1 DEF TypeOK, Job
    <3> QED BY <2>2, <3>2 DEF Download, TypeOK, WorkerOK, NoTrouble, PCs
  <2>3. CASE Fail BY <2>3, FailType DEF Download
  <2> QED BY <2>1, <2>2, <2>3 DEF Download
<1> QED BY <1>1, WorkerStepType DEF Download

LEMMA WatchType ==
  ASSUME TypeOK, Watch PROVE TypeOK'
<1> DEFINE i == <<job.at, job.read.sel.kind>>
           Begun(st) == [state |-> st, label |-> job.read.sel.label]
<1>1. job.read.sel.label \in Labels \cup {None}
  BY SourcesAssumption DEF TypeOK, Job, Generation, NoSelector, Selector
<1>2. WorkerOK'
  BY ReturnType DEF Watch, TypeOK, WorkerOK, PCs
<1>3. informer' \in [Keys -> [state: {"off", "starting", "on", "broken"},
                              label: Labels \cup {None}]]
  <2>1. Begun("starting") \in [state: {"off", "starting", "on", "broken"}, label: Labels \cup {None}]
    BY <1>1
  <2>2. Begun("broken") \in [state: {"off", "starting", "on", "broken"}, label: Labels \cup {None}]
    BY <1>1
  <2>3. informer' = informer \/ informer' = [informer EXCEPT ![i] = Begun("starting")]
          \/ informer' = [informer EXCEPT ![i] = Begun("broken")]
    BY DEF Watch
  <2> QED BY <2>1, <2>2, <2>3 DEF TypeOK
<1>4. troubles' \in 0..MaxTroubles BY TroubleType DEF Watch, TypeOK
<1> QED BY <1>2, <1>3, <1>4 DEF Watch, cluster, results, TypeOK, WorkerOK

LEMMA HandleNextType ==
  ASSUME TypeOK, NEW item \in job.todo, HandleNext(item) PROVE TypeOK'
<1>1. item.source \in Sources /\ item.version \in Version /\ job.at \in Templates
         /\ job.read \in Generation
  BY DEF HandleNext, TypeOK, Job, Item
<1>2. CASE Handled(job.at, job.read, item.source, item.version) /\ UNCHANGED queued /\ NoTrouble
           /\ \/ Return
              \/ job' = [job EXCEPT !.todo = @ \ {item}] /\ UNCHANGED pc
  <2>1. ResultsOK'
    BY <1>1, <1>2, HandledType, TypeParts DEF NoTrouble, ResultsOK
  <2>2. WorkerOK'
    <3>1. CASE Return BY <1>2, <3>1, ReturnType DEF TypeOK, WorkerOK, PCs
    <3>2. CASE job' = [job EXCEPT !.todo = @ \ {item}] /\ UNCHANGED pc
      <4>1. job' \in Job /\ job'.at = job.at BY <3>2 DEF TypeOK, Job
      <4> QED BY <1>2, <3>2, <4>1 DEF TypeOK, WorkerOK
    <3> QED BY <1>2, <3>1, <3>2
  <2> QED BY <2>1, <2>2 DEF HandleNext, cluster, watching, TypeOK, WorkerOK, ResultsOK
<1>3. CASE Fail /\ UNCHANGED results
  <2>1. WorkerOK' /\ troubles' \in 0..MaxTroubles BY <1>3, FailType DEF HandleNext
  <2> QED BY <1>3, <2>1, WorkerStepType DEF HandleNext
<1> QED BY <1>2, <1>3 DEF HandleNext

\* And those of the informers.
LEMMA StartType ==
  ASSUME TypeOK, NEW i \in Keys, Start(i) PROVE TypeOK'
<1>1. informer' \in [Keys -> [state: {"off", "starting", "on", "broken"},
                              label: Labels \cup {None}]]
  BY DEF Start, TypeOK
<1>2. \A s \in Sources :
        (IF Covers(i, s, src[s]) THEN <<src[s]>> ELSE <<>>) \in Seq(Version)
  BY DEF TypeOK
<1>3. pending' \in [Keys -> [Sources -> Seq(Version)]] BY <1>2 DEF Start, TypeOK
<1> QED BY <1>1, <1>3 DEF Start, cluster, worker, results, TypeOK

LEMMA ReceiveType ==
  ASSUME TypeOK, NEW i \in Keys, NEW s \in Sources, Receive(i, s) PROVE TypeOK'
<1> DEFINE v == Head(pending[i][s])
<1>1. i[1] \in Templates BY DEF Keys
<1>2. pending[i][s] \in Seq(Version) /\ pending[i][s] # <<>> BY DEF Receive, TypeOK
<1>3. v \in Version /\ Tail(pending[i][s]) \in Seq(Version) BY <1>2
<1>4. tmpl[i[1]] \in Generation BY <1>1 DEF TypeOK
<1>5. pending' \in [Keys -> [Sources -> Seq(Version)]]
  <2>1. pending' = [pending EXCEPT ![i][s] = Tail(@)] BY DEF Receive
  <2> QED BY <1>3, <2>1 DEF TypeOK
<1>6. hand' \in [Keys -> Event]
  <2>1. [source |-> s, version |-> v, read |-> tmpl[i[1]]] \in Event BY <1>3, <1>4 DEF Event
  <2>2. hand' = hand
          \/ hand' = [hand EXCEPT ![i] = [source |-> s, version |-> v, read |-> tmpl[i[1]]]]
    BY DEF Receive
  <2> QED BY <2>1, <2>2 DEF TypeOK
<1>7. /\ last' \in [Templates -> [Sources -> [gen: 0..MaxGen, rev: 0..MaxRev]]]
      /\ note' \in [Templates -> [Sources -> {"due", "done", "failed"}]]
  <2>1. UNCHANGED results \/ Failed(i[1], tmpl[i[1]], s, v) BY DEF Receive
  <2>2. CASE UNCHANGED results BY <2>2 DEF results, TypeOK
  <2>3. CASE Failed(i[1], tmpl[i[1]], s, v)
    BY <2>3, <1>1, <1>3, <1>4, HandledType, TypeParts
  <2> QED BY <2>1, <2>2, <2>3
<1>8. troubles' \in 0..MaxTroubles BY TroubleType DEF Receive, TypeOK
<1> QED BY <1>5, <1>6, <1>7, <1>8 DEF Receive, cluster, worker, TypeOK

LEMMA CallBackType ==
  ASSUME TypeOK, NEW i \in Keys, CallBack(i) PROVE TypeOK'
<1> DEFINE e == hand[i]
<1>1. i[1] \in Templates /\ e \in Event BY DEF Keys, TypeOK
<1>2. e.read \in Generation /\ e.version \in Version BY <1>1 DEF Event
<1>3. hand' \in [Keys -> Event] BY Nothing DEF CallBack, TypeOK
<1>4. /\ last' \in [Templates -> [Sources -> [gen: 0..MaxGen, rev: 0..MaxRev]]]
      /\ note' \in [Templates -> [Sources -> {"due", "done", "failed"}]]
  <2>1. e.source \in Sources \cup {None} BY <1>1 DEF Event
  <2> QED BY <1>1, <1>2, <2>1, HandledType, TypeParts DEF CallBack
<1>5. troubles' \in 0..MaxTroubles BY TroubleType DEF CallBack, TypeOK
<1> QED BY <1>3, <1>4, <1>5 DEF CallBack, cluster, worker, TypeOK

LEMMA RestartType == ASSUME TypeOK, Restart PROVE TypeOK'
<1>1. WorkerOK' BY ReturnType DEF Restart, TypeOK, WorkerOK, PCs
<1>2. informer' \in [Keys -> [state: {"off", "starting", "on", "broken"},
                              label: Labels \cup {None}]]
  BY DEF Restart, NoInformer
<1>3. pending' \in [Keys -> [Sources -> Seq(Version)]] BY DEF Restart
<1>4. hand' \in [Keys -> Event] BY Nothing DEF Restart
<1>5. troubles' \in 0..MaxTroubles BY TroubleType DEF Restart, TypeOK
<1> QED BY <1>1, <1>2, <1>3, <1>4, <1>5 DEF Restart, cluster, results, TypeOK, WorkerOK

LEMMA StepType == TypeOK /\ [Next]_vars => TypeOK'
<1> SUFFICES ASSUME TypeOK, [Next]_vars PROVE TypeOK' OBVIOUS
<1>1. ASSUME NEW t \in Templates, NEW sel \in Selectors \cup {NoSelector}, EditTemplate(t, sel)
      PROVE TypeOK'
  BY <1>1, EditTemplateType
<1>2. ASSUME NEW t \in Templates, Reconcile(t) PROVE TypeOK' BY <1>2, ReconcileType
<1>3. ASSUME NEW s \in Sources, NEW label \in Labels \cup {None}, EditSource(s, label)
      PROVE TypeOK'
  BY <1>3, EditSourceType
<1>4. ASSUME NEW n \in Spaces, List(n) PROVE TypeOK' BY <1>4, ListType
<1>5. CASE Download BY <1>5, DownloadType
<1>6. CASE Watch BY <1>6, WatchType
<1>7. ASSUME NEW item \in job.todo, HandleNext(item) PROVE TypeOK' BY <1>7, HandleNextType
<1>8. ASSUME NEW i \in Keys, Start(i) PROVE TypeOK' BY <1>8, StartType
<1>9. ASSUME NEW i \in Keys, NEW s \in Sources, Receive(i, s) PROVE TypeOK' BY <1>9, ReceiveType
<1>10. ASSUME NEW i \in Keys, CallBack(i) PROVE TypeOK' BY <1>10, CallBackType
<1>11. CASE Resync BY <1>11 DEF Resync, cluster, worker, watching, results, TypeOK
<1>12. CASE Restart BY <1>12, RestartType
<1>13. CASE UNCHANGED vars BY <1>13 DEF vars, TypeOK
<1> QED BY <1>1, <1>2, <1>3, <1>4, <1>5, <1>6, <1>7, <1>8, <1>9, <1>10, <1>11, <1>12, <1>13
        DEF Next

\* The variables keep their types, however many templates, kinds and sources
\* there are.
THEOREM TypeCorrect == Spec => []TypeOK
<1>1. Init => TypeOK BY InitType
<1>2. TypeOK /\ [Next]_vars => TypeOK' BY StepType
<1> QED BY <1>1, <1>2, PTL DEF Spec

-----------------------------------------------------------------------------
(* What the worker and the informers are about.                            *)

\* Every step leaves the informers alone but for these.
InformersStay == UNCHANGED <<informer, pending>>

LEMMA WorkerPhases ==
  ASSUME TypeOK, PhaseInv,
         \/ \E t \in Templates : Reconcile(t)
         \/ \E n \in Spaces : List(n)
         \/ Download
         \/ \E item \in job.todo : HandleNext(item)
  PROVE  pc' = "handle" => job'.spaces = {}
<1>1. ASSUME Return PROVE pc' # "handle" BY <1>1 DEF Return
<1>2. ASSUME NEW t \in Templates, Reconcile(t) PROVE pc' # "handle"
  BY <1>2 DEF Reconcile, worker
<1>3. ASSUME NEW n \in Spaces, List(n) PROVE pc' # "handle"
  BY <1>1, <1>3 DEF List, Fail
<1>4. ASSUME Download PROVE pc' = "handle" => job'.spaces = {}
  <2>1. job \in Job BY DEF TypeOK
  <2> QED BY <1>1, <1>4, <2>1 DEF Download, Fail, Job
<1>5. ASSUME NEW item \in job.todo, HandleNext(item) PROVE pc' = "handle" => job'.spaces = {}
  <2>1. job \in Job /\ pc = "handle" /\ job.spaces = {} BY <1>5 DEF TypeOK, PhaseInv, HandleNext
  <2>2. Return \/ job' = [job EXCEPT !.todo = @ \ {item}] BY <1>5 DEF HandleNext, Fail
  <2> QED BY <1>1, <2>1, <2>2 DEF Job
<1> QED BY <1>2, <1>3, <1>4, <1>5

\* What Watch does to the informer of its key, and to no other.
LEMMA WatchEffect ==
  ASSUME TypeOK, Watch
  PROVE  /\ pc' = "handle" => job' = job /\ job.spaces = {}
         /\ job' = job \/ Return
         /\ informer' = informer \/
              /\ informer[<<job.at, job.read.sel.kind>>].state = "off"
              /\ job.at \in Templates /\ job.read.sel.kind # Git
              /\ <<job.at, job.read.sel.kind>> \in Keys =>
                   /\ informer'[<<job.at, job.read.sel.kind>>].state \in {"starting", "broken"}
                   /\ informer'[<<job.at, job.read.sel.kind>>].label = job.read.sel.label
              /\ \A i \in Keys : i # <<job.at, job.read.sel.kind>> => informer'[i] = informer[i]
<1>1. job.at \in Templates BY DEF Watch, TypeOK, Job
<1>2. (pc' = "handle" => job' = job /\ job.spaces = {}) /\ (job' = job \/ Return)
  BY DEF Watch, Return
<1> DEFINE k == <<job.at, job.read.sel.kind>>
           Begun(st) == [state |-> st, label |-> job.read.sel.label]
<1>3. informer' = informer \/
        /\ informer[k].state = "off" /\ job.read.sel.kind # Git
        /\ \E st \in {"starting", "broken"} : informer' = [informer EXCEPT ![k] = Begun(st)]
  BY DEF Watch
<1>4. ASSUME NEW st \in {"starting", "broken"}, informer' = [informer EXCEPT ![k] = Begun(st)]
      PROVE  /\ k \in Keys => informer'[k].state \in {"starting", "broken"}
                                 /\ informer'[k].label = job.read.sel.label
             /\ \A i \in Keys : i # k => informer'[i] = informer[i]
  BY <1>4 DEF TypeOK
<1> QED BY <1>1, <1>2, <1>3, <1>4

\* PhaseInv is kept.
LEMMA StepPhase == TypeOK /\ PhaseInv /\ [Next]_vars => PhaseInv'
<1> SUFFICES ASSUME TypeOK, PhaseInv, [Next]_vars PROVE PhaseInv' OBVIOUS
<1> DEFINE Worker == pc' = "handle" => job'.spaces = {}
           Files  == \A t \in Templates : informer'[<<t, Git>>].state = "off"
<1>0. ASSUME Worker, Files PROVE PhaseInv' BY <1>0 DEF PhaseInv
<1>a. ASSUME UNCHANGED informer PROVE Files BY <1>a DEF PhaseInv
<1>b. ASSUME UNCHANGED worker PROVE Worker BY <1>b DEF PhaseInv, worker
<1>1. ASSUME NEW t \in Templates, NEW sel \in Selectors \cup {NoSelector}, EditTemplate(t, sel)
      PROVE PhaseInv'
  BY <1>1, <1>0, <1>a, <1>b DEF EditTemplate, watching
<1>2. CASE \/ \E t \in Templates : Reconcile(t)
           \/ \E n \in Spaces : List(n)
           \/ Download
           \/ \E item \in job.todo : HandleNext(item)
  <2>1. Worker BY <1>2, WorkerPhases
  <2>2. UNCHANGED informer BY <1>2 DEF Reconcile, List, Download, HandleNext, watching
  <2> QED BY <2>1, <2>2, <1>0, <1>a
<1>3. ASSUME NEW s \in Sources, NEW label \in Labels \cup {None}, EditSource(s, label)
      PROVE PhaseInv'
  BY <1>3, <1>0, <1>a, <1>b DEF EditSource
<1>4. CASE Watch
  <2>1. Worker BY <1>4, WatchEffect
  <2>2. ASSUME NEW t \in Templates PROVE informer'[<<t, Git>>].state = "off"
    <3>1. <<t, Git>> \in Keys BY SourcesAssumption DEF Keys
    <3>2. informer' = informer \/ informer'[<<t, Git>>] = informer[<<t, Git>>]
      BY <1>4, <3>1, WatchEffect
    <3> QED BY <3>2 DEF PhaseInv
  <2> QED BY <2>1, <2>2, <1>0
<1>5. ASSUME NEW i \in Keys, Start(i) PROVE PhaseInv'
  <2>1. ASSUME NEW t \in Templates PROVE informer'[<<t, Git>>].state = "off"
    <3>1. informer[<<t, Git>>].state = "off" /\ informer[i].state = "starting"
      BY <1>5 DEF PhaseInv, Start
    <3>2. i # <<t, Git>> BY <3>1
    <3>3. informer'[<<t, Git>>] = informer[<<t, Git>>]
      BY <1>5, <3>2, SourcesAssumption DEF Start, TypeOK, Keys
    <3> QED BY <3>1, <3>3
  <2> QED BY <1>5, <2>1, <1>0, <1>b DEF Start
<1>6. ASSUME NEW i \in Keys, NEW s \in Sources, Receive(i, s) PROVE PhaseInv'
  BY <1>6, <1>0, <1>a, <1>b DEF Receive
<1>7. ASSUME NEW i \in Keys, CallBack(i) PROVE PhaseInv'
  BY <1>7, <1>0, <1>a, <1>b DEF CallBack
<1>8. CASE Resync BY <1>8, <1>0, <1>a, <1>b DEF Resync, watching
<1>9. CASE Restart
  <2>1. \A t \in Templates : <<t, Git>> \in Keys BY SourcesAssumption DEF Keys
  <2> QED BY <1>9, <2>1, <1>0 DEF Restart, Return, NoInformer
<1>10. CASE UNCHANGED vars BY <1>10, <1>0, <1>a, <1>b DEF vars, worker
<1> QED BY <1>1, <1>2, <1>3, <1>4, <1>5, <1>6, <1>7, <1>8, <1>9, <1>10 DEF Next

\* PendingInv is kept.
LEMMA StepPending == TypeOK /\ PendingInv /\ [Next]_vars => PendingInv'
<1> SUFFICES ASSUME TypeOK, PendingInv, [Next]_vars PROVE PendingInv' OBVIOUS
<1> DEFINE Fine(q, s, inf, i) == \A n \in DOMAIN q :
             inf.state # "off" /\ KindOf[s] = i[2] /\ q[n].label = inf.label
<1>0. ASSUME \A i \in Keys, s \in Sources : Fine(pending'[i][s], s, informer'[i], i)
      PROVE PendingInv'
  BY <1>0 DEF PendingInv
<1>1. \A i \in Keys, s \in Sources : Fine(pending[i][s], s, informer[i], i) BY DEF PendingInv
<1>2. ASSUME InformersStay PROVE PendingInv' BY <1>2 DEF InformersStay, PendingInv
<1> HIDE DEF Fine
<1>3. ASSUME NEW s \in Sources, NEW label \in Labels \cup {None}, EditSource(s, label)
      PROVE PendingInv'
  <2> DEFINE v == [rev |-> src[s].rev + 1, label |-> label]
  <2>1. ASSUME NEW i \in Keys, NEW r \in Sources
        PROVE  Fine(pending'[i][r], r, informer'[i], i)
    <3>1. informer' = informer /\ Notify(s, src[s], v) BY <1>3 DEF EditSource
    <3>2. CASE r # s \/ informer[i].state # "on" \/ ~Covers(i, s, v)
      <4>1. pending'[i][r] = pending[i][r] BY <2>1, <3>1, <3>2 DEF Notify, TypeOK
      <4> QED BY <1>1, <3>1, <4>1
    <3>3. CASE r = s /\ informer[i].state = "on" /\ Covers(i, s, v)
      <4>1. pending'[i][r] = Append(pending[i][r], v) BY <3>1, <3>3 DEF Notify, TypeOK
      <4>2. KindOf[r] = i[2] /\ v.label = informer[i].label BY <3>3 DEF Covers
      <4>3. pending[i][r] \in Seq(Version) BY DEF TypeOK
      <4>4. ASSUME NEW n \in DOMAIN pending'[i][r] PROVE pending'[i][r][n].label = informer[i].label
        <5>1. CASE n \in DOMAIN pending[i][r]
          BY <1>1, <5>1, <4>1, <4>3 DEF Fine
        <5>2. CASE n = Len(pending[i][r]) + 1 BY <5>2, <4>1, <4>2, <4>3
        <5> QED BY <5>1, <5>2, <4>1, <4>3
      <4> QED BY <3>1, <3>3, <4>2, <4>4 DEF Fine
    <3> QED BY <3>2, <3>3
  <2> QED BY <2>1, <1>0
<1>4. CASE Watch
  <2>1. ASSUME NEW i \in Keys, NEW s \in Sources
        PROVE  Fine(pending'[i][s], s, informer'[i], i)
    <3>1. pending' = pending BY <1>4 DEF Watch
    <3>2. informer'[i] = informer[i] \/ informer[i].state = "off" BY <1>4, WatchEffect
    <3>3. CASE informer[i].state = "off"
      <4>1. DOMAIN pending[i][s] = {} BY <1>1, <3>3 DEF Fine
      <4> QED BY <3>1, <4>1 DEF Fine
    <3>4. CASE informer'[i] = informer[i] BY <1>1, <3>1, <3>4
    <3> QED BY <3>2, <3>3, <3>4
  <2> QED BY <2>1, <1>0
<1>5. ASSUME NEW i \in Keys, Start(i) PROVE PendingInv'
  <2>1. ASSUME NEW k \in Keys, NEW s \in Sources
        PROVE  Fine(pending'[k][s], s, informer'[k], k)
    <3>1. CASE k # i
      <4>1. pending'[k] = pending[k] /\ informer'[k] = informer[k] BY <1>5, <3>1 DEF Start, TypeOK
      <4> QED BY <1>1, <4>1
    <3>2. CASE k = i
      <4>1. pending'[k][s] = IF Covers(k, s, src[s]) THEN <<src[s]>> ELSE <<>>
        BY <1>5, <3>2 DEF Start, TypeOK
      <4>2. informer'[k].state = "on" /\ informer'[k].label = informer[k].label
        BY <1>5, <3>2 DEF Start, TypeOK
      <4> QED BY <4>1, <4>2 DEF Fine, Covers
    <3> QED BY <3>1, <3>2
  <2> QED BY <2>1, <1>0
<1>6. ASSUME NEW i \in Keys, NEW s \in Sources, Receive(i, s) PROVE PendingInv'
  <2>1. ASSUME NEW k \in Keys, NEW r \in Sources
        PROVE  Fine(pending'[k][r], r, informer'[k], k)
    <3>1. pending' = [pending EXCEPT ![i][s] = Tail(@)] /\ informer' = informer
      BY <1>6 DEF Receive
    <3>2. CASE k # i \/ r # s
      <4>1. pending'[k][r] = pending[k][r] BY <3>1, <3>2 DEF TypeOK
      <4> QED BY <1>1, <3>1, <4>1
    <3>3. CASE k = i /\ r = s
      <4>1. pending[k][r] \in Seq(Version) /\ pending[k][r] # <<>>
        BY <1>6, <3>3 DEF Receive, TypeOK
      <4>2. pending'[k][r] = Tail(pending[k][r]) BY <3>1, <3>3 DEF TypeOK
      <4>3. \A n \in DOMAIN pending'[k][r] :
              n + 1 \in DOMAIN pending[k][r] /\ pending'[k][r][n] = pending[k][r][n + 1]
        BY <4>1, <4>2
      <4> QED BY <1>1, <3>1, <4>3 DEF Fine
    <3> QED BY <3>2, <3>3
  <2> QED BY <2>1, <1>0
<1>7. CASE Restart BY <1>7 DEF Restart, PendingInv
<1>8. ASSUME NEW t \in Templates, NEW sel \in Selectors \cup {NoSelector}, EditTemplate(t, sel)
      PROVE PendingInv'
  BY <1>8, <1>2 DEF EditTemplate, watching, InformersStay
<1>9. ASSUME NEW t \in Templates, Reconcile(t) PROVE PendingInv'
  BY <1>9, <1>2 DEF Reconcile, watching, InformersStay
<1>10. ASSUME NEW n \in Spaces, List(n) PROVE PendingInv'
  BY <1>10, <1>2 DEF List, watching, InformersStay
<1>11. CASE Download BY <1>11, <1>2 DEF Download, watching, InformersStay
<1>12. ASSUME NEW item \in job.todo, HandleNext(item) PROVE PendingInv'
  BY <1>12, <1>2 DEF HandleNext, watching, InformersStay
<1>13. ASSUME NEW i \in Keys, CallBack(i) PROVE PendingInv' BY <1>13, <1>2 DEF CallBack, InformersStay
<1>14. CASE Resync BY <1>14, <1>2 DEF Resync, watching, InformersStay
<1>15. CASE UNCHANGED vars BY <1>15, <1>2 DEF vars, InformersStay
<1> QED BY <1>3, <1>4, <1>5, <1>6, <1>7, <1>8, <1>9, <1>10, <1>11, <1>12, <1>13, <1>14, <1>15 DEF Next

\* What the worker read stays until it is done.
LEMMA JobKept ==
  ASSUME TypeOK,
         \/ \E n \in Spaces : List(n)
         \/ Download
         \/ Watch
         \/ \E item \in job.todo : HandleNext(item)
  PROVE  job'.at = None \/ (job'.at = job.at /\ job'.read = job.read)
<1>0. job \in Job BY DEF TypeOK
<1>1. ASSUME Return PROVE job'.at = None BY <1>1, ReturnType
<1>2. ASSUME Fail PROVE job'.at = None BY <1>1, <1>2 DEF Fail
<1>3. ASSUME NEW n \in Spaces, List(n)
      PROVE  job'.at = None \/ (job'.at = job.at /\ job'.read = job.read)
  BY <1>0, <1>2, <1>3 DEF List, Job
<1>4. CASE Download
  BY <1>0, <1>1, <1>2, <1>4 DEF Download, Job
<1>5. CASE Watch BY <1>1, <1>5, WatchEffect
<1>6. ASSUME NEW item \in job.todo, HandleNext(item)
      PROVE  job'.at = None \/ (job'.at = job.at /\ job'.read = job.read)
  BY <1>0, <1>1, <1>2, <1>6 DEF HandleNext, Job
<1> QED BY <1>3, <1>4, <1>5, <1>6

\* FirstInv is kept.
LEMMA StepFirst == TypeOK /\ FirstInv /\ [Next]_vars => FirstInv'
<1> SUFFICES ASSUME TypeOK, FirstInv, [Next]_vars PROVE FirstInv' OBVIOUS
<1> DEFINE Own(inf, t, k) == inf.state # "off" => k = tmpl[t].sel.kind /\ inf.label = tmpl[t].sel.label
           JobFirst == \A t \in Templates : tmpl[t].gen = 1 /\ job'.at = t => job'.read = tmpl[t]
           InformersFirst == \A t \in Templates, k \in Kinds :
             tmpl[t].gen = 1 => Own(informer'[<<t, k>>], t, k)
<1>0. ASSUME UNCHANGED tmpl, JobFirst, InformersFirst PROVE FirstInv' BY <1>0 DEF FirstInv
<1>a. ASSUME UNCHANGED informer PROVE InformersFirst BY <1>a DEF FirstInv
<1>b. ASSUME job'.at = None \/ (job'.at = job.at /\ job'.read = job.read) PROVE JobFirst
  BY <1>b, NoneAssumption DEF FirstInv
<1>c. \A t \in Templates, k \in Kinds : <<t, k>> \in Keys BY DEF Keys
<1>1. ASSUME NEW t \in Templates, NEW sel \in Selectors \cup {NoSelector}, EditTemplate(t, sel)
      PROVE FirstInv'
  <2>1. job' = job /\ informer' = informer BY <1>1 DEF EditTemplate, worker, watching
  <2>2. ASSUME NEW r \in Templates, tmpl'[r].gen = 1 PROVE tmpl'[r] = tmpl[r]
    <3>1. tmpl' = [tmpl EXCEPT ![t] = [gen |-> @.gen + 1, sel |-> sel]] BY <1>1 DEF EditTemplate
    <3>2. tmpl[t].gen \in Nat /\ tmpl[t].gen > 0 BY DEF TypeOK, Generation
    <3>3. r # t BY <2>2, <3>1, <3>2 DEF TypeOK
    <3> QED BY <3>1, <3>3 DEF TypeOK
  <2> QED BY <2>1, <2>2 DEF FirstInv
<1>2. ASSUME NEW t \in Templates, Reconcile(t) PROVE FirstInv'
  <2>1. UNCHANGED <<tmpl, informer>> BY <1>2 DEF Reconcile, cluster, watching
  <2>2. job' = job \/ (job'.at = t /\ job'.read = tmpl[t]) BY <1>2 DEF Reconcile, worker
  <2>3. JobFirst BY <1>b, <2>2
  <2> QED BY <2>1, <2>3, <1>0, <1>a
<1>3. ASSUME NEW s \in Sources, NEW label \in Labels \cup {None}, EditSource(s, label)
      PROVE FirstInv'
  BY <1>3, <1>0, <1>a, <1>b DEF EditSource, worker
<1>4. CASE \/ \E n \in Spaces : List(n)
           \/ Download
           \/ \E item \in job.todo : HandleNext(item)
  <2>1. JobFirst BY <1>4, <1>b, JobKept
  <2>2. UNCHANGED <<tmpl, informer>> BY <1>4 DEF List, Download, HandleNext, cluster, watching
  <2> QED BY <2>1, <2>2, <1>0, <1>a
<1>5. CASE Watch
  <2>1. JobFirst BY <1>5, <1>b, JobKept
  <2>2. UNCHANGED tmpl BY <1>5 DEF Watch, cluster
  <2>3. ASSUME NEW t \in Templates, NEW k \in Kinds, tmpl[t].gen = 1 PROVE Own(informer'[<<t, k>>], t, k)
    <3>1. CASE informer'[<<t, k>>] = informer[<<t, k>>] BY <2>3, <3>1 DEF FirstInv
    <3>2. CASE informer'[<<t, k>>] # informer[<<t, k>>]
      <4>1. <<t, k>> = <<job.at, job.read.sel.kind>> BY <1>5, <1>c, <3>2, WatchEffect
      <4>2. informer'[<<t, k>>].label = job.read.sel.label BY <1>5, <1>c, <3>2, <4>1, WatchEffect
      <4>3. job.read = tmpl[t] BY <2>3, <4>1 DEF FirstInv
      <4> QED BY <4>1, <4>2, <4>3
    <3> QED BY <3>1, <3>2
  <2> QED BY <2>1, <2>2, <2>3, <1>0
<1>6. ASSUME NEW i \in Keys, Start(i) PROVE FirstInv'
  <2>1. UNCHANGED <<tmpl, job>> BY <1>6 DEF Start, cluster, worker
  <2>2. ASSUME NEW t \in Templates, NEW k \in Kinds, tmpl[t].gen = 1 PROVE Own(informer'[<<t, k>>], t, k)
    <3>1. informer[i].state = "starting" /\ informer' = [informer EXCEPT ![i].state = "on"]
      BY <1>6 DEF Start
    <3>2. /\ informer'[<<t, k>>].label = informer[<<t, k>>].label
          /\ informer'[<<t, k>>].state # "off" => informer[<<t, k>>].state # "off"
      BY <1>c, <3>1 DEF TypeOK
    <3> QED BY <2>2, <3>2 DEF FirstInv
  <2> QED BY <2>1, <2>2, <1>0, <1>b
<1>7. ASSUME NEW i \in Keys, NEW s \in Sources, Receive(i, s) PROVE FirstInv'
  BY <1>7, <1>0, <1>a, <1>b DEF Receive, cluster, worker
<1>8. ASSUME NEW i \in Keys, CallBack(i) PROVE FirstInv'
  BY <1>8, <1>0, <1>a, <1>b DEF CallBack, cluster, worker
<1>9. CASE Resync BY <1>9, <1>0, <1>a, <1>b DEF Resync, cluster, worker, watching
<1>10. CASE Restart
  <2>1. JobFirst BY <1>10, <1>b, ReturnType DEF Restart
  <2>2. InformersFirst BY <1>10, <1>c, Nothing DEF Restart
  <2> QED BY <2>1, <2>2, <1>10, <1>0 DEF Restart, cluster
<1>11. CASE UNCHANGED vars BY <1>11, <1>0, <1>a, <1>b DEF vars
<1> QED BY <1>1, <1>2, <1>3, <1>4, <1>5, <1>6, <1>7, <1>8, <1>9, <1>10, <1>11 DEF Next

-----------------------------------------------------------------------------
(* The two properties.                                                     *)

\* What a callback takes up is what the property allows.
LEMMA StepStray ==
  TypeOK /\ PendingInv /\ FirstInv /\ StrayNeedsEdit /\ [Next]_vars => StrayNeedsEdit'
<1> SUFFICES ASSUME TypeOK, PendingInv, FirstInv, StrayNeedsEdit, [Next]_vars
             PROVE  StrayNeedsEdit'
  OBVIOUS
<1>1. \A i \in Keys : i[1] \in Templates /\ i[2] \in Kinds /\ i = <<i[1], i[2]>> BY DEF Keys
<1>2. ASSUME UNCHANGED <<hand, tmpl>> PROVE StrayNeedsEdit' BY <1>2 DEF StrayNeedsEdit
<1>3. ASSUME NEW t \in Templates, NEW sel \in Selectors \cup {NoSelector}, EditTemplate(t, sel)
      PROVE StrayNeedsEdit'
  <2>1. hand' = hand BY <1>3 DEF EditTemplate, watching
  <2>2. ASSUME NEW r \in Templates, tmpl'[r].gen = 1 PROVE tmpl[r].gen = 1
    <3>1. tmpl' = [tmpl EXCEPT ![t] = [gen |-> @.gen + 1, sel |-> sel]] BY <1>3 DEF EditTemplate
    <3>2. tmpl[t].gen \in Nat /\ tmpl[t].gen > 0 BY DEF TypeOK, Generation
    <3>3. r # t BY <2>2, <3>1, <3>2 DEF TypeOK
    <3> QED BY <2>2, <3>1, <3>3 DEF TypeOK
  <2> QED BY <1>1, <2>1, <2>2 DEF StrayNeedsEdit
<1>4. ASSUME NEW i \in Keys, NEW s \in Sources, Receive(i, s) PROVE StrayNeedsEdit'
  <2> DEFINE v == Head(pending[i][s])
             e == [source |-> s, version |-> v, read |-> tmpl[i[1]]]
  <2>1. tmpl' = tmpl BY <1>4 DEF Receive, cluster
  <2>2. CASE hand' = hand BY <2>1, <2>2, <1>2
  <2>3. CASE SpaceOf[s] \in tmpl[i[1]].sel.spaces /\ hand' = [hand EXCEPT ![i] = e]
    <3>1. ASSUME tmpl[i[1]].gen = 1 PROVE Selected(tmpl[i[1]].sel, s, v)
      <4>1. pending[i][s] \in Seq(Version) /\ pending[i][s] # <<>> BY <1>4 DEF Receive, TypeOK
      <4>2. 1 \in DOMAIN pending[i][s] /\ v = pending[i][s][1] BY <4>1
      <4>3. informer[i].state # "off" /\ KindOf[s] = i[2] /\ v.label = informer[i].label
        BY <4>2 DEF PendingInv
      <4>4. i[2] = tmpl[i[1]].sel.kind /\ informer[i].label = tmpl[i[1]].sel.label
        BY <1>1, <3>1, <4>3 DEF FirstInv
      <4> QED BY <2>3, <4>3, <4>4 DEF Selected, Matches
    <3>2. hand'[i] = e /\ \A k \in Keys : k # i => hand'[k] = hand[k]
      BY <2>3 DEF TypeOK
    <3> QED BY <2>1, <2>3, <3>1, <3>2 DEF StrayNeedsEdit
  <2> QED BY <1>4, <2>2, <2>3 DEF Receive
<1>5. ASSUME NEW i \in Keys, CallBack(i) PROVE StrayNeedsEdit'
  BY <1>5 DEF CallBack, cluster, StrayNeedsEdit, TypeOK
<1>6. CASE Restart BY <1>6 DEF Restart, StrayNeedsEdit
<1>7. ASSUME NEW t \in Templates, Reconcile(t) PROVE StrayNeedsEdit'
  BY <1>7, <1>2 DEF Reconcile, cluster, watching
<1>8. ASSUME NEW s \in Sources, NEW label \in Labels \cup {None}, EditSource(s, label)
      PROVE StrayNeedsEdit'
  BY <1>8, <1>2 DEF EditSource
<1>9. ASSUME NEW n \in Spaces, List(n) PROVE StrayNeedsEdit'
  BY <1>9, <1>2 DEF List, cluster, watching
<1>10. CASE Download BY <1>10, <1>2 DEF Download, cluster, watching
<1>11. CASE Watch BY <1>11, <1>2 DEF Watch, cluster
<1>12. ASSUME NEW item \in job.todo, HandleNext(item) PROVE StrayNeedsEdit'
  BY <1>12, <1>2 DEF HandleNext, cluster, watching
<1>13. ASSUME NEW i \in Keys, Start(i) PROVE StrayNeedsEdit' BY <1>13, <1>2 DEF Start, cluster
<1>14. CASE Resync BY <1>14, <1>2 DEF Resync, cluster, watching
<1>15. CASE UNCHANGED vars BY <1>15, <1>2 DEF vars
<1> QED BY <1>3, <1>4, <1>5, <1>6, <1>7, <1>8, <1>9, <1>10, <1>11, <1>12, <1>13, <1>14, <1>15 DEF Next

\* InformerMissesNothing for one template and one source, in two parts.
Due(t, s) ==
  LET i == <<t, KindOf[s]>>
  IN Wanted(t, s) /\ informer[i].state = "on" /\ Covers(i, s, src[s]) /\ note[t][s] = "due"

LEMMA MissesParts ==
  InformerMissesNothing <=> \A t \in Templates, s \in Sources : Due(t, s) => OnItsWay(t, s)
BY DEF InformerMissesNothing, Due

\* The ways a source may be on.
InQueue(t) == t \in queued
WithWorker(t, s) ==
  /\ job.at = t /\ job.read = tmpl[t]
  /\ SpaceOf[s] \in job.spaces \/ [source |-> s, version |-> src[s]] \in job.todo
WithInformer(i, s) == Len(pending[i][s]) > 0 /\ pending[i][s][Len(pending[i][s])] = src[s]
WithCallback(i, t, s) == hand[i] = [source |-> s, version |-> src[s], read |-> tmpl[t]]

LEMMA Ways ==
  ASSUME NEW t, NEW s
  PROVE  OnItsWay(t, s) <=> \/ InQueue(t) \/ WithWorker(t, s)
                            \/ WithInformer(<<t, KindOf[s]>>, s)
                            \/ WithCallback(<<t, KindOf[s]>>, t, s)
BY DEF OnItsWay, InQueue, WithWorker, WithInformer, WithCallback

\* The key of the informer that is to hand s over for t.
LEMMA KeyOf == \A t \in Templates, s \in Sources : <<t, KindOf[s]>> \in Keys
BY SourcesAssumption DEF Keys

\* An up-to-date result is noted.
LEMMA Noted ==
  ASSUME ResultsOK, NEW t \in Templates, NEW s \in Sources,
         Handled(t, tmpl[t], s, src[s]) \/ Failed(t, tmpl[t], s, src[s])
  PROVE  note'[t][s] # "due"
BY DEF Handled, Failed, UpToDate, ResultsOK

\* A result makes nothing due.
LEMMA NotedOnly ==
  ASSUME ResultsOK, NEW t \in Templates, NEW s \in Sources, NEW r, NEW read, NEW q, NEW v,
         Handled(r, read, q, v) \/ Failed(r, read, q, v), note'[t][s] = "due"
  PROVE  note[t][s] = "due"
<1>1. note' = note \/ \E x \in {"done", "failed"} : note' = [note EXCEPT ![r][q] = x]
  BY DEF Handled, Failed
<1>2. CASE note' = note BY <1>2
<1>3. ASSUME NEW x \in {"done", "failed"}, note' = [note EXCEPT ![r][q] = x]
      PROVE  note[t][s] = "due"
  BY <1>3 DEF ResultsOK
<1> QED BY <1>1, <1>2, <1>3

\* While nobody edits, a source becomes due for nothing but an informer that
\* starts.
LEMMA DueStays ==
  ASSUME NEW t \in Templates, NEW s \in Sources, UNCHANGED cluster,
         note'[t][s] = "due" => note[t][s] = "due",
         informer'[<<t, KindOf[s]>>] = informer[<<t, KindOf[s]>>], Due(t, s)'
  PROVE  Due(t, s)
BY DEF Due, Wanted, Covers, cluster

LEMMA EditTemplateMisses ==
  ASSUME TypeOK, InformerMissesNothing,
         NEW r \in Templates, NEW sel \in Selectors \cup {NoSelector}, EditTemplate(r, sel)
  PROVE  InformerMissesNothing'
<1> SUFFICES ASSUME NEW t \in Templates, NEW s \in Sources, Due(t, s)'
             PROVE  OnItsWay(t, s)'
  BY DEF InformerMissesNothing, Due
<1>1. CASE t = r BY <1>1 DEF EditTemplate, OnItsWay
<1>2. CASE t # r
  <2>1. tmpl'[t] = tmpl[t] /\ note'[t] = note[t] BY <1>2 DEF EditTemplate, TypeOK
  <2>2. UNCHANGED <<src, worker, watching>> /\ queued \subseteq queued' BY DEF EditTemplate
  <2>3. Due(t, s) BY <2>1, <2>2 DEF Due, Wanted, Covers, watching
  <2>4. OnItsWay(t, s) BY <2>3, MissesParts
  <2> QED BY <2>1, <2>2, <2>4 DEF OnItsWay, worker, watching
<1> QED BY <1>1, <1>2

LEMMA EditSourceMisses ==
  ASSUME TypeOK, InformerMissesNothing,
         NEW r \in Sources, NEW label \in Labels \cup {None}, EditSource(r, label)
  PROVE  InformerMissesNothing'
<1> SUFFICES ASSUME NEW t \in Templates, NEW s \in Sources, Due(t, s)'
             PROVE  OnItsWay(t, s)'
  BY DEF InformerMissesNothing, Due
<1> DEFINE i == <<t, KindOf[s]>>
           v == [rev |-> src[r].rev + 1, label |-> label]
<1>1. /\ i \in Keys /\ src' = [src EXCEPT ![r] = v] /\ Notify(r, src[r], v)
      /\ UNCHANGED <<tmpl, queued, worker, informer, hand>>
  BY KeyOf DEF EditSource
<1>2. CASE s = r
  <2>1. src'[s] = v BY <1>1, <1>2 DEF TypeOK
  <2>2. informer[i].state = "on" /\ Covers(i, s, v) BY <1>1, <2>1 DEF Due, Covers
  <2>3. pending'[i][s] = Append(pending[i][s], v)
    BY <1>1, <1>2, <2>2 DEF Notify, TypeOK
  <2>4. pending[i][s] \in Seq(Version) BY <1>1 DEF TypeOK
  <2>5. Len(pending'[i][s]) > 0 /\ pending'[i][s][Len(pending'[i][s])] = v
    BY <2>3, <2>4
  <2>6. WithInformer(i, s)' BY <2>1, <2>5 DEF WithInformer
  <2> QED BY <2>6 DEF WithInformer, OnItsWay
<1>3. CASE s # r
  <2>1. src'[s] = src[s] /\ pending'[i][s] = pending[i][s]
    BY <1>1, <1>3 DEF Notify, TypeOK
  <2>2. note'[t][s] = note[t][s] BY <1>3 DEF EditSource, TypeOK
  <2>3. Due(t, s) BY <1>1, <2>1, <2>2 DEF Due, Wanted, Covers
  <2>4. OnItsWay(t, s) BY <2>3, MissesParts
  <2> QED BY <1>1, <2>1, <2>4 DEF OnItsWay, worker
<1> QED BY <1>2, <1>3

LEMMA ReconcileMisses ==
  ASSUME TypeOK, InformerMissesNothing, NEW r \in Templates, Reconcile(r)
  PROVE  InformerMissesNothing'
<1> SUFFICES ASSUME NEW t \in Templates, NEW s \in Sources, Due(t, s)'
             PROVE  OnItsWay(t, s)'
  BY DEF InformerMissesNothing, Due
<1>1. UNCHANGED <<cluster, watching, results>> BY DEF Reconcile
<1>2. Due(t, s) BY <1>1, DueStays DEF watching, results
<1>3. Wanted(t, s) BY <1>2 DEF Due
<1>4. CASE t = r
  <2>1. KindOf[s] = tmpl[t].sel.kind /\ SpaceOf[s] \in tmpl[t].sel.spaces
    BY <1>3 DEF Wanted, Selected, Matches
  <2>2. Present(t) BY <2>1, Nothing DEF Present
  <2>3. job'.at = t /\ job'.read = tmpl[t] /\ job'.spaces = tmpl[t].sel.spaces
    BY <1>4, <2>2 DEF Reconcile
  <2> QED BY <1>1, <2>1, <2>3 DEF OnItsWay, cluster
<1>5. CASE t # r
  <2>1. OnItsWay(t, s) BY <1>2, MissesParts
  <2>2. job.at # t BY NoneAssumption DEF Reconcile, TypeOK
  <2>3. t \in queued => t \in queued' BY <1>5 DEF Reconcile
  <2> QED BY <1>1, <2>1, <2>2, <2>3 DEF OnItsWay, cluster, watching
<1> QED BY <1>4, <1>5

\* The other steps of the worker only take sources away that are handled, or
\* give all of them back.
LEMMA WorkerMisses ==
  ASSUME TypeOK, InformerMissesNothing, UNCHANGED <<cluster, pending, hand>>,
         \A t \in Templates, s \in Sources :
           /\ Due(t, s)' => Due(t, s)
           /\ Due(t, s)' /\ WithWorker(t, s) => InQueue(t)' \/ WithWorker(t, s)',
         queued \subseteq queued'
  PROVE  InformerMissesNothing'
<1> SUFFICES ASSUME NEW t \in Templates, NEW s \in Sources, Due(t, s)'
             PROVE  OnItsWay(t, s)'
  BY DEF InformerMissesNothing, Due
<1> DEFINE i == <<t, KindOf[s]>>
<1>1. OnItsWay(t, s) BY MissesParts
<1>2. InQueue(t) \/ WithWorker(t, s) \/ WithInformer(i, s) \/ WithCallback(i, t, s)
  BY <1>1, Ways
<1>3. ASSUME InQueue(t) \/ WithWorker(t, s) PROVE InQueue(t)' \/ WithWorker(t, s)'
  BY <1>3 DEF InQueue
<1>4. ASSUME WithInformer(i, s) \/ WithCallback(i, t, s)
      PROVE  WithInformer(i, s)' \/ WithCallback(i, t, s)'
  BY <1>4 DEF WithInformer, WithCallback, cluster
<1> QED BY <1>2, <1>3, <1>4 DEF OnItsWay, InQueue, WithWorker, WithInformer, WithCallback

LEMMA FailGivesBack ==
  ASSUME Fail, NEW t, NEW s, WithWorker(t, s) PROVE InQueue(t)'
BY DEF Fail, WithWorker, InQueue

LEMMA ListMisses ==
  ASSUME TypeOK, InformerMissesNothing, NEW n \in Spaces, List(n)
  PROVE  InformerMissesNothing'
<1>1. UNCHANGED <<cluster, informer, pending, hand, note>>
  BY DEF List, watching, results
<1>2. queued \subseteq queued' BY DEF List, Fail
<1>3. ASSUME NEW t \in Templates, NEW s \in Sources, Due(t, s)'
      PROVE  Due(t, s) /\ (WithWorker(t, s) => InQueue(t)' \/ WithWorker(t, s)')
  <2>1. Due(t, s) BY <1>1, <1>3, DueStays
  <2>2. ASSUME WithWorker(t, s), ~Fail PROVE WithWorker(t, s)'
    <3>1. job' = [job EXCEPT !.spaces = @ \ {n}, !.todo = @ \cup Listed(n)]
      BY <2>2 DEF List
    <3>2. /\ job'.at = job.at /\ job'.read = job.read /\ job'.spaces = job.spaces \ {n}
          /\ job'.todo = job.todo \cup Listed(n)
      BY <3>1 DEF TypeOK, Job
    <3>3. job.read = tmpl[t] /\ Matches(tmpl[t].sel, s, src[s])
      BY <2>1, <2>2 DEF WithWorker, Due, Wanted, Selected
    <3>4. SpaceOf[s] = n => [source |-> s, version |-> src[s]] \in Listed(n)
      BY <3>3 DEF Listed
    <3> QED BY <1>1, <2>2, <3>2, <3>4 DEF WithWorker, cluster
  <2> QED BY <2>1, <2>2, FailGivesBack
<1> QED BY <1>1, <1>2, <1>3, WorkerMisses

LEMMA DownloadMisses ==
  ASSUME TypeOK, PhaseInv, InformerMissesNothing, Download
  PROVE  InformerMissesNothing'
<1>1. UNCHANGED <<cluster, informer, pending, hand, note>>
  BY DEF Download, watching, results
<1>2. queued \subseteq queued' BY DEF Download, Fail
<1>3. ASSUME NEW t \in Templates, NEW s \in Sources, Due(t, s)'
      PROVE  Due(t, s) /\ ~WithWorker(t, s)
  <2>1. Due(t, s) BY <1>1, <1>3, DueStays
  <2>2. KindOf[s] = tmpl[t].sel.kind /\ informer[<<t, KindOf[s]>>].state = "on"
    BY <2>1 DEF Due, Wanted, Selected, Matches
  <2>3. KindOf[s] # Git BY <2>2 DEF PhaseInv
  <2> QED BY <2>1, <2>2, <2>3 DEF Download, WithWorker
<1> QED BY <1>1, <1>2, <1>3, WorkerMisses

LEMMA WatchMisses ==
  ASSUME TypeOK, InformerMissesNothing, Watch
  PROVE  InformerMissesNothing'
<1>1. UNCHANGED <<cluster, queued, pending, hand, note>>
  BY DEF Watch, results
<1>2. ASSUME NEW t \in Templates, NEW s \in Sources, Due(t, s)'
      PROVE  Due(t, s) /\ (WithWorker(t, s) => WithWorker(t, s)')
  <2> DEFINE i == <<t, KindOf[s]>>
  <2>1. informer'[i].state = "on" BY <1>2 DEF Due
  <2>2. informer'[i] = informer[i]
    <3>1. i \in Keys BY KeyOf
    <3> QED BY <2>1, <3>1, WatchEffect
  <2>3. Due(t, s) BY <1>1, <1>2, <2>2, DueStays
  <2>4. ASSUME WithWorker(t, s) PROVE WithWorker(t, s)'
    <3>1. SpaceOf[s] \notin job.spaces BY DEF Watch
    <3>2. job.todo # {} BY <2>4, <3>1 DEF WithWorker
    <3>3. job' = job BY <3>2 DEF Watch
    <3> QED BY <1>1, <2>4, <3>3 DEF WithWorker, cluster
  <2> QED BY <2>3, <2>4
<1> QED BY <1>1, <1>2, WorkerMisses

LEMMA HandleNextMisses ==
  ASSUME TypeOK, PhaseInv, InformerMissesNothing, NEW item \in job.todo, HandleNext(item)
  PROVE  InformerMissesNothing'
<1>1. UNCHANGED <<cluster, informer, pending, hand>>
  BY DEF HandleNext, watching
<1>2. queued \subseteq queued' BY DEF HandleNext, Fail
<1>3. \/ Fail /\ UNCHANGED note
      \/ Handled(job.at, job.read, item.source, item.version)
  BY DEF HandleNext, results
<1>4. ASSUME NEW t \in Templates, NEW s \in Sources, Due(t, s)'
      PROVE  Due(t, s) /\ (WithWorker(t, s) => InQueue(t)' \/ WithWorker(t, s)')
  <2>1. note'[t][s] = "due" BY <1>4 DEF Due
  <2>2. note[t][s] = "due" BY <1>3, <2>1, NotedOnly, TypeParts
  <2>3. Due(t, s) BY <1>1, <1>4, <2>2, DueStays
  <2>4. ASSUME WithWorker(t, s), ~Fail PROVE WithWorker(t, s)'
    <3> DEFINE own == [source |-> s, version |-> src[s]]
    <3>1. job.at = t /\ job.read = tmpl[t] /\ own \in job.todo
      BY <2>4 DEF WithWorker, PhaseInv, HandleNext
    <3>2. Handled(job.at, job.read, item.source, item.version) BY <1>3, <2>4
    <3>3. item # own BY <2>1, <3>1, <3>2, Noted, TypeParts
    <3>4. job' = [job EXCEPT !.todo = @ \ {item}] BY <2>4, <3>1, <3>3 DEF HandleNext
    <3>5. job'.at = job.at /\ job'.read = job.read /\ job'.todo = job.todo \ {item}
      BY <3>4 DEF TypeOK, Job
    <3> QED BY <1>1, <3>1, <3>3, <3>5 DEF WithWorker, cluster
  <2> QED BY <2>3, <2>4, FailGivesBack
<1> QED BY <1>1, <1>2, <1>4, WorkerMisses

LEMMA StartMisses ==
  ASSUME TypeOK, InformerMissesNothing, NEW k \in Keys, Start(k)
  PROVE  InformerMissesNothing'
<1> SUFFICES ASSUME NEW t \in Templates, NEW s \in Sources, Due(t, s)'
             PROVE  OnItsWay(t, s)'
  BY DEF InformerMissesNothing, Due
<1> DEFINE i == <<t, KindOf[s]>>
<1>0. i \in Keys BY KeyOf
<1>1. UNCHANGED <<cluster, queued, worker, hand, results>> BY DEF Start
<1>2. CASE i = k
  <2>1. informer'[i].label = informer[i].label BY <1>0, <1>2 DEF Start, TypeOK
  <2>2. Covers(i, s, src[s]) BY <1>1, <2>1, <1>0 DEF Due, Covers, cluster
  <2>3. pending'[i][s] = <<src[s]>> BY <1>0, <1>2, <2>2 DEF Start, TypeOK
  <2>4. WithInformer(i, s)' BY <1>1, <2>3 DEF WithInformer, cluster
  <2> QED BY <2>4 DEF WithInformer, OnItsWay
<1>3. CASE i # k
  <2>1. informer'[i] = informer[i] /\ pending'[i] = pending[i]
    BY <1>0, <1>3 DEF Start, TypeOK
  <2>2. Due(t, s) BY <1>1, <2>1, DueStays DEF results
  <2>3. OnItsWay(t, s) BY <2>2, MissesParts
  <2> QED BY <1>1, <2>1, <2>3 DEF OnItsWay, cluster, worker
<1> QED BY <1>2, <1>3

LEMMA ReceiveMisses ==
  ASSUME TypeOK, InformerMissesNothing, NEW k \in Keys, NEW r \in Sources, Receive(k, r)
  PROVE  InformerMissesNothing'
<1> SUFFICES ASSUME NEW t \in Templates, NEW s \in Sources, Due(t, s)'
             PROVE  OnItsWay(t, s)'
  BY DEF InformerMissesNothing, Due
<1> DEFINE i == <<t, KindOf[s]>>
           v == Head(pending[k][r])
           e == [source |-> r, version |-> v, read |-> tmpl[k[1]]]
<1>0. i \in Keys BY KeyOf
<1>1. /\ UNCHANGED <<cluster, queued, worker, informer>>
      /\ pending' = [pending EXCEPT ![k][r] = Tail(@)]
      /\ hand[k] = NoEvent
  BY DEF Receive
<1>2. UNCHANGED results \/ Failed(k[1], tmpl[k[1]], r, v) BY DEF Receive
<1>3. note'[t][s] = "due" BY DEF Due
<1>4. note[t][s] = "due" BY <1>2, <1>3, NotedOnly, TypeParts DEF results
<1>5. Due(t, s) BY <1>1, <1>4, DueStays
<1>6. InQueue(t) \/ WithWorker(t, s) \/ WithInformer(i, s) \/ WithCallback(i, t, s)
  BY <1>5, MissesParts, Ways
<1>7. CASE InQueue(t) \/ WithWorker(t, s)
  BY <1>1, <1>7 DEF InQueue, WithWorker, OnItsWay, cluster, worker
<1>8. CASE WithCallback(i, t, s)
  <2>1. hand[i].source = s BY <1>8 DEF WithCallback
  <2>2. i # k BY <1>1, <2>1, NoneAssumption DEF NoEvent
  <2>3. hand'[i] = hand[i] BY <1>0, <2>2 DEF Receive, TypeOK
  <2> QED BY <1>1, <1>8, <2>3 DEF WithCallback, OnItsWay, cluster
<1>9. CASE WithInformer(i, s) /\ (i # k \/ s # r)
  <2>1. pending'[i][s] = pending[i][s] BY <1>0, <1>1, <1>9 DEF TypeOK
  <2> QED BY <1>1, <1>9, <2>1 DEF WithInformer, OnItsWay, cluster
<1>10. CASE WithInformer(i, s) /\ i = k /\ s = r
  <2>0. k[1] = t BY <1>10
  <2>1. pending[i][s] \in Seq(Version) BY <1>0 DEF TypeOK
  <2>2. pending'[i][s] = Tail(pending[i][s]) BY <1>0, <1>1, <1>10 DEF TypeOK
  <2>3. CASE Len(pending[i][s]) > 1
    <3>1. Len(pending'[i][s]) > 0
            /\ pending'[i][s][Len(pending'[i][s])] = pending[i][s][Len(pending[i][s])]
      BY <2>1, <2>2, <2>3
    <3> QED BY <1>1, <1>10, <3>1 DEF WithInformer, OnItsWay, cluster
  <2>4. CASE Len(pending[i][s]) = 1
    <3>1. v = src[s] BY <1>10, <2>1, <2>4 DEF WithInformer
    <3>2. SpaceOf[s] \in tmpl[t].sel.spaces BY <1>5 DEF Due, Wanted, Selected
    <3>3. ~Failed(t, tmpl[t], s, src[s]) BY <1>3, Noted, TypeParts
    <3>4. hand' = [hand EXCEPT ![k] = e] BY <1>10, <2>0, <3>1, <3>2, <3>3 DEF Receive
    <3>5. hand'[i] = [source |-> s, version |-> src[s], read |-> tmpl[t]]
      BY <1>0, <1>10, <2>0, <3>1, <3>4 DEF TypeOK
    <3> QED BY <1>1, <3>5 DEF OnItsWay, cluster
  <2>5. Len(pending[i][s]) > 1 \/ Len(pending[i][s]) = 1
    <3>1. Len(pending[i][s]) > 0 BY <1>10 DEF WithInformer
    <3>2. Len(pending[i][s]) \in Nat BY <2>1, LenProperties
    <3>3. \A n \in Nat : n > 0 => n > 1 \/ n = 1 OBVIOUS
    <3> QED BY <3>1, <3>2, <3>3
  <2> QED BY <2>3, <2>4, <2>5
<1> QED BY <1>6, <1>7, <1>8, <1>9, <1>10

LEMMA CallBackMisses ==
  ASSUME TypeOK, InformerMissesNothing, NEW k \in Keys, CallBack(k)
  PROVE  InformerMissesNothing'
<1> SUFFICES ASSUME NEW t \in Templates, NEW s \in Sources, Due(t, s)'
             PROVE  OnItsWay(t, s)'
  BY DEF InformerMissesNothing, Due
<1> DEFINE i == <<t, KindOf[s]>>
           e == hand[k]
<1>0. i \in Keys BY KeyOf
<1>1. UNCHANGED <<cluster, queued, worker, informer, pending>> BY DEF CallBack
<1>2. Handled(k[1], e.read, e.source, e.version) \/ Failed(k[1], e.read, e.source, e.version)
  BY DEF CallBack
<1>3. note'[t][s] = "due" BY DEF Due
<1>4. note[t][s] = "due" BY <1>2, <1>3, NotedOnly, TypeParts
<1>5. Due(t, s) BY <1>1, <1>4, DueStays
<1>6. InQueue(t) \/ WithWorker(t, s) \/ WithInformer(i, s) \/ WithCallback(i, t, s)
  BY <1>5, MissesParts, Ways
<1>7. CASE InQueue(t) \/ WithWorker(t, s) \/ WithInformer(i, s)
  BY <1>1, <1>7 DEF InQueue, WithWorker, WithInformer, OnItsWay, cluster, worker
<1>8. CASE WithCallback(i, t, s)
  <2>1. e = [source |-> s, version |-> src[s], read |-> tmpl[t]] => k # i
    BY <1>2, <1>3, Noted, TypeParts
  <2>2. i # k BY <1>8, <2>1 DEF WithCallback
  <2>3. hand'[i] = hand[i] BY <1>0, <2>2 DEF CallBack, TypeOK
  <2> QED BY <1>1, <1>8, <2>3 DEF WithCallback, OnItsWay, cluster
<1> QED BY <1>6, <1>7, <1>8

\* InformerMissesNothing is kept.
LEMMA StepMisses ==
  TypeOK /\ PhaseInv /\ InformerMissesNothing /\ [Next]_vars => InformerMissesNothing'
<1> SUFFICES ASSUME TypeOK, PhaseInv, InformerMissesNothing, [Next]_vars
             PROVE  InformerMissesNothing'
  OBVIOUS
<1>1. ASSUME NEW t \in Templates, NEW sel \in Selectors \cup {NoSelector}, EditTemplate(t, sel)
      PROVE InformerMissesNothing'
  BY <1>1, EditTemplateMisses
<1>2. ASSUME NEW t \in Templates, Reconcile(t) PROVE InformerMissesNothing'
  BY <1>2, ReconcileMisses
<1>3. ASSUME NEW s \in Sources, NEW label \in Labels \cup {None}, EditSource(s, label)
      PROVE InformerMissesNothing'
  BY <1>3, EditSourceMisses
<1>4. ASSUME NEW n \in Spaces, List(n) PROVE InformerMissesNothing' BY <1>4, ListMisses
<1>5. CASE Download BY <1>5, DownloadMisses
<1>6. CASE Watch BY <1>6, WatchMisses
<1>7. ASSUME NEW item \in job.todo, HandleNext(item) PROVE InformerMissesNothing'
  BY <1>7, HandleNextMisses
<1>8. ASSUME NEW i \in Keys, Start(i) PROVE InformerMissesNothing' BY <1>8, StartMisses
<1>9. ASSUME NEW i \in Keys, NEW s \in Sources, Receive(i, s) PROVE InformerMissesNothing'
  BY <1>9, ReceiveMisses
<1>10. ASSUME NEW i \in Keys, CallBack(i) PROVE InformerMissesNothing' BY <1>10, CallBackMisses
<1>11. CASE Resync
  <2>1. queued \subseteq queued' /\ UNCHANGED <<cluster, worker, watching, results>>
    BY <1>11 DEF Resync
  <2> QED BY <2>1 DEF InformerMissesNothing, Wanted, Covers, OnItsWay, cluster, worker, watching, results
<1>12. CASE Restart
  <2>1. \A t \in Templates, s \in Sources : informer'[<<t, KindOf[s]>>].state = "off"
    BY <1>12, KeyOf, Nothing DEF Restart
  <2> QED BY <2>1 DEF InformerMissesNothing
<1>13. CASE UNCHANGED vars
  BY <1>13 DEF vars, InformerMissesNothing, Wanted, Covers, OnItsWay
<1> QED BY <1>1, <1>2, <1>3, <1>4, <1>5, <1>6, <1>7, <1>8, <1>9, <1>10, <1>11, <1>12, <1>13
        DEF Next

-----------------------------------------------------------------------------
(* The theorems.                                                           *)

LEMMA InitInv == Init => IInv
<1> SUFFICES ASSUME Init PROVE IInv OBVIOUS
<1>1. TypeOK BY InitType
<1>2. \A i \in Keys : informer[i].state = "off" /\ hand[i] = NoEvent BY Nothing DEF Init
<1>3. PhaseInv BY <1>2, SourcesAssumption DEF Init, PhaseInv, Keys
<1>4. PendingInv BY DEF Init, PendingInv
<1>5. FirstInv BY <1>2, Nothing, NoneAssumption DEF Init, FirstInv, Keys
<1>6. InformerMissesNothing BY <1>2, KeyOf DEF InformerMissesNothing
<1>7. StrayNeedsEdit BY <1>2 DEF StrayNeedsEdit
<1> QED BY <1>1, <1>3, <1>4, <1>5, <1>6, <1>7 DEF IInv

LEMMA StepInv == IInv /\ [Next]_vars => IInv'
BY StepType, StepPhase, StepPending, StepFirst, StepMisses, StepStray DEF IInv

LEMMA Invariance == Spec => []IInv
BY InitInv, StepInv, PTL DEF Spec

\* A change of a source, or of a template, that an informer covers is never
\* lost between the worker's list, the informer's first list and the callback.
THEOREM InformerMissesNothingCorrect == Spec => []InformerMissesNothing
<1>1. IInv => InformerMissesNothing BY DEF IInv
<1> QED BY <1>1, Invariance, PTL

\* What a callback takes up is in the template's namespaces, and selected by a
\* template that was never edited.
THEOREM StrayNeedsEditCorrect == Spec => []StrayNeedsEdit
<1>1. IInv => StrayNeedsEdit BY DEF IInv
<1> QED BY <1>1, Invariance, PTL
=============================================================================
