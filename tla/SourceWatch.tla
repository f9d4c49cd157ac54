----------------------------- MODULE SourceWatch -----------------------------
(***************************************************************************)
(* How sources get to HandleSource: the worker of the template controller, *)
(* which lists the sources of one template after the other (Run in         *)
(* src/k8s/template_manager.go), and the informers that the watcher starts *)
(* (src/k8s/watcher.go), each of which calls reconcileObject               *)
(* (src/controllers/template_controller.go) in a goroutine of its own.     *)
(*                                                                         *)
(* Users create, edit and delete templates as well as sources.  An         *)
(* informer belongs to a key, the kind and the template's name, is never   *)
(* stopped, and keeps the selector it was started with.                    *)
(*                                                                         *)
(* HandleSource is one step here that succeeds or fails; TemplateManager   *)
(* opens it.  The files of a git repository are sources of the kind Git.   *)
(***************************************************************************)
EXTENDS Naturals, Sequences

CONSTANTS
  Templates,     \* names; a Template is cluster-scoped
  Sources,       \* names of source objects, and of files of the repository
  Kinds,
  Git,           \* the kind of the files
  Spaces,        \* namespaces
  Labels,        \* what a label and a field selector tell apart
  KindOf,
  SpaceOf,
  Selectors,     \* the values of spec.source that users give
  None,
  MaxGen,        \* bound: generations of a template
  MaxRev,        \* bound: revisions of a source
  MaxTroubles    \* bound: steps that fail, and restarts

ASSUME BoundsAssumption ==
  MaxGen \in Nat \ {0} /\ MaxRev \in Nat \ {0} /\ MaxTroubles \in Nat

Selector == [kind: Kinds, label: Labels, spaces: SUBSET Spaces]

ASSUME SourcesAssumption ==
  /\ KindOf \in [Sources -> Kinds] /\ SpaceOf \in [Sources -> Spaces]
  /\ Git \in Kinds /\ Selectors \subseteq Selector

ASSUME NoneAssumption == None \notin Templates \cup Sources \cup Labels \cup Kinds

VARIABLES
  tmpl,      \* the templates as the controller's cache has them
  src,       \* the sources; one that does not exist has the label None
  odd,       \* the archive has an entry that is neither file nor directory
  queued,    \* the work queue of the template controller
  pc,        \* where its worker is
  job,       \* the locals of Run
  informer,  \* Watcher.cache with the informers that it stands for
  pending,   \* pending[i][s]: what informer i has not handed over yet
  hand,      \* hand[i]: what the callback of i works on
  last,      \* last[t][s]: what was handled last
  note,      \* note[t][s]: was s handled for t since one of them changed?
  troubles   \* what was used of the bound

cluster  == <<tmpl, src, odd>>
worker   == <<pc, job>>
watching == <<informer, pending, hand>>
results  == <<last, note>>
vars     == <<tmpl, src, odd, queued, pc, job, informer, pending, hand, last,
              note, troubles>>

-----------------------------------------------------------------------------
(* Data.                                                                   *)

NoSelector == [kind |-> None, label |-> None, spaces |-> {}]
NoTemplate == [gen |-> 0, sel |-> NoSelector]
NoJob      == [at |-> None, read |-> NoTemplate, spaces |-> {}, todo |-> {}]
NoVersion  == [rev |-> 0, label |-> None]
NoEvent    == [source |-> None, version |-> NoVersion, read |-> NoTemplate]
NoInformer == [state |-> "off", label |-> None]

Generation == [gen: 0..MaxGen, sel: Selectors \cup {NoSelector}]
Version    == [rev: 0..MaxRev, label: Labels \cup {None}]
Item       == [source: Sources, version: Version]
Job        == [at: Templates \cup {None}, read: Generation, spaces: SUBSET Spaces,
               todo: SUBSET Item]
Event      == [source: Sources \cup {None}, version: Version, read: Generation]
PCs        == {"idle", "select", "watch", "handle"}

\* getCacheKey.
Keys == Templates \X Kinds

Present(t) == tmpl[t].sel # NoSelector

\* The label and field selectors, and the kind that is listed.  Namespaces keep
\* their labels: those that a selector lists do not change.
Matches(sel, s, v) == KindOf[s] = sel.kind /\ v.label = sel.label

Selected(sel, s, v) == Matches(sel, s, v) /\ SpaceOf[s] \in sel.spaces

Init ==
  /\ tmpl \in [Templates -> [gen: {1}, sel: Selectors \cup {NoSelector}]]
  /\ src \in [Sources -> [rev: {1}, label: Labels \cup {None}]]
  /\ odd = FALSE
  /\ queued = Templates
  /\ pc = "idle"
  /\ job = NoJob
  /\ informer = [i \in Keys |-> NoInformer]
  /\ pending = [i \in Keys |-> [s \in Sources |-> <<>>]]
  /\ hand = [i \in Keys |-> NoEvent]
  /\ last = [t \in Templates |-> [s \in Sources |-> [gen |-> 0, rev |-> 0]]]
  /\ note = [t \in Templates |-> [s \in Sources |-> "due"]]
  /\ troubles = 0

NoTrouble == UNCHANGED troubles
Trouble == troubles < MaxTroubles /\ troubles' = troubles + 1

-----------------------------------------------------------------------------
(* Users.                                                                  *)

\* A template is created, gets another source selector, or is deleted.
EditTemplate(t, sel) ==
  /\ tmpl[t].gen < MaxGen /\ sel # tmpl[t].sel
  /\ tmpl' = [tmpl EXCEPT ![t] = [gen |-> @.gen + 1, sel |-> sel]]
  /\ queued' = queued \cup {t}
  /\ note' = [note EXCEPT ![t] = [s \in Sources |-> "due"]]
  /\ UNCHANGED <<src, odd, worker, watching, last, troubles>>

\* The informer with key i lists and watches s as it is in version v: one
\* kind, all namespaces, and the selector the informer was started with.
Covers(i, s, v) == KindOf[s] = i[2] /\ v.label = informer[i].label

\* AddFunc and UpdateFunc; DeleteFunc, which is called when a source no
\* longer matches, does nothing.  (First without UpdateFunc, for a mutant.)
NotifyAdded(s, old, v) ==
  pending' = [i \in Keys |->
    IF informer[i].state = "on" /\ Covers(i, s, v) /\ ~Covers(i, s, old)
      THEN [pending[i] EXCEPT ![s] = Append(@, v)]
      ELSE pending[i]]
Notify(s, old, v) ==
  pending' = [i \in Keys |->
    IF informer[i].state = "on" /\ Covers(i, s, v)
      THEN [pending[i] EXCEPT ![s] = Append(@, v)]
      ELSE pending[i]]

\* A source is created, edited, labelled or deleted; a commit changes a file
\* and may bring a link into the archive, or remove it.
EditSource(s, label) ==
  /\ src[s].rev < MaxRev
  /\ src[s].label # None \/ label # None
  /\ LET v == [rev |-> src[s].rev + 1, label |-> label]
     IN /\ src' = [src EXCEPT ![s] = v]
        /\ Notify(s, src[s], v)
  /\ KindOf[s] # Git => UNCHANGED odd
  /\ odd' \in BOOLEAN
  /\ note' = [t \in Templates |-> [note[t] EXCEPT ![s] = "due"]]
  /\ UNCHANGED <<tmpl, queued, worker, informer, hand, last, troubles>>

-----------------------------------------------------------------------------
(* HandleSource for a template as it was read and a version of a source.   *)

UpToDate(t, read, s, v) == read.gen = tmpl[t].gen /\ v.rev = src[s].rev

Handled(t, read, s, v) ==
  /\ last' = [last EXCEPT ![t][s] = [gen |-> read.gen, rev |-> v.rev]]
  /\ note' = IF UpToDate(t, read, s, v) THEN [note EXCEPT ![t][s] = "done"] ELSE note

Failed(t, read, s, v) ==
  /\ note' = IF UpToDate(t, read, s, v) THEN [note EXCEPT ![t][s] = "failed"] ELSE note
  /\ UNCHANGED last

-----------------------------------------------------------------------------
(* The worker.                                                             *)

\* TemplateReconciler.Reconcile up to the first request of Run.
Reconcile(t) ==
  /\ pc = "idle" /\ t \in queued
  /\ queued' = queued \ {t}
  /\ IF Present(t)
       THEN /\ pc' = "select"
            /\ job' = [at |-> t, read |-> tmpl[t], spaces |-> tmpl[t].sel.spaces, todo |-> {}]
       ELSE UNCHANGED worker
  /\ UNCHANGED <<cluster, watching, results, troubles>>

\* Run is done.  (First with the sources left over, for a mutant.)
ReturnEarly == pc' = "idle" /\ UNCHANGED job
Return == pc' = "idle" /\ job' = NoJob

\* Run returns an error: controller-runtime enqueues the template again.
Fail == Return /\ Trouble /\ queued' = queued \cup {job.at}

\* The versions of what the template selects in a namespace.
Listed(n) ==
  {[source |-> s, version |-> src[s]] :
     s \in {r \in Sources : SpaceOf[r] = n /\ Matches(job.read.sel, r, src[r])}}

\* selectResources, for one namespace.
List(n) ==
  /\ pc = "select" /\ job.read.sel.kind # Git /\ n \in job.spaces
  /\ \/ /\ job' = [job EXCEPT !.spaces = @ \ {n}, !.todo = @ \cup Listed(n)]
        /\ UNCHANGED <<pc, queued>> /\ NoTrouble
     \/ Fail /\ UNCHANGED note
  /\ UNCHANGED <<cluster, watching, results>>

\* handleGitRepository and getGitRepositoryFiles up to the first file.  With
\* an entry of another type errors.Wrapf of a nil error is returned: no
\* file, and no error.
Download ==
  /\ pc = "select" /\ job.read.sel.kind = Git
  /\ LET files == IF odd THEN {} ELSE UNION {Listed(n) : n \in job.spaces}
     IN \/ /\ files = {} /\ Return
           /\ UNCHANGED queued /\ NoTrouble
        \/ /\ files # {} /\ pc' = "handle"
           /\ job' = [job EXCEPT !.spaces = {}, !.todo = files]
           /\ UNCHANGED queued /\ NoTrouble
        \/ Fail
  /\ UNCHANGED <<cluster, watching, results>>

\* All namespaces are listed: Watcher.Watch, if there is a source.  The flag
\* is set before the steps that may fail, and the error is dropped.
Watch ==
  /\ pc = "select" /\ job.read.sel.kind # Git /\ job.spaces = {}
  /\ IF job.todo = {}
       THEN Return /\ UNCHANGED informer /\ NoTrouble
       ELSE /\ pc' = "handle" /\ UNCHANGED job
            /\ LET i == <<job.at, job.read.sel.kind>>
                   Begun(st) == [state |-> st, label |-> job.read.sel.label]
               IN IF informer[i].state # "off"
                    THEN UNCHANGED informer /\ NoTrouble
                    ELSE \/ informer' = [informer EXCEPT ![i] = Begun("starting")] /\ NoTrouble
                         \/ informer' = [informer EXCEPT ![i] = Begun("broken")] /\ Trouble
  /\ UNCHANGED <<cluster, queued, pending, hand, results>>

\* One round of the loop in Run, or in handleGitRepository.
HandleNext(item) ==
  /\ pc = "handle" /\ item \in job.todo
  /\ \/ /\ Handled(job.at, job.read, item.source, item.version)
        /\ IF job.todo = {item}
             THEN Return
             ELSE job' = [job EXCEPT !.todo = @ \ {item}] /\ UNCHANGED pc
        /\ UNCHANGED queued /\ NoTrouble
     \/ Fail /\ UNCHANGED results
  /\ UNCHANGED <<cluster, watching>>

-----------------------------------------------------------------------------
(* The informers.                                                          *)

\* The first list: everything the selector covers is added.
Start(i) ==
  /\ informer[i].state = "starting"
  /\ informer' = [informer EXCEPT ![i].state = "on"]
  /\ pending' = [pending EXCEPT ![i] =
       [s \in Sources |-> IF Covers(i, s, src[s]) THEN <<src[s]>> ELSE <<>>]]
  /\ UNCHANGED <<cluster, queued, worker, hand, results, troubles>>

\* reconcileObject up to HandleSource: the template is read again, and only
\* its namespaces are compared with the object.  (First without that, for a
\* mutant.)
ReceiveAnywhere(i, s) ==
  /\ hand[i] = NoEvent /\ pending[i][s] # <<>>
  /\ pending' = [pending EXCEPT ![i][s] = Tail(@)]
  /\ hand' = [hand EXCEPT ![i] =
       [source |-> s, version |-> Head(pending[i][s]), read |-> tmpl[i[1]]]]
  /\ UNCHANGED results /\ NoTrouble
  /\ UNCHANGED <<cluster, queued, worker, informer>>

Receive(i, s) ==
  /\ hand[i] = NoEvent /\ pending[i][s] # <<>>
  /\ pending' = [pending EXCEPT ![i][s] = Tail(@)]
  /\ LET t == i[1]
         v == Head(pending[i][s])
     IN \/ /\ SpaceOf[s] \in tmpl[t].sel.spaces
           /\ hand' = [hand EXCEPT ![i] = [source |-> s, version |-> v, read |-> tmpl[t]]]
           /\ UNCHANGED results /\ NoTrouble
        \/ /\ SpaceOf[s] \notin tmpl[t].sel.spaces
           /\ UNCHANGED <<hand, results>> /\ NoTrouble
        \/ /\ Failed(t, tmpl[t], s, v) /\ Trouble
           /\ UNCHANGED hand
  /\ UNCHANGED <<cluster, queued, worker, informer>>

\* HandleSource in the callback.  Its error is only logged.
CallBack(i) ==
  /\ hand[i] # NoEvent
  /\ hand' = [hand EXCEPT ![i] = NoEvent]
  /\ LET e == hand[i]
     IN \/ Handled(i[1], e.read, e.source, e.version) /\ NoTrouble
        \/ Failed(i[1], e.read, e.source, e.version) /\ Trouble
  /\ UNCHANGED <<cluster, queued, worker, informer, pending>>

-----------------------------------------------------------------------------
(* Time.                                                                   *)

\* The resync period of the manager, 5 minutes.  (First only for templates
\* without an informer, for a mutant.)
ResyncUnwatched ==
  /\ queued' = queued \cup
       {t \in Templates : Present(t) /\ informer[<<t, tmpl[t].sel.kind>>].state # "on"}
  /\ UNCHANGED <<cluster, worker, watching, results, troubles>>

Resync ==
  /\ queued' = queued \cup {t \in Templates : Present(t)}
  /\ UNCHANGED <<cluster, worker, watching, results, troubles>>

\* The operator dies and starts again.
Restart ==
  /\ Trouble
  /\ queued' = {t \in Templates : Present(t)}
  /\ Return
  /\ informer' = [i \in Keys |-> NoInformer]
  /\ pending' = [i \in Keys |-> [s \in Sources |-> <<>>]]
  /\ hand' = [i \in Keys |-> NoEvent]
  /\ UNCHANGED <<cluster, results>>

Next ==
  \/ \E t \in Templates :
       \/ \E sel \in Selectors \cup {NoSelector} : EditTemplate(t, sel)
       \/ Reconcile(t)
  \/ \E s \in Sources, label \in Labels \cup {None} : EditSource(s, label)
  \/ \E n \in Spaces : List(n)
  \/ Download
  \/ Watch
  \/ \E item \in job.todo : HandleNext(item)
  \/ \E i \in Keys :
       \/ Start(i)
       \/ \E s \in Sources : Receive(i, s)
       \/ CallBack(i)
  \/ Resync
  \/ Restart

\* The worker's queue is first in, first out.  Informers, callbacks and the
\* resync are goroutines of their own.
Fairness ==
  /\ \A t \in Templates : SF_vars(Reconcile(t))
  /\ WF_vars(\E n \in Spaces : List(n))
  /\ WF_vars(Download \/ Watch \/ \E item \in job.todo : HandleNext(item))
  /\ \A i \in Keys : WF_vars(Start(i)) /\ WF_vars(CallBack(i))
  /\ \A i \in Keys : WF_vars(\E s \in Sources : Receive(i, s))
  /\ WF_vars(Resync)

Spec == Init /\ [][Next]_vars /\ Fairness

-----------------------------------------------------------------------------
(* Properties.                                                             *)

\* The variables have their types: what the worker and the callbacks hold
\* is of the right shape.
TypeOK ==
  /\ tmpl \in [Templates -> Generation] /\ \A t \in Templates : tmpl[t].gen > 0
  /\ src \in [Sources -> Version] /\ odd \in BOOLEAN
  /\ queued \subseteq Templates
  /\ pc \in PCs /\ job \in Job /\ (pc = "idle" <=> job.at = None)
  /\ informer \in [Keys -> [state: {"off", "starting", "on", "broken"},
                            label: Labels \cup {None}]]
  /\ pending \in [Keys -> [Sources -> Seq(Version)]]
  /\ hand \in [Keys -> Event]
  /\ last \in [Templates -> [Sources -> [gen: 0..MaxGen, rev: 0..MaxRev]]]
  /\ note \in [Templates -> [Sources -> {"due", "done", "failed"}]]
  /\ troubles \in 0..MaxTroubles

Wanted(t, s) == Selected(tmpl[t].sel, s, src[s])

\* Something is under way that will handle s for t as both are now.
OnItsWay(t, s) ==
  LET i == <<t, KindOf[s]>>
      n == Len(pending[i][s])
  IN \/ t \in queued
     \/ /\ job.at = t /\ job.read = tmpl[t]
        /\ SpaceOf[s] \in job.spaces \/ [source |-> s, version |-> src[s]] \in job.todo
     \/ n > 0 /\ pending[i][s][n] = src[s]
     \/ hand[i] = [source |-> s, version |-> src[s], read |-> tmpl[t]]

\* Of the sources that an informer covers and the template selects, no change
\* is missed: neither a new revision nor a new generation of the template
\* waits for the resync, unless the callback failed for it.  This is about
\* edits between the list of the worker and the first list of the informer,
\* and about callbacks that read the template before it changed.
InformerMissesNothing ==
  \A t \in Templates, s \in Sources :
    LET i == <<t, KindOf[s]>>
    IN Wanted(t, s) /\ informer[i].state = "on" /\ Covers(i, s, src[s])
         /\ note[t][s] = "due"
       => OnItsWay(t, s)

\* A callback handles sources in the namespaces of the template it read, and
\* only for a template that was edited or created again may the source be
\* one that the labels and the kind do not select.
StrayNeedsEdit ==
  \A i \in Keys : hand[i] # NoEvent =>
    /\ SpaceOf[hand[i].source] \in hand[i].read.sel.spaces
    /\ tmpl[i[1]].gen = 1 => Selected(hand[i].read.sel, hand[i].source, hand[i].version)

\* In the end every source was handled last as it is, for the template as it
\* is, whichever of the worker and the callbacks came last; not so the files
\* of an archive with a link in it.
Converges ==
  \A t \in Templates, s \in Sources :
    <>[](\/ ~Wanted(t, s)
         \/ last[t][s] = [gen |-> tmpl[t].gen, rev |-> src[s].rev]
         \/ KindOf[s] = Git /\ odd)
=============================================================================
