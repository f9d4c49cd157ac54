-------------------------- MODULE SchemaCacheProofs --------------------------
(***************************************************************************)
(* Proofs about SchemaCache, for any threads, any kinds and every value of *)
(* the bounds.                                                             *)
(***************************************************************************)
EXTENDS SchemaCache, SequenceTheorems, TLAPS

-----------------------------------------------------------------------------
(* The inductive invariant.                                                *)

\* Nothing that was read is newer than the cluster.
KnownInv ==
  /\ \A v \in Values : cache[v] <= Len(log)
  /\ got <= Len(log)
  /\ \A t \in Threads : used[t].crds <= Len(log)

TypeInv == TypeOK /\ KnownInv

\* A list of CRDs that counts as current, and one that is on its way and will,
\* has the change that the cache was last reset for; the latter has also what
\* the run that waits for it must see, and all that the cache has.
FlightInv ==
  /\ "crds" \in fresh => cache["crds"] >= lastRv
  /\ lock # "free" /\ pc[lock] = "object" =>
       /\ got >= lastRv /\ got >= used[lock].since
       /\ got >= cache["crds"] /\ got >= 1

\* A change that the CRD controller has seen is queued, or covered by the
\* version it has reset the cache for or is about to.
HandledInv ==
  /\ \A v \in 1..seen : log[v].kind \in keys \/ v <= lastRv \/ v <= report
  /\ report # 0 => report > lastRv

IInv == TypeInv /\ FlightInv /\ PickedUp /\ HandledInv

LEMMA IInvInit == Init => IInv
<1> SUFFICES ASSUME Init PROVE IInv
  OBVIOUS
<1> USE BoundsAssumption DEF BoundsAssumption
<1>1. PICK k \in Kinds : log = << [kind |-> k, gone |-> FALSE] >>
  BY DEF Init
<1>2. log \in Seq(Change) /\ Len(log) = 1
  BY <1>1 DEF Change
<1>3. used \in [Threads -> Reads] /\ \A t \in Threads : used[t].crds = 0
  BY DEF Init, Reads, Nothing
<1>4. TypeOK
  BY <1>2, <1>3 DEF Init, TypeOK, Values, PCs
<1>5. KnownInv
  BY <1>2, <1>3 DEF Init, KnownInv
<1>6. FlightInv /\ PickedUp /\ HandledInv
  BY DEF Init, FlightInv, PickedUp, HandledInv
<1>. QED
  BY <1>4, <1>5, <1>6 DEF IInv, TypeInv

-----------------------------------------------------------------------------
(* The operators of the cache.                                             *)

\* What a thread asks for is as new as the cluster at most, and a list of CRDs
\* is as new as the cluster.
LEMMA AskType ==
  ASSUME TypeInv, NEW t \in Threads, NEW v \in Values, NEW held \in Values,
         Ask(t, v, held), UNCHANGED log
  PROVE  /\ lock' \in Threads /\ lock' = t /\ lock = "free"
         /\ got' \in 0..MaxRv /\ got' <= Len(log') /\ (v = "crds" => got' = Len(log))
         /\ UNCHANGED <<cache, fresh, troubles>>
<1>1. got' \in 1..Len(log) /\ (v = "crds" => got' = Len(log))
  <2>1. Len(log) \in Nat /\ Len(log) \in 1..Len(log) /\ 1 \in 1..Len(log)
    BY DEF TypeInv, TypeOK
  <2>2. CASE v = "crds"
    BY <2>1, <2>2 DEF Ask, Responses
  <2>3. CASE v = "schema"
    BY <2>1, <2>3 DEF Ask, Responses
  <2>4. CASE v = "resources"
    BY <2>1, <2>4 DEF Ask, Responses
  <2>. QED
    BY <2>2, <2>3, <2>4 DEF Values
<1>. QED
  BY <1>1, BoundsAssumption DEF BoundsAssumption, TypeInv, TypeOK, Ask

\* A kept response is the value from now on.
LEMMA KeepType ==
  ASSUME TypeInv, NEW t \in Threads, NEW v \in Values, NEW n, Keep(t, v, n), UNCHANGED log
  PROVE  /\ lock = t /\ lock' = "free"
         /\ n = got /\ n \in 0..MaxRv /\ n <= Len(log)
         /\ cache' \in [Values -> 0..MaxRv] /\ fresh' \subseteq Values
         /\ cache'[v] = n /\ \A w \in Values : w # v => cache'[w] = cache[w]
         /\ \A w \in Values : cache'[w] <= Len(log')
         /\ fresh' = fresh \cup {v}
         /\ got' = 0 /\ got' \in 0..MaxRv /\ got' <= Len(log')
         /\ UNCHANGED troubles
BY BoundsAssumption DEF BoundsAssumption, TypeInv, TypeOK, KnownInv, Keep, Well

LEMMA LoseType ==
  ASSUME TypeInv, NEW t \in Threads, Lose(t), UNCHANGED log
  PROVE  /\ lock = t /\ lock' = "free"
         /\ got' \in 0..MaxRv /\ got' <= Len(log')
         /\ troubles' \in 0..MaxTroubles
         /\ UNCHANGED <<cache, fresh>>
BY BoundsAssumption DEF BoundsAssumption, TypeInv, TypeOK, Lose, Trouble

LEMMA HitType ==
  ASSUME TypeInv, NEW v \in Values, NEW held \in Values, NEW n, Hit(v, held, n)
  PROVE  /\ lock = "free" /\ v \in fresh
         /\ n = cache[v] /\ n \in 0..MaxRv /\ n <= Len(log)
         /\ UNCHANGED <<cache, fresh, lock, got, troubles>>
BY DEF TypeInv, TypeOK, KnownInv, Hit, Stale, values

\* Where a thread goes, and what it has read, is of its type.
LEMMA GotoType ==
  ASSUME TypeInv, NEW t \in Threads, NEW l \in PCs, Goto(t, l)
  PROVE  /\ pc' \in [Threads -> PCs] /\ pc'[t] = l
         /\ \A u \in Threads : u # t => pc'[u] = pc[u]
BY DEF TypeInv, TypeOK, Goto

LEMMA ReadType ==
  ASSUME TypeInv, NEW t \in Threads, NEW r \in Reads, Read(t, r), UNCHANGED log,
         r.crds <= Len(log)
  PROVE  /\ used' \in [Threads -> Reads] /\ used'[t] = r
         /\ \A u \in Threads : u # t => used'[u] = used[u]
         /\ \A u \in Threads : used'[u].crds <= Len(log')
BY DEF TypeInv, TypeOK, KnownInv, Read

\* Updates of what a run has read.
LEMMA ReadsType ==
  ASSUME NEW r \in Reads, NEW n \in 0..MaxRv, NEW m \in 0..MaxRv
  PROVE  /\ [r EXCEPT !.schema = n] \in Reads /\ [r EXCEPT !.schema = n].crds = r.crds
         /\ [r EXCEPT !.since = n] \in Reads /\ [r EXCEPT !.since = n].crds = r.crds
         /\ [r EXCEPT !.since = n].since = n
         /\ [r EXCEPT !.crds = n] \in Reads
         /\ [r EXCEPT !.crds = n].crds = n /\ [r EXCEPT !.crds = n].since = r.since
         /\ [r EXCEPT !.crds = n, !.since = m] \in Reads
         /\ [r EXCEPT !.crds = n, !.since = m].crds = n
         /\ [r EXCEPT !.crds = n, !.since = m].since = m
BY DEF Reads

LEMMA KindType ==
  ASSUME NEW r \in Reads, NEW k \in Kinds
  PROVE  [r EXCEPT !.kind = k] \in Reads /\ [r EXCEPT !.kind = k].crds = r.crds
BY DEF Reads

\* What was changed is of a kind.
LEMMA LogType ==
  ASSUME TypeInv
  PROVE  \A v \in 1..Len(log) : log[v] \in Change /\ log[v].kind \in Kinds
<1>1. \A v \in 1..Len(log) : log[v] \in Change
  BY DEF TypeInv, TypeOK
<1>2. \A c \in Change : c.kind \in Kinds
  BY DEF Change
<1>. QED
  BY <1>1, <1>2

\* A resourceVersion of the cluster is within the bound.
LEMMA Bounded ==
  ASSUME TypeInv
  PROVE  /\ Len(log) \in Nat /\ Len(log) >= 1 /\ MaxRv \in Nat
         /\ \A n \in 0..Len(log) : n \in 0..MaxRv /\ n <= Len(log)
<1>1. Len(log) \in 1..MaxRv /\ MaxRv \in Nat
  BY BoundsAssumption DEF BoundsAssumption, TypeInv, TypeOK
<1>. QED
  BY <1>1

LEMMA EndType ==
  ASSUME TypeInv, NEW t \in Threads, End(t), UNCHANGED log
  PROVE  /\ pc' \in [Threads -> PCs] /\ pc'[t] = "idle"
         /\ \A u \in Threads : u # t => pc'[u] = pc[u]
         /\ used' \in [Threads -> Reads]
         /\ \A u \in Threads : u # t => used'[u] = used[u]
         /\ \A u \in Threads : used'[u].crds <= Len(log')
<1>1. Nothing \in Reads /\ Nothing.crds <= Len(log)
  BY BoundsAssumption DEF BoundsAssumption, Nothing, Reads, TypeInv, TypeOK
<1>. QED
  BY <1>1, GotoType, ReadType DEF End, PCs

-----------------------------------------------------------------------------
(* The steps of a thread.                                                  *)

\* What a step of a run does to the type invariant.
LEMMA FetchSchemaType ==
  ASSUME TypeInv, NEW t \in Threads, FetchSchema(t)
  PROVE  TypeInv'
<1> USE DEF FetchSchema, control
<1>0. /\ used[t] \in Reads /\ used[t].crds <= Len(log) /\ "schema" \in Values
      /\ "resources" \in Values /\ "resources" \in PCs
  BY DEF TypeInv, TypeOK, KnownInv, Values, PCs
<1>1. CASE Ask(t, "schema", "resources") /\ UNCHANGED threads
  BY <1>0, <1>1, AskType DEF TypeInv, TypeOK, KnownInv, threads
<1>2. ASSUME NEW n \in 0..Len(log), Fetched(t, "schema", "resources", n),
             Goto(t, "resources"), Read(t, [used[t] EXCEPT !.schema = n])
      PROVE  TypeInv'
  <2>1. n \in 0..MaxRv
    BY Bounded
  <2>2. /\ [used[t] EXCEPT !.schema = n] \in Reads
        /\ [used[t] EXCEPT !.schema = n].crds <= Len(log)
    BY <1>0, <2>1, ReadsType
  <2>3. /\ used' \in [Threads -> Reads]
        /\ \A u \in Threads : used'[u].crds <= Len(log')
    BY <1>2, <2>2, ReadType
  <2>4. pc' \in [Threads -> PCs] /\ \A u \in Threads : u # t => pc'[u] = pc[u]
    BY <1>0, <1>2, GotoType
  <2>5. CASE Keep(t, "schema", n)
    BY <1>0, <2>3, <2>4, <2>5, KeepType DEF TypeInv, TypeOK, KnownInv
  <2>6. CASE Hit("schema", "resources", n)
    BY <1>0, <2>3, <2>4, <2>6, HitType DEF TypeInv, TypeOK, KnownInv
  <2>. QED
    BY <1>2, <2>5, <2>6 DEF Fetched
<1>3. CASE Lose(t) /\ End(t)
  BY <1>3, LoseType, EndType DEF TypeInv, TypeOK, KnownInv
<1>. QED
  BY <1>1, <1>2, <1>3

LEMMA FetchResourcesType ==
  ASSUME TypeInv, NEW t \in Threads, FetchResources(t)
  PROVE  TypeInv'
<1> USE DEF FetchResources, control
<1>0. /\ used[t] \in Reads /\ used[t].crds <= Len(log)
      /\ "resources" \in Values /\ "object" \in PCs
  BY DEF TypeInv, TypeOK, KnownInv, Values, PCs
<1>1. CASE Ask(t, "resources", "resources") /\ UNCHANGED threads
  BY <1>0, <1>1, AskType DEF TypeInv, TypeOK, KnownInv, threads
<1>2. ASSUME NEW n \in 0..Len(log), NEW k \in Kinds,
             Fetched(t, "resources", "resources", n),
             Goto(t, "object"), Read(t, [used[t] EXCEPT !.kind = k])
      PROVE  TypeInv'
  <2>2. /\ [used[t] EXCEPT !.kind = k] \in Reads
        /\ [used[t] EXCEPT !.kind = k].crds <= Len(log)
    BY <1>0, KindType
  <2>3. /\ used' \in [Threads -> Reads]
        /\ \A u \in Threads : used'[u].crds <= Len(log')
    BY <1>2, <2>2, ReadType
  <2>4. pc' \in [Threads -> PCs] /\ \A u \in Threads : u # t => pc'[u] = pc[u]
    BY <1>0, <1>2, GotoType
  <2>5. CASE Keep(t, "resources", n)
    BY <1>0, <2>3, <2>4, <2>5, KeepType DEF TypeInv, TypeOK, KnownInv
  <2>6. CASE Hit("resources", "resources", n)
    BY <1>0, <2>3, <2>4, <2>6, HitType DEF TypeInv, TypeOK, KnownInv
  <2>. QED
    BY <1>2, <2>5, <2>6 DEF Fetched
<1>3. CASE Lose(t) /\ End(t)
  BY <1>3, LoseType, EndType DEF TypeInv, TypeOK, KnownInv
<1>. QED
  BY <1>1, <1>2, <1>3

\* The three ways to go on with the list of CRDs.
LEMMA FetchCRDType ==
  ASSUME TypeInv, NEW t \in Threads, FetchCRD(t)
  PROVE  TypeInv'
<1> USE DEF FetchCRD, control
<1>0. /\ used[t] \in Reads /\ used[t].crds <= Len(log)
      /\ "crds" \in Values /\ "convert" \in PCs /\ "rendered" \in PCs
      /\ lastRv \in 0..Len(log) /\ lastRv \in 0..MaxRv
  BY Bounded DEF TypeInv, TypeOK, KnownInv, Values, PCs
<1>1. CASE /\ Ask(t, "crds", "crds") /\ UNCHANGED pc
           /\ Read(t, [used[t] EXCEPT !.since = lastRv])
  <2>1. /\ [used[t] EXCEPT !.since = lastRv] \in Reads
        /\ [used[t] EXCEPT !.since = lastRv].crds <= Len(log)
    BY <1>0, ReadsType
  <2>2. /\ used' \in [Threads -> Reads]
        /\ \A u \in Threads : used'[u].crds <= Len(log')
    BY <1>1, <2>1, ReadType
  <2>. QED
    BY <1>0, <1>1, <2>2, AskType DEF TypeInv, TypeOK, KnownInv
<1>2. ASSUME NEW n \in 0..Len(log), Goto(t, "convert"),
             Keep(t, "crds", n), Read(t, [used[t] EXCEPT !.crds = n])
      PROVE  TypeInv'
  <2>1. n \in 0..MaxRv /\ n <= Len(log)
    BY Bounded
  <2>2. /\ [used[t] EXCEPT !.crds = n] \in Reads
        /\ [used[t] EXCEPT !.crds = n].crds <= Len(log)
    BY <1>0, <2>1, ReadsType
  <2>3. /\ used' \in [Threads -> Reads]
        /\ \A u \in Threads : used'[u].crds <= Len(log')
    BY <1>2, <2>2, ReadType
  <2>4. pc' \in [Threads -> PCs] /\ \A u \in Threads : u # t => pc'[u] = pc[u]
    BY <1>0, <1>2, GotoType
  <2>. QED
    BY <1>0, <1>2, <2>3, <2>4, KeepType DEF TypeInv, TypeOK, KnownInv
<1>3. ASSUME NEW n \in 0..Len(log), Goto(t, "convert"), Hit("crds", "crds", n),
             Read(t, [used[t] EXCEPT !.crds = n, !.since = lastRv])
      PROVE  TypeInv'
  <2>1. n \in 0..MaxRv /\ n <= Len(log)
    BY Bounded
  <2>2. /\ [used[t] EXCEPT !.crds = n, !.since = lastRv] \in Reads
        /\ [used[t] EXCEPT !.crds = n, !.since = lastRv].crds <= Len(log)
    BY <1>0, <2>1 DEF Reads
  <2>3. /\ used' \in [Threads -> Reads]
        /\ \A u \in Threads : used'[u].crds <= Len(log')
    BY <1>3, <2>2, ReadType
  <2>4. pc' \in [Threads -> PCs] /\ \A u \in Threads : u # t => pc'[u] = pc[u]
    BY <1>0, <1>3, GotoType
  <2>. QED
    BY <1>0, <1>3, <2>3, <2>4, HitType DEF TypeInv, TypeOK, KnownInv
<1>4. CASE Lose(t) /\ Goto(t, "rendered") /\ UNCHANGED used
  BY <1>0, <1>4, LoseType, GotoType DEF TypeInv, TypeOK, KnownInv
<1>. QED
  BY <1>1, <1>2, <1>3, <1>4

LEMMA ConvertType ==
  ASSUME TypeInv, NEW t \in Threads, Convert(t)
  PROVE  TypeInv'
<1> DEFINE k == used[t].kind
           convertTo(v) == IF converted[k] # 0 THEN converted[k] ELSE v
<1>0. /\ used[t] \in Reads /\ used[t].crds \in 0..Len(log)
      /\ "rendered" \in PCs /\ 0 \in 0..MaxRv /\ 0 <= Len(log)
  <2>1. used[t] \in Reads /\ used[t].crds <= Len(log) /\ "rendered" \in PCs
    BY DEF TypeInv, TypeOK, KnownInv, PCs
  <2>. QED
    BY <2>1, Bounded DEF Reads
<1>1. /\ pc' \in [Threads -> PCs] /\ pc' = [pc EXCEPT ![t] = "rendered"]
      /\ pc[t] = "convert" /\ UNCHANGED <<log, cache, fresh, lock, got, mapper,
                                          seen, keys, lastRv, report, troubles>>
  BY <1>0, GotoType DEF Convert, Goto, values, control
<1>2. ASSUME NEW v \in 1..used[t].crds, VersionAt(k, v, used[t].crds),
             converted' = [converted EXCEPT ![k] = convertTo(v)],
             Read(t, [used[t] EXCEPT !.version = convertTo(v), !.crds = 0])
      PROVE  TypeInv'
  <2>1. v \in 1..Len(log) /\ v \in 0..MaxRv
    BY <1>0, Bounded
  <2>2. k \in Kinds
    BY <1>2, <2>1, LogType DEF VersionAt
  <2>3. convertTo(v) \in 0..MaxRv
    BY <2>1, <2>2 DEF TypeInv, TypeOK
  <2>4. converted' \in [Kinds -> 0..MaxRv]
    BY <1>2, <2>2, <2>3 DEF TypeInv, TypeOK
  <2>5. /\ [used[t] EXCEPT !.version = convertTo(v), !.crds = 0] \in Reads
        /\ [used[t] EXCEPT !.version = convertTo(v), !.crds = 0].crds = 0
    <3> HIDE DEF convertTo
    <3>. QED
      BY <1>0, <2>3 DEF Reads
  <2>6. used' \in [Threads -> Reads] /\ \A u \in Threads : used'[u].crds <= Len(log')
    <3> HIDE DEF convertTo
    <3>. QED
      BY <1>0, <1>1, <1>2, <2>5, ReadType
  <2>. QED
    BY <1>1, <2>4, <2>6 DEF TypeInv, TypeOK, KnownInv
<1>3. CASE Read(t, [used[t] EXCEPT !.crds = 0]) /\ UNCHANGED converted
  <2>1. [used[t] EXCEPT !.crds = 0] \in Reads /\ [used[t] EXCEPT !.crds = 0].crds = 0
    BY <1>0 DEF Reads
  <2>2. used' \in [Threads -> Reads] /\ \A u \in Threads : used'[u].crds <= Len(log')
    BY <1>0, <1>1, <1>3, <2>1, ReadType
  <2>. QED
    BY <1>1, <1>3, <2>2 DEF TypeInv, TypeOK, KnownInv
<1>. QED
  BY <1>2, <1>3 DEF Convert

LEMMA RenderedType ==
  ASSUME TypeInv, NEW t \in Threads, NextObject(t) \/ Apply(t)
  PROVE  TypeInv'
<1>0. /\ used[t] \in Reads /\ used[t].crds <= Len(log) /\ "object" \in PCs
      /\ Len(log) \in 0..MaxRv /\ 0 \in 0..MaxRv
  BY Bounded DEF TypeInv, TypeOK, KnownInv, PCs
<1>1. CASE NextObject(t)
  <2>1. PICK k \in Kinds : Read(t, [used[t] EXCEPT !.kind = k, !.since = 0, !.version = 0])
    BY <1>1 DEF NextObject
  <2>2. /\ [used[t] EXCEPT !.kind = k, !.since = 0, !.version = 0] \in Reads
        /\ [used[t] EXCEPT !.kind = k, !.since = 0, !.version = 0].crds = used[t].crds
    BY <1>0 DEF Reads
  <2>3. used' \in [Threads -> Reads] /\ \A u \in Threads : used'[u].crds <= Len(log')
    BY <1>0, <1>1, <2>1, <2>2, ReadType DEF NextObject
  <2>4. /\ pc' \in [Threads -> PCs] /\ pc[t] = "rendered"
        /\ \A u \in Threads : u # t => pc'[u] = pc[u]
    BY <1>0, <1>1, GotoType DEF NextObject
  <2>. QED
    BY <1>1, <2>3, <2>4 DEF NextObject, TypeInv, TypeOK, KnownInv, values, control
<1>2. CASE Apply(t)
  <2>1. mapper' \in 0..MaxRv
    BY <1>0, <1>2 DEF Apply, TypeInv, TypeOK
  <2>2. pc[t] = "rendered" /\ End(t) /\ UNCHANGED log
    BY <1>2 DEF Apply
  <2>. QED
    BY <1>2, <2>1, <2>2, EndType DEF Apply, TypeInv, TypeOK, KnownInv, values, control
<1>. QED
  BY <1>1, <1>2

LEMMA TypeNext == TypeInv /\ [Next]_vars => TypeInv'
<1> SUFFICES ASSUME TypeInv, [Next]_vars PROVE TypeInv'
  OBVIOUS
<1>0. /\ Len(log) \in Nat /\ Len(log) >= 1 /\ MaxRv \in Nat /\ 0 \in 0..MaxRv
      /\ MaxTroubles \in Nat
  BY Bounded, BoundsAssumption DEF BoundsAssumption
<1>1. ASSUME NEW c \in Change, ChangeCRD(c)
      PROVE  TypeInv'
  <2>1. /\ log' \in Seq(Change) /\ Len(log') = Len(log) + 1 /\ Len(log') \in 1..MaxRv
    BY <1>0, <1>1, AppendProperties DEF ChangeCRD, TypeInv, TypeOK
  <2>2. TypeOK'
    BY <1>0, <1>1, <2>1 DEF ChangeCRD, TypeInv, TypeOK, values, threads, control
  <2>3. KnownInv'
    <3>1. \A n \in 0..MaxRv : n <= Len(log) => n <= Len(log')
      BY <1>0, <2>1
    <3>2. /\ \A v \in Values : cache[v] \in 0..MaxRv
          /\ got \in 0..MaxRv /\ \A t \in Threads : used[t].crds \in 0..MaxRv
      BY DEF TypeInv, TypeOK, Reads
    <3>. QED
      BY <1>1, <3>1, <3>2 DEF ChangeCRD, TypeInv, KnownInv, values, threads
  <2>. QED
    BY <2>2, <2>3 DEF TypeInv
<1>2. ASSUME NEW v \in Values, Elapse(v)
      PROVE  TypeInv'
  BY <1>0, <1>2 DEF Elapse, Trouble, TypeInv, TypeOK, KnownInv, threads, control
<1>3. ASSUME NEW t \in Threads, Check(t)
      PROVE  TypeInv'
  <2>1. "schema" \in PCs /\ mapper' \in 0..MaxRv
    BY <1>0, <1>3 DEF Check, ResetMapper, TypeInv, TypeOK, PCs
  <2>2. /\ pc' \in [Threads -> PCs] /\ pc[t] = "idle"
        /\ \A u \in Threads : u # t => pc'[u] = pc[u]
    BY <1>3, <2>1, GotoType DEF Check
  <2>. QED
    BY <1>3, <2>1, <2>2 DEF Check, TypeInv, TypeOK, KnownInv, values, control
<1>4. ASSUME NEW t \in Threads, InRun(t)
      PROVE  TypeInv'
  BY <1>4, FetchSchemaType, FetchResourcesType, FetchCRDType, ConvertType, RenderedType
     DEF InRun
<1>5. CASE CheckOfREST
  BY <1>0, <1>5 DEF CheckOfREST, ResetMapper, TypeInv, TypeOK, KnownInv, values, threads,
     control
<1>6. CASE Deliver
  <2>1. seen' \in 1..Len(log)
    BY <1>0, <1>6 DEF Deliver, TypeInv, TypeOK
  <2>2. log[seen'].kind \in Kinds
    BY <2>1, LogType
  <2>. QED
    BY <1>6, <2>1, <2>2 DEF Deliver, TypeInv, TypeOK, KnownInv, values, threads
<1>7. ASSUME NEW k \in Kinds, Reconcile(k)
      PROVE  TypeInv'
  <2>1. report' \in 0..Len(log) /\ keys' \subseteq Kinds /\ troubles' \in 0..MaxTroubles
    <3>1. CASE Trouble /\ UNCHANGED <<keys, report>>
      BY <1>0, <3>1 DEF Trouble, TypeInv, TypeOK
    <3>2. CASE /\ Well /\ keys' = keys \ {k}
               /\ \E v \in 1..seen : report' = Reported(v)
      BY <1>0, <3>2 DEF Well, Reported, TypeInv, TypeOK
    <3>. QED
      BY <1>7, <3>1, <3>2 DEF Reconcile
  <2>. QED
    BY <1>7, <2>1 DEF Reconcile, TypeInv, TypeOK, KnownInv, values, threads
<1>8. CASE ExpireSchema
  BY <1>0, <1>8 DEF ExpireSchema, TypeInv, TypeOK, KnownInv, threads
<1>9. CASE UNCHANGED vars
  BY <1>9 DEF vars, TypeInv, TypeOK, KnownInv
<1>. QED
  BY <1>1, <1>2, <1>3, <1>4, <1>5, <1>6, <1>7, <1>8, <1>9 DEF Next

-----------------------------------------------------------------------------
(* What the runs see.                                                      *)

\* Where a run stands in a step that is not its own.
LEMMA FlightOfOthers ==
  ASSUME FlightInv, PickedUp, UNCHANGED <<cache, fresh, lock, got, pc, used, lastRv>>
  PROVE  FlightInv' /\ PickedUp'
BY DEF FlightInv, PickedUp

\* A thread goes on, not to work with a list of CRDs.
LEMMA FlightOfRun ==
  ASSUME TypeInv, FlightInv, PickedUp, NEW t \in Threads,
         UNCHANGED lastRv,
         cache'["crds"] = cache["crds"],
         "crds" \in fresh' => "crds" \in fresh,
         \A u \in Threads : u # t => pc'[u] = pc[u] /\ used'[u] = used[u],
         pc'[t] # "convert",
         lock' # "free" => \/ lock' = t /\ pc'[t] # "object"
                           \/ lock' = lock /\ lock # t /\ got' = got
  PROVE  FlightInv' /\ PickedUp'
<1>1. PickedUp'
  BY DEF PickedUp
<1>2. ("crds" \in fresh => cache["crds"] >= lastRv)'
  BY DEF FlightInv
<1>3. ASSUME lock' # "free", pc'[lock'] = "object"
      PROVE  /\ got' >= lastRv' /\ got' >= used'[lock'].since
             /\ got' >= cache'["crds"] /\ got' >= 1
  <2>1. lock' = lock /\ lock # t /\ got' = got
    BY <1>3
  <2>2. lock \in Threads
    BY <1>3, <2>1 DEF TypeInv, TypeOK
  <2>. QED
    BY <1>3, <2>1, <2>2 DEF FlightInv
<1>. QED
  BY <1>1, <1>2, <1>3 DEF FlightInv

\* The steps that fetch the schema and the resources.
LEMMA FlightOfFetch ==
  ASSUME TypeInv, FlightInv, PickedUp, NEW t \in Threads, FetchSchema(t) \/ FetchResources(t)
  PROVE  FlightInv' /\ PickedUp'
<1>0. /\ {"schema", "resources", "crds"} = Values
      /\ {"idle", "resources", "object"} \subseteq PCs
      /\ UNCHANGED <<log, lastRv>> /\ pc[t] \in {"schema", "resources"}
  BY DEF Values, PCs, FetchSchema, FetchResources, control
<1>1. ASSUME NEW v \in {"schema", "resources"}, Ask(t, v, "resources"), UNCHANGED threads
      PROVE  FlightInv' /\ PickedUp'
  <2>1. lock' = t /\ cache' = cache /\ fresh' = fresh /\ pc' = pc /\ used' = used
    BY <1>0, <1>1, AskType DEF threads
  <2>. QED
    BY <1>0, <2>1, FlightOfRun
<1>2. ASSUME NEW v \in {"schema", "resources"}, NEW n, Fetched(t, v, "resources", n),
             NEW l \in {"resources", "object"}, Goto(t, l), NEW r, Read(t, r)
      PROVE  FlightInv' /\ PickedUp'
  <2>1. /\ pc'[t] = l /\ \A u \in Threads : u # t => pc'[u] = pc[u]
        /\ \A u \in Threads : u # t => used'[u] = used[u]
    BY <1>0, <1>2, GotoType DEF Read, TypeInv, TypeOK
  <2>2. /\ lock' = "free" /\ cache'["crds"] = cache["crds"]
        /\ "crds" \in fresh' => "crds" \in fresh
    <3>1. v \in Values /\ "crds" \in Values /\ "resources" \in Values /\ v # "crds"
      BY <1>0
    <3>2. CASE Keep(t, v, n)
      <4>1. /\ lock' = "free" /\ fresh' = fresh \cup {v}
            /\ \A w \in Values : w # v => cache'[w] = cache[w]
        BY <1>0, <3>1, <3>2, KeepType
      <4>. QED
        BY <3>1, <4>1
    <3>3. CASE Hit(v, "resources", n)
      <4>1. lock = "free" /\ UNCHANGED values
        BY <3>3 DEF Hit
      <4>. QED
        BY <4>1 DEF values
    <3>. QED
      BY <1>2, <3>2, <3>3 DEF Fetched
  <2>. QED
    BY <1>0, <2>1, <2>2, FlightOfRun
<1>3. CASE Lose(t) /\ End(t)
  <2>1. lock' = "free" /\ UNCHANGED <<cache, fresh>>
    BY <1>0, <1>3, LoseType
  <2>2. /\ pc'[t] = "idle" /\ \A u \in Threads : u # t => pc'[u] = pc[u]
        /\ \A u \in Threads : u # t => used'[u] = used[u]
    BY <1>0, <1>3, EndType
  <2>. QED
    BY <1>0, <2>1, <2>2, FlightOfRun
<1>4. CASE FetchSchema(t)
  BY <1>1, <1>2, <1>3, <1>4 DEF FetchSchema
<1>5. CASE FetchResources(t)
  BY <1>1, <1>2, <1>3, <1>5 DEF FetchResources
<1>. QED
  BY <1>4, <1>5

\* The step that lists the CRDs.
LEMMA FlightOfCRD ==
  ASSUME TypeInv, FlightInv, PickedUp, NEW t \in Threads, FetchCRD(t)
  PROVE  FlightInv' /\ PickedUp'
<1>0. /\ "crds" \in Values /\ "convert" \in PCs /\ "rendered" \in PCs
      /\ used[t] \in Reads /\ lastRv \in 0..MaxRv /\ lastRv \in 0..Len(log)
      /\ UNCHANGED <<log, lastRv>> /\ pc[t] = "object" /\ Len(log) \in Nat
      /\ pc \in [Threads -> PCs] /\ used \in [Threads -> Reads]
  BY Bounded DEF TypeInv, TypeOK, Values, PCs, FetchCRD, control
<1>1. CASE /\ Ask(t, "crds", "crds") /\ UNCHANGED pc
           /\ Read(t, [used[t] EXCEPT !.since = lastRv])
  <2>1. lock' = t /\ got' = Len(log) /\ UNCHANGED <<cache, fresh>>
    BY <1>0, <1>1, AskType
  <2>3. Len(log) >= 1 /\ cache["crds"] <= Len(log)
    BY <1>0, Bounded DEF TypeInv, KnownInv
  <2>2. used'[t].since = lastRv /\ \A u \in Threads : u # t => used'[u] = used[u]
    <3>1. [used[t] EXCEPT !.since = lastRv].since = lastRv
      BY <1>0 DEF Reads
    <3>. QED
      BY <1>0, <1>1, <3>1 DEF Read
  <2>. QED
    BY <1>0, <1>1, <2>1, <2>2, <2>3 DEF FlightInv, PickedUp
<1>2. ASSUME NEW n \in 0..Len(log), Goto(t, "convert"),
             Keep(t, "crds", n), Read(t, [used[t] EXCEPT !.crds = n])
      PROVE  FlightInv' /\ PickedUp'
  <2>1. /\ lock = t /\ lock' = "free" /\ n = got /\ n \in 0..MaxRv
        /\ cache'["crds"] = n
    BY <1>0, <1>2, KeepType
  <2>2. t # "free" /\ n >= lastRv /\ n >= used[t].since
    BY <1>0, <2>1, ThreadsAssumption DEF ThreadsAssumption, FlightInv
  <2>3. /\ used'[t].crds = n /\ used'[t].since = used[t].since
        /\ \A u \in Threads : u # t => used'[u] = used[u] /\ pc'[u] = pc[u]
    <3>1. /\ [used[t] EXCEPT !.crds = n].crds = n
          /\ [used[t] EXCEPT !.crds = n].since = used[t].since
      BY <1>0 DEF Reads
    <3>. QED
      BY <1>0, <1>2, <3>1, GotoType DEF Read
  <2>. QED
    BY <1>0, <2>1, <2>2, <2>3 DEF FlightInv, PickedUp
<1>3. ASSUME NEW n \in 0..Len(log), Goto(t, "convert"), Hit("crds", "crds", n),
             Read(t, [used[t] EXCEPT !.crds = n, !.since = lastRv])
      PROVE  FlightInv' /\ PickedUp'
  <2>1. /\ lock = "free" /\ "crds" \in fresh /\ n = cache["crds"] /\ n \in 0..MaxRv
        /\ UNCHANGED <<cache, fresh, lock, got>>
    BY <1>0, <1>3, HitType
  <2>2. used'[t].crds = n /\ used'[t].since = lastRv
    BY <1>0, <1>3, <2>1 DEF Read, Reads
  <2>3. \A u \in Threads : u # t => used'[u] = used[u] /\ pc'[u] = pc[u]
    BY <1>0, <1>3, GotoType DEF Read
  <2>. QED
    BY <1>0, <2>1, <2>2, <2>3 DEF FlightInv, PickedUp
<1>4. CASE Lose(t) /\ Goto(t, "rendered") /\ UNCHANGED used
  <2>1. lock' = "free" /\ UNCHANGED <<cache, fresh>>
    BY <1>0, <1>4, LoseType
  <2>2. pc'[t] = "rendered" /\ \A u \in Threads : u # t => pc'[u] = pc[u]
    BY <1>0, <1>4, GotoType
  <2>. QED
    BY <1>0, <1>4, <2>1, <2>2, FlightOfRun
<1>. QED
  BY <1>1, <1>2, <1>3, <1>4 DEF FetchCRD

LEMMA FlightNext == TypeInv /\ FlightInv /\ PickedUp /\ [Next]_vars => FlightInv' /\ PickedUp'
<1> SUFFICES ASSUME TypeInv, FlightInv, PickedUp, [Next]_vars
             PROVE  FlightInv' /\ PickedUp'
  OBVIOUS
<1>1. ASSUME NEW t \in Threads, Check(t) \/ Convert(t) \/ NextObject(t) \/ Apply(t)
      PROVE  FlightInv' /\ PickedUp'
  <2>1. /\ UNCHANGED <<cache, fresh, lock, got, lastRv>>
        /\ pc[t] \in {"idle", "convert", "rendered"}
    BY <1>1 DEF Check, Convert, NextObject, Apply, values, control
  <2>2. lock # t
    BY <2>1, ThreadsAssumption DEF ThreadsAssumption, TypeInv, TypeOK
  <2>3. PICK l \in {"schema", "rendered", "object", "idle"} : pc' = [pc EXCEPT ![t] = l]
    BY <1>1 DEF Check, Convert, NextObject, Apply, Goto, End
  <2>4. \A u \in Threads : u # t => used'[u] = used[u]
    <3>1. UNCHANGED used \/ \E r : used' = [used EXCEPT ![t] = r]
      BY <1>1 DEF Check, Convert, NextObject, Apply, End, Read
    <3>. QED
      BY <3>1 DEF TypeInv, TypeOK
  <2>5. pc'[t] = l /\ \A u \in Threads : u # t => pc'[u] = pc[u]
    BY <2>3 DEF TypeInv, TypeOK
  <2>. QED
    BY <2>1, <2>2, <2>4, <2>5, FlightOfRun
<1>2. ASSUME NEW t \in Threads, InRun(t)
      PROVE  FlightInv' /\ PickedUp'
  BY <1>1, <1>2, FlightOfFetch, FlightOfCRD DEF InRun
<1>3. ASSUME NEW c \in Change, ChangeCRD(c)
      PROVE  FlightInv' /\ PickedUp'
  BY <1>3, FlightOfOthers DEF ChangeCRD, values, threads, control
<1>4. ASSUME NEW v \in Values, Elapse(v)
      PROVE  FlightInv' /\ PickedUp'
  BY <1>4 DEF Elapse, threads, control, FlightInv, PickedUp
<1>5. CASE CheckOfREST
  BY <1>5, FlightOfOthers DEF CheckOfREST, values, threads, control
<1>6. CASE Deliver
  BY <1>6, FlightOfOthers DEF Deliver, values, threads
<1>7. ASSUME NEW k \in Kinds, Reconcile(k)
      PROVE  FlightInv' /\ PickedUp'
  BY <1>7, FlightOfOthers DEF Reconcile, values, threads
<1>8. CASE ExpireSchema
  BY <1>8 DEF ExpireSchema, threads, FlightInv, PickedUp
<1>9. CASE UNCHANGED vars
  BY <1>9, FlightOfOthers DEF vars
<1>. QED
  BY <1>1, <1>2, <1>3, <1>4, <1>5, <1>6, <1>7, <1>8, <1>9 DEF Next

-----------------------------------------------------------------------------
(* What the CRD controller has handled.                                    *)

\* The version that is found of a kind is the last change of it.
LEMMA VersionIsLast ==
  ASSUME NEW k, NEW n \in Nat, NEW v \in 1..n, VersionAt(k, v, n),
         NEW u \in 1..n, log[u].kind = k
  PROVE  u <= v
BY DEF VersionAt

LEMMA HandledNext == TypeInv /\ HandledInv /\ [Next]_vars => HandledInv'
<1> SUFFICES ASSUME TypeInv, HandledInv, [Next]_vars PROVE HandledInv'
  OBVIOUS
<1>0. /\ Len(log) \in Nat /\ seen \in 0..Len(log)
      /\ lastRv \in 0..Len(log) /\ report \in 0..Len(log)
  BY Bounded DEF TypeInv, TypeOK
<1>1. CASE UNCHANGED <<log, seen, keys, lastRv, report>>
  BY <1>1 DEF HandledInv
<1>2. ASSUME NEW c \in Change, ChangeCRD(c)
      PROVE  HandledInv'
  <2>1. \A v \in 1..seen : log'[v] = log[v]
    BY <1>0, <1>2, AppendProperties DEF ChangeCRD, TypeInv, TypeOK
  <2>. QED
    BY <1>2, <2>1 DEF ChangeCRD, control, HandledInv
<1>3. CASE Deliver
  <2>1. /\ seen' = seen + 1 /\ keys' = keys \cup {log[seen'].kind}
        /\ UNCHANGED <<log, lastRv, report>>
    BY <1>3 DEF Deliver
  <2>2. ASSUME NEW v \in 1..seen'
        PROVE  log[v].kind \in keys' \/ v <= lastRv \/ v <= report
    <3>1. v \in 1..seen \/ v = seen'
      BY <1>0, <2>1
    <3>. QED
      BY <2>1, <3>1 DEF HandledInv
  <2>. QED
    BY <2>1, <2>2 DEF HandledInv
<1>4. ASSUME NEW k \in Kinds, Reconcile(k)
      PROVE  HandledInv'
  <2>1. CASE UNCHANGED <<keys, report>>
    BY <1>1, <1>4, <2>1 DEF Reconcile
  <2>2. ASSUME NEW v \in 1..seen, VersionAt(k, v, seen),
               report' = Reported(v), keys' = keys \ {k}
        PROVE  HandledInv'
    <3>1. report = 0 /\ UNCHANGED <<log, seen, lastRv>>
      BY <1>4 DEF Reconcile
    <3>2. ASSUME NEW u \in 1..seen
          PROVE  log[u].kind \in keys' \/ u <= lastRv \/ u <= report'
      <4>1. CASE log[u].kind = k
        <5>1. u <= v
          BY <1>0, <2>2, <4>1, VersionIsLast
        <5>. QED
          BY <1>0, <2>2, <5>1 DEF Reported
      <4>2. CASE log[u].kind # k
        BY <1>0, <2>2, <3>1, <4>2 DEF HandledInv
      <4>. QED
        BY <4>1, <4>2
    <3>3. report' # 0 => report' > lastRv
      BY <2>2 DEF Reported
    <3>. QED
      BY <3>1, <3>2, <3>3 DEF HandledInv
  <2>. QED
    BY <1>4, <2>1, <2>2 DEF Reconcile
<1>5. CASE ExpireSchema
  <2>1. /\ report # 0 /\ lastRv' = report /\ report' = 0
        /\ UNCHANGED <<log, seen, keys>>
    BY <1>5 DEF ExpireSchema
  <2>2. report > lastRv
    BY <2>1 DEF HandledInv
  <2>3. ASSUME NEW v \in 1..seen
        PROVE  log[v].kind \in keys \/ v <= report
    BY <1>0, <2>2 DEF HandledInv
  <2>. QED
    BY <2>1, <2>3 DEF HandledInv
<1>6. ASSUME NEW t \in Threads, Check(t) \/ InRun(t)
      PROVE  HandledInv'
  BY <1>1, <1>6 DEF Check, InRun, FetchSchema, FetchResources, FetchCRD, Convert, NextObject,
     Apply, control
<1>7. ASSUME NEW v \in Values, Elapse(v)
      PROVE  HandledInv'
  BY <1>1, <1>7 DEF Elapse, control
<1>8. CASE CheckOfREST
  BY <1>1, <1>8 DEF CheckOfREST, control
<1>9. CASE UNCHANGED vars
  BY <1>1, <1>9 DEF vars
<1>. QED
  BY <1>2, <1>3, <1>4, <1>5, <1>6, <1>7, <1>8, <1>9 DEF Next

-----------------------------------------------------------------------------
(* The theorems.                                                           *)

LEMMA IInvNext == IInv /\ [Next]_vars => IInv'
BY TypeNext, FlightNext, HandledNext DEF IInv

THEOREM InvariantHolds == Spec => []IInv
BY IInvInit, IInvNext, PTL DEF Spec

\* Every variable has its type, and only a thread that waits for a response
\* holds the mutex of the cache (schema_cache.go: Lock and the deferred Unlock
\* of the three fetches).
THEOREM TypeCorrect == Spec => []TypeOK
<1>1. IInv => TypeOK
  BY DEF IInv, TypeInv
<1>. QED
  BY <1>1, InvariantHolds, PTL

\* The CRDs an object is rendered with are no older than the change the cache
\* was last reset for when they were asked for (FetchCRD and ExpireSchema).
THEOREM PickedUpCorrect == Spec => []PickedUp
<1>1. IInv => PickedUp
  BY DEF IInv
<1>. QED
  BY <1>1, InvariantHolds, PTL

\* Comparing the resourceVersions of all CRDs with one maximum loses no change
\* (CRDReconciler.reconcileV1): a list of CRDs that counts as current has all
\* that was seen and is no longer queued.
THEOREM NothingMissedCorrect == Spec => []NothingMissed
<1>1. ASSUME IInv, report = 0, "crds" \in fresh, NEW v \in 1..seen, log[v].kind \notin keys
      PROVE  cache["crds"] >= v
  <2>1. seen \in Nat /\ lastRv \in Nat /\ cache["crds"] \in Nat
    BY <1>1, Bounded DEF IInv, TypeInv, TypeOK, Values
  <2>2. v <= lastRv
    BY <1>1, <2>1 DEF IInv, HandledInv
  <2>3. cache["crds"] >= lastRv
    BY <1>1 DEF IInv, FlightInv
  <2>. QED
    BY <2>1, <2>2, <2>3
<1>2. IInv => NothingMissed
  BY <1>1 DEF NothingMissed
<1>. QED
  BY <1>2, InvariantHolds, PTL

-----------------------------------------------------------------------------
(* The refinement of ExpiringList.                                         *)

\* What a thread asked for, and the list it works with.
Asked  == [t \in Threads |-> used[t].since]
Served == [t \in Threads |-> IF pc[t] = "convert" THEN used[t].crds ELSE 0]

LEMMA ExpiringInit == Init => Expiring!Init
BY DEF Init, Expiring!Init, Nothing, Values

\* A step of one thread that is not about CRDs: it goes on, or it is done with
\* its list, or with its run.
LEMMA ThreadLeaves ==
  ASSUME NEW t \in Threads, UNCHANGED <<log, lastRv>>, cache'["crds"] = cache["crds"],
         \A u \in Threads : u # t => pc'[u] = pc[u] /\ used'[u] = used[u],
         pc'[t] # "convert",
         used'[t].since \in {used[t].since, 0}
  PROVE  Expiring!Next
<1>1. Served' = [Served EXCEPT ![t] = 0]
  BY DEF Served
<1>2. CASE used'[t].since = used[t].since
  <2>1. Asked' = Asked
    BY <1>2 DEF Asked
  <2>. QED
    BY <1>1, <2>1 DEF Asked, Served, Expiring!Next, Expiring!Leave
<1>3. CASE used'[t].since = 0
  <2>1. Asked' = [Asked EXCEPT ![t] = 0]
    BY <1>3 DEF Asked
  <2>. QED
    BY <1>1, <2>1 DEF Asked, Served, Expiring!Next, Expiring!Leave
<1>. QED
  BY <1>2, <1>3

LEMMA FetchExpires ==
  ASSUME TypeInv, NEW t \in Threads, FetchSchema(t) \/ FetchResources(t)
  PROVE  Expiring!Next
<1>0. /\ {"schema", "resources", "crds"} = Values /\ used[t] \in Reads
      /\ {"idle", "resources", "object", "schema"} \subseteq PCs
      /\ UNCHANGED <<log, lastRv>> /\ pc[t] \in {"schema", "resources"}
  BY DEF Values, PCs, FetchSchema, FetchResources, control, TypeInv, TypeOK
<1>1. ASSUME NEW v \in {"schema", "resources"}, Ask(t, v, "resources"), UNCHANGED threads
      PROVE  Expiring!Next
  <2>1. cache' = cache /\ pc' = pc /\ used' = used
    BY <1>0, <1>1, AskType DEF threads
  <2>. QED
    BY <1>0, <2>1, ThreadLeaves
<1>2. ASSUME NEW v \in {"schema", "resources"}, NEW n, Fetched(t, v, "resources", n),
             NEW l \in {"resources", "object"}, Goto(t, l),
             NEW r, Read(t, r), r.since = used[t].since
      PROVE  Expiring!Next
  <2>1. /\ pc'[t] = l /\ used'[t] = r
        /\ \A u \in Threads : u # t => pc'[u] = pc[u] /\ used'[u] = used[u]
    BY <1>0, <1>2, GotoType DEF Read, TypeInv, TypeOK
  <2>2. cache'["crds"] = cache["crds"]
    <3>1. v \in Values /\ "crds" \in Values /\ v # "crds"
      BY <1>0
    <3>2. CASE Keep(t, v, n)
      BY <3>1, <3>2, KeepType, <1>0
    <3>3. CASE Hit(v, "resources", n)
      BY <3>3 DEF Hit, values
    <3>. QED
      BY <1>2, <3>2, <3>3 DEF Fetched
  <2>. QED
    BY <1>0, <1>2, <2>1, <2>2, ThreadLeaves
<1>3. CASE Lose(t) /\ End(t)
  <2>1. UNCHANGED cache /\ used'[t].since = 0
    BY <1>0, <1>3, LoseType DEF End, Read, Nothing, TypeInv, TypeOK
  <2>2. /\ pc'[t] = "idle"
        /\ \A u \in Threads : u # t => pc'[u] = pc[u] /\ used'[u] = used[u]
    BY <1>0, <1>3, EndType
  <2>. QED
    BY <1>0, <2>1, <2>2, ThreadLeaves
<1>4. \A n : [used[t] EXCEPT !.schema = n].since = used[t].since
  BY <1>0 DEF Reads
<1>5. \A k : [used[t] EXCEPT !.kind = k].since = used[t].since
  BY <1>0 DEF Reads
<1>6. CASE FetchSchema(t)
  BY <1>1, <1>2, <1>3, <1>4, <1>6 DEF FetchSchema
<1>7. CASE FetchResources(t)
  BY <1>1, <1>2, <1>3, <1>5, <1>7 DEF FetchResources
<1>. QED
  BY <1>6, <1>7

\* A thread asks for the list of CRDs, is served, or goes on without.
LEMMA CRDExpires ==
  ASSUME TypeInv, FlightInv, NEW t \in Threads, FetchCRD(t)
  PROVE  Expiring!Next
<1>0. /\ "crds" \in Values /\ "convert" \in PCs /\ "rendered" \in PCs
      /\ used[t] \in Reads /\ lastRv \in 0..MaxRv
      /\ UNCHANGED <<log, lastRv>> /\ pc[t] = "object" /\ Len(log) \in Nat
      /\ pc \in [Threads -> PCs] /\ used \in [Threads -> Reads]
      /\ cache["crds"] \in Nat /\ t # "free"
  <2>1. /\ "crds" \in Values /\ "convert" \in PCs /\ "rendered" \in PCs
        /\ UNCHANGED <<log, lastRv>> /\ pc[t] = "object"
    BY DEF Values, PCs, FetchCRD, control
  <2>2. /\ pc \in [Threads -> PCs] /\ used \in [Threads -> Reads]
        /\ cache["crds"] \in 0..MaxRv /\ lastRv \in 0..Len(log)
    BY <2>1 DEF TypeInv, TypeOK
  <2>3. Len(log) \in Nat /\ lastRv \in 0..MaxRv /\ t # "free"
    BY <2>2, Bounded, ThreadsAssumption DEF ThreadsAssumption
  <2>. QED
    BY <2>1, <2>2, <2>3
<1>1. Served[t] = 0
  BY <1>0 DEF Served
<1>2. CASE /\ Ask(t, "crds", "crds") /\ UNCHANGED pc
           /\ Read(t, [used[t] EXCEPT !.since = lastRv])
  <2>1. UNCHANGED cache
    BY <1>0, <1>2, AskType
  <2>2. /\ used'[t].since = lastRv /\ used'[t].crds = used[t].crds
        /\ \A u \in Threads : u # t => used'[u] = used[u]
    BY <1>0, <1>2 DEF Read, Reads
  <2>3. Asked' = [Asked EXCEPT ![t] = lastRv] /\ Served' = Served
    BY <1>2, <2>2 DEF Asked, Served
  <2>. QED
    BY <1>0, <1>1, <2>1, <2>3 DEF Asked, Served, Expiring!Next, Expiring!Ask
<1>3. ASSUME NEW n \in 1..Len(log), n >= cache["crds"], cache'["crds"] = n,
             Goto(t, "convert"), used'[t].crds = n, n >= used'[t].since,
             used'[t].since \in {used[t].since, lastRv},
             \A u \in Threads : u # t => used'[u] = used[u]
      PROVE  Expiring!Next
  <2>1. Served' = [Served EXCEPT ![t] = n]
    BY <1>0, <1>3, GotoType DEF Served
  <2>2. Asked' \in {Asked, [Asked EXCEPT ![t] = lastRv]}
    <3>1. CASE used'[t].since = used[t].since
      BY <1>3, <3>1 DEF Asked
    <3>2. CASE used'[t].since = lastRv
      BY <1>3, <3>2 DEF Asked
    <3>. QED
      BY <1>3, <3>1, <3>2
  <2>3. n >= Asked'[t]
    BY <1>3 DEF Asked
  <2>. QED
    BY <1>0, <1>1, <1>3, <2>1, <2>2, <2>3 DEF Asked, Served, Expiring!Next, Expiring!Serve
<1>4. ASSUME NEW n \in 0..Len(log), Goto(t, "convert"),
             Keep(t, "crds", n), Read(t, [used[t] EXCEPT !.crds = n])
      PROVE  Expiring!Next
  <2>1. lock = t /\ n = got /\ cache'["crds"] = n
    BY <1>0, <1>4, KeepType
  <2>2. n >= used[t].since /\ n >= cache["crds"] /\ n \in 1..Len(log)
    BY <1>0, <2>1 DEF FlightInv
  <2>3. /\ used'[t].crds = n /\ used'[t].since = used[t].since
        /\ \A u \in Threads : u # t => used'[u] = used[u]
    BY <1>0, <1>4 DEF Read, Reads
  <2>. QED
    BY <1>3, <1>4, <2>1, <2>2, <2>3
<1>5. ASSUME NEW n \in 0..Len(log), Goto(t, "convert"), Hit("crds", "crds", n),
             Read(t, [used[t] EXCEPT !.crds = n, !.since = lastRv])
      PROVE  Expiring!Next
  <2>1. "crds" \in fresh /\ n = cache["crds"] /\ n # 0 /\ UNCHANGED cache
    BY <1>0, <1>5 DEF Hit, Stale, values
  <2>2. n >= lastRv /\ n \in 1..Len(log)
    BY <1>0, <2>1 DEF FlightInv
  <2>3. /\ used'[t].crds = n /\ used'[t].since = lastRv
        /\ \A u \in Threads : u # t => used'[u] = used[u]
    BY <1>0, <1>5 DEF Read, Reads
  <2>. QED
    BY <1>0, <1>3, <1>5, <2>1, <2>2, <2>3
<1>6. CASE Lose(t) /\ Goto(t, "rendered") /\ UNCHANGED used
  BY <1>0, <1>6, LoseType, GotoType, ThreadLeaves
<1>. QED
  BY <1>2, <1>4, <1>5, <1>6 DEF FetchCRD

\* The other steps of a thread.
LEMMA RunExpires ==
  ASSUME TypeInv, NEW t \in Threads, Check(t) \/ Convert(t) \/ NextObject(t) \/ Apply(t)
  PROVE  Expiring!Next
<1>0. /\ used \in [Threads -> Reads] /\ pc \in [Threads -> PCs]
      /\ UNCHANGED <<log, lastRv, cache>>
  BY DEF TypeInv, TypeOK, Check, Convert, NextObject, Apply, values, control
<1>1. PICK l \in {"schema", "rendered", "object", "idle"} : pc' = [pc EXCEPT ![t] = l]
  BY DEF Check, Convert, NextObject, Apply, Goto, End
<1>2. pc'[t] = l /\ \A u \in Threads : u # t => pc'[u] = pc[u]
  BY <1>0, <1>1
<1>3. /\ \A u \in Threads : u # t => used'[u] = used[u]
      /\ used'[t].since \in {used[t].since, 0}
  <2>1. CASE Check(t)
    BY <2>1 DEF Check
  <2>2. CASE Convert(t)
    <3>1. \/ used' = [used EXCEPT ![t] = [used[t] EXCEPT !.crds = 0]]
          \/ \E v : used' = [used EXCEPT ![t] = [used[t] EXCEPT !.version = v, !.crds = 0]]
      BY <2>2 DEF Convert, Read
    <3>2. \A v : [used[t] EXCEPT !.version = v, !.crds = 0].since = used[t].since
      BY <1>0 DEF Reads
    <3>3. [used[t] EXCEPT !.crds = 0].since = used[t].since
      BY <1>0 DEF Reads
    <3>. QED
      BY <1>0, <3>1, <3>2, <3>3
  <2>3. CASE NextObject(t)
    <3>1. PICK k \in Kinds :
            used' = [used EXCEPT ![t] =
                       [used[t] EXCEPT !.kind = k, !.since = 0, !.version = 0]]
      BY <2>3 DEF NextObject, Read
    <3>2. [used[t] EXCEPT !.kind = k, !.since = 0, !.version = 0].since = 0
      BY <1>0 DEF Reads
    <3>. QED
      BY <1>0, <3>1, <3>2
  <2>4. CASE Apply(t)
    BY <1>0, <2>4 DEF Apply, End, Read, Nothing
  <2>. QED
    BY <2>1, <2>2, <2>3, <2>4
<1>. QED
  BY <1>0, <1>2, <1>3, ThreadLeaves

LEMMA ExpiringStep ==
  IInv /\ [Next]_vars
    => [Expiring!Next]_<<Len(log), lastRv, cache["crds"], Asked, Served>>
<1> SUFFICES ASSUME IInv, [Next]_vars
             PROVE  \/ Expiring!Next
                    \/ UNCHANGED <<Len(log), lastRv, cache["crds"], Asked, Served>>
  OBVIOUS
<1>0. TypeInv /\ FlightInv /\ HandledInv
  BY DEF IInv
<1>1. CASE UNCHANGED <<log, lastRv, cache, pc, used>>
  BY <1>1 DEF Asked, Served
<1>2. ASSUME NEW c \in Change, ChangeCRD(c)
      PROVE  Expiring!Next
  <2>1. Len(log') = Len(log) + 1
    BY <1>0, <1>2, AppendProperties DEF ChangeCRD, TypeInv, TypeOK
  <2>. QED
    BY <1>2, <2>1
       DEF ChangeCRD, values, threads, control, Expiring!Next, Expiring!Change
<1>3. ASSUME NEW t \in Threads, Check(t) \/ InRun(t)
      PROVE  Expiring!Next
  BY <1>0, <1>3, FetchExpires, CRDExpires, RunExpires DEF InRun
<1>4. CASE ExpireSchema
  <2>1. /\ lastRv' = report /\ report \in (lastRv + 1)..Len(log)
        /\ UNCHANGED <<log, cache, pc, used>>
    BY <1>0, <1>4 DEF ExpireSchema, threads, HandledInv, TypeInv, TypeOK
  <2>. QED
    BY <2>1 DEF Expiring!Next, Expiring!Reset
<1>5. ASSUME NEW v \in Values, Elapse(v)
      PROVE  UNCHANGED <<log, lastRv, cache, pc, used>>
  BY <1>5 DEF Elapse, threads, control
<1>6. CASE CheckOfREST
  BY <1>1, <1>6 DEF CheckOfREST, values, threads, control
<1>7. CASE Deliver
  BY <1>1, <1>7 DEF Deliver, values, threads
<1>8. ASSUME NEW k \in Kinds, Reconcile(k)
      PROVE  UNCHANGED <<log, lastRv, cache, pc, used>>
  BY <1>8 DEF Reconcile, values, threads
<1>9. CASE UNCHANGED vars
  BY <1>1, <1>9 DEF vars
<1>. QED
  BY <1>1, <1>2, <1>3, <1>4, <1>5, <1>6, <1>7, <1>8, <1>9 DEF Next

\* The cache implements ExpiringList: later readers get no older lists, none
\* that is older than the last reset before they asked, and the CRD controller
\* only resets it for later changes (SchemaCache, CRDReconciler.Reconcile).
THEOREM ExpiringListCorrect == Spec => ImplementsExpiringList
<1>1. IInv /\ [Next]_vars
        => [Expiring!Next]_<<Len(log), lastRv, cache["crds"],
                             [t \in Threads |-> used[t].since],
                             [t \in Threads |-> IF pc[t] = "convert" THEN used[t].crds ELSE 0]>>
  BY ExpiringStep DEF Asked, Served
<1>. QED
  BY <1>1, ExpiringInit, InvariantHolds, PTL DEF Spec, ImplementsExpiringList, Expiring!Spec
=============================================================================
