-------------------------- MODULE MinerResultProof --------------------------
(***************************************************************************)
(* The way of a result from its engine to the firmware: it is in one place  *)
(* at a time, it is neither doubled nor lost unnoticed, and it comes to the *)
(* register once.  With MinerCycleProof this is the inductive invariant Inv *)
(* of MinerCore, which every step keeps.                                    *)
(***************************************************************************)
EXTENDS MinerCycleProof

(* The way of a result from its engine to the register.                     *)

\* The entries of a queue that are not in the register already.
Queued(c) == {i \in DOMAIN clus[c].queue : c \in pop => i > 1}
InQueue(c, h) == \E i \in Queued(c) : h = clus[c].queue[i]
InStage2(c, h) == h # None /\ h = clus[c].stage2
InStage1(c, h) == h \in clus[c].stage1
InEngine(c, h) == h # None /\ \E e \in InCluster(c) : h = eng[e].valid

\* A pop takes place in the cycle after the register took the head.
Popping == pop # {} => result # None

\* An entry was in the queue one cycle before, or comes from stage 2.
LEMMA QueueStep ==
  ASSUME TypeOK, Popping, NEW w, NEW hits, Cycle(w, hits), NEW c \in Clusters, NEW i \in Queued(c)'
  PROVE  /\ ~clus[c].clear
         /\ \/ \E k \in Queued(c) :
                 /\ k = IF c \in pop THEN i + 1 ELSE i
                 /\ clus'[c].queue[i] = clus[c].queue[k] /\ (Takes(c) => k > 1)
            \/ /\ clus[c].stage2 # None /\ clus'[c].queue[i] = clus[c].stage2
               /\ i = Len(clus'[c].queue)
  <1>1. PICK r, m : r = clus[c] /\ m = clus'[c]
    OBVIOUS
  <1>2. ClusterMoves(c) /\ r.queue \in Seq(Hits) /\ m.queue \in Seq(Hits)
    BY <1>1 DEF Cycle, TypeOK, ClusterType
  <1>3. i \in DOMAIN m.queue /\ (c \in pop' => i > 1)
    BY <1>1 DEF Queued
  <1>4. ~r.clear
    BY <1>1, <1>2, <1>3 DEF ClusterMoves, Empty
  <1>5. PICK kept : /\ kept = IF DoPop(c) THEN Tail(r.queue) ELSE r.queue
                    /\ m.queue = IF DoPush(c) THEN Append(kept, r.stage2) ELSE kept
    BY <1>1, <1>2, <1>4 DEF ClusterMoves
  <1>6. kept \in Seq(Hits)
    <2>1. DoPop(c) => r.queue # <<>>
      BY <1>1 DEF DoPop
    <2> QED
      BY <1>2, <1>5, <2>1
  <1>7. Takes(c) => c \notin pop /\ i > 1
    BY <1>3 DEF Takes, Popping
  <1>8. CASE i \in DOMAIN kept
    <2>1. m.queue[i] = kept[i]
      BY <1>5, <1>6, <1>8
    <2>2. CASE c \in pop
      <3>1. r.queue # <<>>
        BY <1>1, <1>2, <1>5, <1>6, <1>8 DEF DoPop
      <3>2. kept = Tail(r.queue)
        BY <1>1, <1>5, <2>2, <3>1 DEF DoPop
      <3>3. i + 1 \in DOMAIN r.queue /\ kept[i] = r.queue[i + 1] /\ i + 1 > 1
        BY <1>2, <1>8, <3>1, <3>2
      <3>4. i + 1 \in Queued(c)
        BY <1>1, <3>3 DEF Queued
      <3> QED
        BY <1>1, <1>4, <2>1, <2>2, <3>3, <3>4
    <2>3. CASE c \notin pop
      <3>1. kept = r.queue
        BY <1>5, <2>3 DEF DoPop
      <3>2. i \in Queued(c)
        BY <1>1, <1>8, <2>3, <3>1 DEF Queued
      <3> QED
        BY <1>1, <1>4, <1>7, <2>1, <2>3, <3>1, <3>2
    <2> QED
      BY <2>2, <2>3
  <1>9. CASE i \notin DOMAIN kept
    <2>1. DoPush(c)
      BY <1>3, <1>5, <1>9
    <2>2. r.stage2 \in Hits
      BY <1>1, <2>1 DEF DoPush, TypeOK, ClusterType
    <2>3. i = Len(m.queue) /\ m.queue[i] = r.stage2
      BY <1>3, <1>5, <1>6, <1>9, <2>1, <2>2
    <2> QED
      BY <1>1, <1>4, <2>1, <2>3 DEF DoPush
  <1> QED
    BY <1>8, <1>9

\* Nothing that is in a queue or in stage 2 leaves it unnoticed.
LEMMA QueueKeeps ==
  ASSUME TypeOK, Popping, NEW w, NEW hits, Cycle(w, hits), NEW c \in Clusters, ~clus[c].clear, NEW h
  PROVE  /\ InQueue(c, h) => InQueue(c, h)' \/ (Takes(c) /\ result' = h)
         /\ InStage2(c, h) => InQueue(c, h)' \/ h \in Lost(c)
  <1>1. PICK r, m : r = clus[c] /\ m = clus'[c]
    OBVIOUS
  <1>2. ClusterMoves(c) /\ r.queue \in Seq(Hits) /\ m.queue \in Seq(Hits)
    BY <1>1 DEF Cycle, TypeOK, ClusterType
  <1>3. PICK kept : /\ kept = IF DoPop(c) THEN Tail(r.queue) ELSE r.queue
                    /\ m.queue = IF DoPush(c) THEN Append(kept, r.stage2) ELSE kept
    BY <1>1, <1>2 DEF ClusterMoves
  <1>4. kept \in Seq(Hits)
    <2>1. DoPop(c) => r.queue # <<>>
      BY <1>1 DEF DoPop
    <2> QED
      BY <1>2, <1>3, <2>1
  <1>5. c \in pop' => Takes(c) /\ c \notin pop
    BY DEF Cycle, Holds, Takes, Popping
  <1>6. \A i \in DOMAIN kept : i \in DOMAIN m.queue /\ m.queue[i] = kept[i]
    BY <1>3, <1>4
  <1>7. ASSUME NEW k \in Queued(c), h = r.queue[k]
        PROVE  InQueue(c, h)' \/ (Takes(c) /\ result' = h)
    <2>1. k \in DOMAIN r.queue /\ (c \in pop => k > 1)
      BY <1>1 DEF Queued
    <2>2. CASE c \in pop
      <3>1. r.queue # <<>> /\ kept = Tail(r.queue)
        BY <1>1, <1>2, <1>3, <2>1, <2>2 DEF DoPop
      <3>2. k - 1 \in DOMAIN kept /\ kept[k - 1] = h
        BY <1>2, <1>7, <2>1, <2>2, <3>1
      <3>3. k - 1 \in Queued(c)' /\ h = m.queue[k - 1]
        BY <1>1, <1>5, <1>6, <2>2, <3>2 DEF Queued
      <3> QED
        BY <1>1, <3>3 DEF InQueue
    <2>3. CASE c \notin pop
      <3>1. kept = r.queue
        BY <1>3, <2>3 DEF DoPop
      <3>2. CASE c \in pop' /\ k = 1
        BY <1>1, <1>5, <1>7, <3>2 DEF Takes
      <3>3. CASE c \notin pop' \/ k # 1
        <4>1. k \in Queued(c)' /\ h = m.queue[k]
          BY <1>1, <1>2, <1>6, <1>7, <2>1, <3>1, <3>3 DEF Queued
        <4> QED
          BY <1>1, <4>1 DEF InQueue
      <3> QED
        BY <3>2, <3>3
    <2> QED
      BY <2>2, <2>3
  <1>8. ASSUME h # None, h = r.stage2
        PROVE  InQueue(c, h)' \/ h \in Lost(c)
    <2>1. CASE DoPush(c)
      <3>1. PICK k : k = Len(kept) + 1
        OBVIOUS
      <3>2. h \in Hits
        BY <1>1, <1>8 DEF TypeOK, ClusterType
      <3>3. k \in DOMAIN m.queue /\ m.queue[k] = h
        BY <1>3, <1>4, <1>8, <2>1, <3>1, <3>2
      <3>4. c \in pop' => k > 1
        <4>1. c \in pop' => r.queue # <<>> /\ kept = r.queue
          BY <1>1, <1>3, <1>5 DEF Takes, DoPop
        <4> QED
          BY <1>2, <3>1, <4>1
      <3>5. k \in Queued(c)'
        BY <1>1, <3>3, <3>4 DEF Queued
      <3> QED
        BY <1>1, <3>3, <3>5 DEF InQueue
    <2>2. CASE ~DoPush(c)
      BY <1>1, <1>8, <2>2 DEF Lost
    <2> QED
      BY <2>1, <2>2
  <1> QED
    BY <1>1, <1>7, <1>8 DEF InQueue, InStage2

\* What is in a FIFO was there a cycle before, or was an engine's result.
LEMMA StageStep ==
  ASSUME TypeOK, NEW w, NEW hits, Cycle(w, hits), NEW c \in Clusters, NEW h
  PROVE  /\ InStage1(c, h)' => ~clus[c].clear /\ InEngine(c, h)
         /\ InStage2(c, h)' => ~clus[c].clear /\ InStage1(c, h)
  <1>1. PICK r, m : r = clus[c] /\ m = clus'[c]
    OBVIOUS
  <1>2. ClusterMoves(c) /\ Counted(c)
    BY DEF Cycle
  <1>3. ASSUME h \in m.stage1
        PROVE  ~r.clear /\ InEngine(c, h)
    <2>1. ~r.clear /\ h \in Arrived(c)
      BY <1>1, <1>2, <1>3 DEF ClusterMoves, Empty
    <2> QED
      BY <2>1 DEF Arrived, InEngine
  <1>4. ASSUME h # None, h = m.stage2
        PROVE  ~r.clear /\ h \in r.stage1
    <2>1. ~r.clear /\ r.stage1 # {} /\ h = Winner(r.stage1)
      BY <1>1, <1>2, <1>4 DEF ClusterMoves, Empty
    <2> QED
      BY <1>1, <1>2, <2>1 DEF Counted
  <1> QED
    BY <1>1, <1>3, <1>4 DEF InStage1, InStage2

\* The same for the FIFO as a whole.
LEMMA InsideStep ==
  ASSUME TypeOK, Popping, NEW w, NEW hits, Cycle(w, hits), NEW c \in Clusters, NEW h, Inside(c, h)'
  PROVE  Inside(c, h) \/ InEngine(c, h)
  <1>1. CASE h \in clus'[c].stage1
    BY <1>1, StageStep DEF InStage1
  <1>2. CASE h # None /\ h = clus'[c].stage2
    BY <1>2, StageStep DEF InStage1, InStage2, Inside
  <1>3. ASSUME NEW i \in DOMAIN clus'[c].queue, h = clus'[c].queue[i]
        PROVE  Inside(c, h)
    <2>1. PICK r, m : r = clus[c] /\ m = clus'[c]
      OBVIOUS
    <2>2. ClusterMoves(c) /\ r.queue \in Seq(Hits) /\ m.queue \in Seq(Hits) /\ r.stage2 \in Hits \cup {None}
      BY <2>1 DEF Cycle, TypeOK, ClusterType
    <2>3. ~r.clear
      BY <1>3, <2>1, <2>2 DEF ClusterMoves, Empty
    <2>4. PICK kept : /\ kept = IF DoPop(c) THEN Tail(r.queue) ELSE r.queue
                      /\ m.queue = IF DoPush(c) THEN Append(kept, r.stage2) ELSE kept
      BY <2>1, <2>2, <2>3 DEF ClusterMoves
    <2>5. DoPop(c) => r.queue # <<>>
      BY <2>1 DEF DoPop
    <2>6. DoPush(c) => r.stage2 # None
      BY <2>1 DEF DoPush
    <2>7. kept \in Seq(Hits) /\ \A k \in DOMAIN kept : \E j \in DOMAIN r.queue : kept[k] = r.queue[j]
      <3>1. CASE DoPop(c)
        <4>1. kept = Tail(r.queue) /\ r.queue # <<>>
          BY <2>4, <2>5, <3>1
        <4>2. \A k \in DOMAIN kept : k + 1 \in DOMAIN r.queue /\ kept[k] = r.queue[k + 1]
          BY <2>2, <4>1
        <4> QED
          BY <2>2, <4>1, <4>2
      <3>2. CASE ~DoPop(c)
        BY <2>2, <2>4, <3>2
      <3> QED
        BY <3>1, <3>2
    <2>8. (i \in DOMAIN kept /\ h = kept[i]) \/ (DoPush(c) /\ h = r.stage2)
      <3>1. CASE DoPush(c)
        <4>1. m.queue = Append(kept, r.stage2) /\ r.stage2 \in Hits
          BY <2>2, <2>4, <2>6, <3>1
        <4> QED
          BY <1>3, <2>1, <2>7, <3>1, <4>1
      <3>2. CASE ~DoPush(c)
        BY <1>3, <2>1, <2>4, <3>2
      <3> QED
        BY <3>1, <3>2
    <2> QED
      BY <2>1, <2>6, <2>7, <2>8 DEF Inside
  <1> QED
    BY <1>1, <1>2, <1>3 DEF Inside

\* A genuine result stays so.
LEMMA GenuineStays ==
  ASSUME TypeOK, NEW h, Genuine(h),
         \/ job' = job /\ scanned \subseteq scanned' /\ (Searching' => Searching)
         \/ job' = job + 1 /\ ~Searching'
  PROVE  Genuine(h)'
  <1>1. h.id.job \in Nat /\ job \in Nat
    BY DEF Genuine, Hits, Nonce, TypeOK
  <1> QED
    BY <1>1 DEF Genuine, Hits, Nonce, Engines

\* A valid pulse carries the nonce that the engine compared in this cycle.
LEMMA EngineHit ==
  ASSUME TypeOK, EngineInv, NEW w, NEW hits, Cycle(w, hits), NEW e \in Engines, eng'[e].valid # None
  PROVE  /\ e \in hits /\ e \in Comparing /\ eng[e].work = job
         /\ eng'[e].valid = [id |-> NonceOf(eng[e], e), of |-> NonceOf(eng[e], e)]
         /\ NonceOf(eng[e], e) \in Nonce
  <1>1. EngineMoves(e, e \in hits) /\ hits \subseteq Comparing
    BY DEF Cycle, EnginesMove
  <1>2. "stop" \notin pulse /\ eng[e].state # "idle"
    BY <1>1, Zenon DEF EngineMoves
  <1>3. eng'[e].valid = IF e \in hits THEN [id |-> NonceOf(eng[e], e), of |-> NonceOf(eng[e], e)] ELSE None
    BY <1>1, <1>2, Zenon DEF EngineMoves
  <1>4. eng[e].work = job /\ eng[e] \in EngineType
    BY <1>2 DEF EngineInv, TypeOK
  <1> QED
    BY <1>1, <1>3, <1>4, NonceType

\* Every step but START, which finds nothing to keep.
LEMMA ResultsStep ==
  ASSUME TypeOK, EngineInv, Scanning, Popping, Results, NEW w, NEW hits, Cycle(w, hits),
         \/ job' = job /\ (Searching' => Searching)
         \/ job' = job + 1 /\ ~Searching' /\ Comparing = {}
  PROVE  Results'
  <1>1. ASSUME NEW h, Genuine(h)
        PROVE  Genuine(h)'
    <2>1. job' = job => scanned \subseteq scanned'
      BY HistoryStep
    <2> QED
      BY <1>1, <2>1, GenuineStays
  <1>2. \A c \in Clusters : IsFiniteSet(clus'[c].stage1)
    BY DEF Cycle, Counted
  <1>3. ASSUME NEW c \in Clusters, NEW h, Inside(c, h)'
        PROVE  Genuine(h)' /\ h.id.engine \in InCluster(c)
    <2>1. CASE Inside(c, h)
      BY <1>1, <2>1 DEF Results
    <2>2. CASE InEngine(c, h)
      <3>1. PICK e \in InCluster(c) : h = eng[e].valid /\ h # None
        BY <2>2 DEF InEngine
      <3>2. e \in Engines
        BY DEF InCluster
      <3> QED
        BY <1>1, <3>1, <3>2 DEF Results
    <2> QED
      BY <1>3, <2>1, <2>2, InsideStep
  <1>4. ASSUME result' # None
        PROVE  Genuine(result)'
    <2>1. CASE Holds(w)
      <3>1. result' = result /\ result # None
        BY <1>4, <2>1 DEF Holds
      <3>2. Genuine(result)
        BY <3>1 DEF Results
      <3>3. PICK h : h = result
        OBVIOUS
      <3>4. Genuine(h)'
        BY <1>1, <3>2, <3>3
      <3>5. h = result'
        BY <3>1, <3>3
      <3> QED
        BY <3>4, <3>5 DEF Genuine
    <2>2. ASSUME NEW c \in Clusters, Takes(c)
          PROVE  Genuine(result)'
      <3>1. PICK h : h = clus[c].queue[1]
        OBVIOUS
      <3>2. clus[c].queue # <<>> /\ result' = h /\ clus[c].queue \in Seq(Hits)
        BY <2>2, <3>1 DEF Takes, TypeOK, ClusterType
      <3>3. 1 \in DOMAIN clus[c].queue
        BY <3>2
      <3>4. Genuine(h)
        BY <3>1, <3>3 DEF Results, Inside
      <3>5. Genuine(h)'
        BY <1>1, <3>4
      <3> QED
        BY <3>2, <3>5 DEF Genuine
    <2> QED
      BY <2>1, <2>2 DEF Cycle
  <1>5. ASSUME NEW e \in Engines, eng'[e].valid # None
        PROVE  Genuine(eng[e].valid)' /\ eng'[e].valid.id.engine = e
    <2>1. PICK n : n = NonceOf(eng[e], e)
      OBVIOUS
    <2>2. /\ e \in Comparing /\ eng[e].work = job /\ n \in Nonce
          /\ eng'[e].valid = [id |-> n, of |-> n]
      BY <1>5, <2>1, EngineHit
    <2>3. job' = job
      BY <2>2
    <2>4. n.job = job /\ n.engine = e
      BY <2>1, <2>2 DEF NonceOf
    <2>5. n \in scanned'
      BY <2>1, <2>2, <2>3, HistoryStep
    <2>6. job \in Nat
      BY DEF TypeOK
    <2> QED
      BY <2>2, <2>3, <2>4, <2>5, <2>6 DEF Genuine, Hits, Nonce, Engines
  <1> QED
    BY <1>2, <1>3, <1>4, <1>5 DEF Results, InCluster, Engines

\* A cycle in which nothing is on its way.
LEMMA ResultsEmpty ==
  ASSUME \A c \in Clusters : Empty(clus[c]) /\ IsFiniteSet(clus[c].stage1),
         \A e \in Engines : eng[e].valid = None, result = None
  PROVE  Results
  <1>1. ASSUME NEW c \in Clusters, NEW h
        PROVE  ~Inside(c, h)
    BY DEF Inside, Empty
  <1> QED
    BY <1>1 DEF Results
-----------------------------------------------------------------------------
\* The nonces that have come to the result register.
Seen == read \cup {h.id : h \in {result} \ {None}}

\* A result is in one place at a time, and comes to the register once.
Once ==
  \A c \in Clusters :
    /\ \A i, j \in Queued(c) : clus[c].queue[i] = clus[c].queue[j] => i = j
    /\ \A h : /\ InQueue(c, h) => h.id \notin Seen
              /\ InStage2(c, h) => h.id \notin Seen /\ ~InQueue(c, h)
              /\ InStage1(c, h) => h.id \notin Seen /\ ~InQueue(c, h) /\ ~InStage2(c, h)
              /\ InEngine(c, h) => /\ h.id \notin Seen /\ ~InQueue(c, h) /\ ~InStage2(c, h)
                                   /\ ~InStage1(c, h)

\* h is on its way from an engine of cluster c to the register.
Somewhere(c, h) == InQueue(c, h) \/ InStage2(c, h) \/ InStage1(c, h) \/ InEngine(c, h)

\* What is on its way is genuine.
LEMMA PlacesGenuine ==
  ASSUME Results, NEW c \in Clusters, NEW h, Somewhere(c, h)
  PROVE  Genuine(h) /\ h.id.engine \in InCluster(c)
  <1>1. CASE InEngine(c, h)
    <2>1. PICK e \in InCluster(c) : h # None /\ h = eng[e].valid
      BY <1>1 DEF InEngine
    <2>2. e \in Engines
      BY DEF InCluster
    <2> QED
      BY <2>1, <2>2 DEF Results
  <1>2. CASE ~InEngine(c, h)
    <2>1. Inside(c, h)
      BY <1>2 DEF Somewhere, InQueue, InStage2, InStage1, Inside, Queued
    <2> QED
      BY <2>1 DEF Results
  <1> QED
    BY <1>1, <1>2

\* The register takes a result that is still in its queue.
LEMMA TakenIsQueued ==
  ASSUME TypeOK, Popping, NEW c \in Clusters, Takes(c)
  PROVE  /\ 1 \in Queued(c) /\ InQueue(c, clus[c].queue[1]) /\ result' = clus[c].queue[1]
         /\ result' \in Hits /\ result = None /\ pop = {}
  <1>1. clus[c].queue \in Seq(Hits) /\ clus[c].queue # <<>> /\ result = None /\ pop = {}
    BY DEF Takes, Popping, TypeOK, ClusterType
  <1>2. 1 \in DOMAIN clus[c].queue /\ clus[c].queue[1] \in Hits
    BY <1>1
  <1> QED
    BY <1>1, <1>2 DEF Queued, InQueue, Takes

\* A nonce comes to the register from the head of a queue.
LEMMA SeenStep ==
  ASSUME TypeOK, Popping, NEW w, NEW hits, Cycle(w, hits), read' \subseteq Seen, NEW n \in Seen'
  PROVE  n \in Seen \/ \E c \in Clusters : Takes(c) /\ n = clus[c].queue[1].id
  <1>1. n \in read' \/ (result' # None /\ n = result'.id)
    BY DEF Seen
  <1>2. CASE n \in read'
    BY <1>2
  <1>3. CASE result' # None /\ n = result'.id /\ Holds(w)
    BY <1>3 DEF Holds, Seen
  <1>4. CASE result' # None /\ n = result'.id /\ \E c \in Clusters : Takes(c)
    BY <1>4 DEF Takes
  <1> QED
    BY <1>1, <1>2, <1>3, <1>4 DEF Cycle

\* Two genuine results of one nonce are the same.
LEMMA SameResult ==
  ASSUME NEW g, NEW h, Genuine(g), Genuine(h), g.id = h.id
  PROVE  g = h
  BY DEF Genuine, Hits

\* What the register does not take now it has not seen afterwards.
LEMMA StillApart ==
  ASSUME TypeOK, Popping, Results, Once, NEW w, NEW hits, Cycle(w, hits), read' \subseteq Seen,
         NEW c \in Clusters, NEW h,
         \/ InStage2(c, h) \/ InStage1(c, h) \/ InEngine(c, h)
         \/ \E k \in Queued(c) : h = clus[c].queue[k] /\ (Takes(c) => k > 1)
  PROVE  h.id \notin Seen'
  <1>1. Somewhere(c, h) /\ h.id \notin Seen
    BY DEF Somewhere, Once, InQueue
  <1>2. Genuine(h) /\ h.id.engine \in InCluster(c)
    BY <1>1, PlacesGenuine
  <1>3. ASSUME NEW d \in Clusters, Takes(d), h.id = clus[d].queue[1].id
        PROVE  FALSE
    <2>1. PICK g : g = clus[d].queue[1]
      OBVIOUS
    <2>2. 1 \in Queued(d) /\ InQueue(d, g)
      BY <1>3, <2>1, TakenIsQueued
    <2>3. Genuine(g) /\ g.id.engine \in InCluster(d)
      BY <2>2, PlacesGenuine DEF Somewhere
    <2>4. g = h
      BY <1>2, <1>3, <2>1, <2>3, SameResult
    <2>5. c = d
      BY <1>2, <2>3, <2>4 DEF InCluster
    <2>6. ~InStage2(c, h) /\ ~InStage1(c, h) /\ ~InEngine(c, h)
      BY <2>2, <2>4, <2>5 DEF Once
    <2>7. PICK k \in Queued(c) : h = clus[c].queue[k] /\ (Takes(c) => k > 1)
      BY <2>6
    <2>8. k = 1
      BY <2>1, <2>2, <2>4, <2>5, <2>7 DEF Once
    <2> QED
      BY <1>3, <2>5, <2>7, <2>8
  <1> QED
    BY <1>1, <1>3, SeenStep

\* An engine compares the next nonce of its lane.
LEMMA ComparingLane ==
  ASSUME TypeOK, EngineInv, Launching, Searching, NEW e \in Comparing
  PROVE  Compared(e) \in Nat /\ NonceOf(eng[e], e) = Lane(e, Compared(e))
  <1>1. e \in Engines /\ eng[e].state = "compare"
    BY DEF Comparing
  <1>2. eng[e].left \in 1 .. LaneCount(e) /\ eng[e].work = job
    BY <1>1 DEF EngineInv, Working
  <1>3. LaneCount(e) \in Nat
    BY <1>1, Lanes
  <1>4. ~Waits(e)
    BY <1>1 DEF Launching
  <1>5. Compared(e) = LaneCount(e) - eng[e].left
    BY <1>1, <1>2, <1>3, <1>4 DEF Compared, Position
  <1> QED
    BY <1>2, <1>3, <1>5, SMTT(30) DEF NonceOf, Lane, LaneNonce

\* The nonce an engine compares was not compared before.
LEMMA Fresh ==
  ASSUME TypeOK, EngineInv, Outside, Launching, Scanning, NEW e \in Comparing
  PROVE  Searching /\ NonceOf(eng[e], e) \notin scanned
  <1>1. Searching
    BY DEF Comparing, Outside, AllIdle
  <1>2. Compared(e) \in Nat /\ NonceOf(eng[e], e) = Lane(e, Compared(e))
    BY <1>1, ComparingLane
  <1>3. ASSUME NEW d \in Engines, NEW i \in Nat, i < Compared(d), Lane(e, Compared(e)) = Lane(d, i)
        PROVE  FALSE
    <2>1. e = d /\ e + Compared(e) * NumEngines = d + i * NumEngines
      BY <1>3 DEF Lane
    <2>2. PICK k \in Nat : k = Compared(e) /\ k >= i + 1
      BY <1>2, <1>3, <2>1
    <2>3. NumEngines \in Nat \ {0} /\ e \in Nat
      BY Sizes DEF Comparing, Engines
    <2>4. k * NumEngines >= (i + 1) * NumEngines
      BY <2>2, <2>3
    <2>5. (i + 1) * NumEngines = i * NumEngines + NumEngines /\ i * NumEngines \in Nat /\ k * NumEngines \in Nat
      BY <2>2, <2>3
    <2> QED
      BY <2>1, <2>2, <2>3, <2>4, <2>5
  <1> QED
    BY <1>1, <1>2, <1>3 DEF Scanning

\* A new result is unlike all that are under way or have been seen.
LEMMA NewApart ==
  ASSUME TypeOK, EngineInv, Outside, Launching, Scanning, Results, Popping,
         NEW w, NEW hits, Cycle(w, hits), read' \subseteq Seen,
         NEW c \in Clusters, NEW h, InEngine(c, h)'
  PROVE  h.id \notin Seen' /\ \A d \in Clusters : \A g : Somewhere(d, g) => g.id # h.id
  <1>1. PICK e \in InCluster(c) : h # None /\ h = eng'[e].valid
    BY DEF InEngine, InCluster, Engines
  <1>2. e \in Engines
    BY DEF InCluster
  <1>3. e \in Comparing /\ h.id = NonceOf(eng[e], e) /\ eng[e].work = job
    <2>1. /\ e \in Comparing /\ eng[e].work = job
          /\ eng'[e].valid = [id |-> NonceOf(eng[e], e), of |-> NonceOf(eng[e], e)]
      BY <1>1, <1>2, EngineHit
    <2> QED
      BY <1>1, <2>1
  <1>4. h.id \notin scanned /\ h.id.job = job /\ Searching
    BY <1>3, Fresh DEF NonceOf
  <1>5. \A g : Genuine(g) => g.id # h.id
    BY <1>4 DEF Genuine
  <1>6. \A d \in Clusters : \A g : Somewhere(d, g) => g.id # h.id
    BY <1>5, PlacesGenuine
  <1>7. h.id \notin Seen
    BY <1>4, <1>5 DEF Seen, Results, Scanning
  <1>8. \A d \in Clusters : Takes(d) => clus[d].queue[1].id # h.id
    BY <1>6, TakenIsQueued DEF Somewhere
  <1> QED
    BY <1>6, <1>7, <1>8, SeenStep

\* A cycle neither doubles a result nor brings one to the register again.
LEMMA OnceStep ==
  ASSUME TypeOK, EngineInv, Outside, Launching, Scanning, Results, Popping, Once,
         NEW w, NEW hits, Cycle(w, hits), read' \subseteq Seen
  PROVE  Once'
  <1> SUFFICES ASSUME NEW c \in Clusters
               PROVE  /\ \A i, j \in Queued(c)' : clus'[c].queue[i] = clus'[c].queue[j] => i = j
                      /\ \A h :
                         /\ InQueue(c, h)' => h.id \notin Seen'
                         /\ InStage2(c, h)' => h.id \notin Seen' /\ ~InQueue(c, h)'
                         /\ InStage1(c, h)' => h.id \notin Seen' /\ ~InQueue(c, h)' /\ ~InStage2(c, h)'
                         /\ InEngine(c, h)' => /\ h.id \notin Seen' /\ ~InQueue(c, h)' /\ ~InStage2(c, h)'
                                               /\ ~InStage1(c, h)'
    BY Zenon DEF Once, Clusters
  <1>1. ASSUME NEW h, InQueue(c, h)'
        PROVE  (InQueue(c, h) \/ InStage2(c, h)) /\ h.id \notin Seen'
    <2>1. PICK i \in Queued(c)' : h = clus'[c].queue[i]
      BY <1>1 DEF InQueue
    <2>2. \/ \E k \in Queued(c) : h = clus[c].queue[k] /\ (Takes(c) => k > 1)
          \/ clus[c].stage2 # None /\ h = clus[c].stage2
      BY <2>1, QueueStep
    <2>3. InQueue(c, h) \/ InStage2(c, h)
      BY <2>2 DEF InQueue, InStage2
    <2>4. InStage2(c, h) \/ \E k \in Queued(c) : h = clus[c].queue[k] /\ (Takes(c) => k > 1)
      BY <2>2 DEF InStage2
    <2> QED
      BY <2>3, <2>4, StillApart
  <1>2. ASSUME NEW h, InStage2(c, h)'
        PROVE  InStage1(c, h) /\ h.id \notin Seen' /\ ~InQueue(c, h)'
    <2>1. InStage1(c, h)
      BY <1>2, StageStep
    <2>2. ~InQueue(c, h) /\ ~InStage2(c, h)
      BY <2>1 DEF Once
    <2> QED
      BY <1>1, <2>1, <2>2, StillApart
  <1>3. ASSUME NEW h, InStage1(c, h)'
        PROVE  InEngine(c, h) /\ h.id \notin Seen' /\ ~InQueue(c, h)' /\ ~InStage2(c, h)'
    <2>1. InEngine(c, h)
      BY <1>3, StageStep
    <2>2. ~InQueue(c, h) /\ ~InStage2(c, h) /\ ~InStage1(c, h)
      BY <2>1 DEF Once
    <2> QED
      BY <1>1, <1>2, <2>1, <2>2, StillApart
  <1>4. ASSUME NEW h, InEngine(c, h)'
        PROVE  h.id \notin Seen' /\ ~InQueue(c, h)' /\ ~InStage2(c, h)' /\ ~InStage1(c, h)'
    <2>1. h.id \notin Seen' /\ \A g : Somewhere(c, g) => g.id # h.id
      BY <1>4, NewApart
    <2>2. ~Somewhere(c, h)
      BY <2>1
    <2> QED
      BY <1>1, <1>2, <1>3, <2>1, <2>2 DEF Somewhere
  <1>5. ASSUME NEW i \in Queued(c)', NEW j \in Queued(c)', clus'[c].queue[i] = clus'[c].queue[j]
        PROVE  i = j
    <2> DEFINE Old(x) == \E k \in Queued(c) : /\ k = (IF c \in pop THEN x + 1 ELSE x)
                                              /\ clus'[c].queue[x] = clus[c].queue[k]
               New(x) == /\ clus[c].stage2 # None /\ clus'[c].queue[x] = clus[c].stage2
                         /\ x = Len(clus'[c].queue)
    <2>1. (Old(i) \/ New(i)) /\ (Old(j) \/ New(j))
      BY QueueStep
    <2>2. i \in Int /\ j \in Int
      <3>1. clus'[c].queue \in Seq(Hits)
        BY CycleTypes DEF ClusterType
      <3> QED
        BY <3>1 DEF Queued
    <2>3. CASE Old(i) /\ Old(j)
      <3>1. PICK k \in Queued(c) : /\ k = (IF c \in pop THEN i + 1 ELSE i)
                                   /\ clus'[c].queue[i] = clus[c].queue[k]
        BY <2>3
      <3>2. PICK l \in Queued(c) : /\ l = (IF c \in pop THEN j + 1 ELSE j)
                                   /\ clus'[c].queue[j] = clus[c].queue[l]
        BY <2>3
      <3>3. k = l
        BY <1>5, <3>1, <3>2 DEF Once
      <3> QED
        BY <2>2, <3>1, <3>2, <3>3
    <2>4. CASE New(i) /\ New(j)
      BY <2>4
    <2>5. ASSUME NEW x, NEW y, Old(x), New(y), clus'[c].queue[x] = clus'[c].queue[y]
          PROVE  FALSE
      <3>1. PICK h : h = clus[c].stage2
        OBVIOUS
      <3>2. InStage2(c, h) /\ InQueue(c, h)
        BY <2>5, <3>1 DEF InStage2, InQueue
      <3> QED
        BY <3>2 DEF Once
    <2> QED
      BY <1>5, <2>1, <2>3, <2>4, <2>5
  <1> QED
    BY <1>1, <1>2, <1>3, <1>4, <1>5, Zenon

\* The register and the firmware that reads it.
Reading ==
  /\ Popping
  /\ fw \in {"nonce", "ack"} => result # None
  /\ fw = "ack" => result.id \in read
  /\ fw # "ack" /\ result # None => result.id \notin read

\* The register keeps what it holds until it is acknowledged, and takes nothing that
\* has been read.
LEMMA RegisterStep ==
  ASSUME TypeOK, Popping, Once, NEW w, NEW hits, Cycle(w, hits)
  PROVE  /\ Popping'
         /\ result # None => Holds(w)
         /\ result = None /\ result' # None => result'.id \notin read
  <1>1. CASE Holds(w)
    BY <1>1 DEF Holds, Popping
  <1>2. ASSUME NEW c \in Clusters, Takes(c)
        PROVE  result' # None /\ result = None /\ result'.id \notin read
    <2>1. PICK h : h = clus[c].queue[1]
      OBVIOUS
    <2>2. InQueue(c, h) /\ result' = h /\ h \in Hits /\ result = None
      BY <1>2, <2>1, TakenIsQueued
    <2>3. h.id \notin Seen
      BY <2>2 DEF Once
    <2> QED
      BY <2>2, <2>3, NoneApart DEF Seen
  <1> QED
    BY <1>1, <1>2 DEF Cycle, Popping

\* In a search the firmware reads what the register holds.
LEMMA ReadingSearch ==
  ASSUME TypeOK, Reading, Once, Results, Scanning, NEW w, SearchStep(w), NEW hits, Cycle(w, hits)
  PROVE  Reading' /\ read' \subseteq Seen /\ read' \subseteq scanned /\ read \subseteq read'
  <1>1. SearchMove(w) /\ Searching /\ "CLEAR" \notin w /\ ~Starts(w) /\ w \in {{}, {"ACK"}}
    BY DEF SearchStep, Starts
  <1>2. /\ Popping' /\ (result # None => Holds(w))
        /\ result = None /\ result' # None => result'.id \notin read
    BY RegisterStep DEF Reading
  <1>3. result # None => result' = IF w = {} THEN result ELSE None
    BY <1>1, <1>2 DEF Holds
  <1>4. w # {} => fw = "ack" /\ fw' # "ack" /\ fw' # "nonce" /\ read' = read
    BY <1>1 DEF SearchMove
  <1>5. /\ read' = read \/ (fw = "nonce" /\ fw' = "ack" /\ w = {} /\ read' = read \cup {result.id})
        /\ fw' = "nonce" => fw = "nonce" \/ result # None
        /\ fw' = "ack" => fw = "nonce" \/ fw = "ack"
        /\ fw' = "ack" /\ fw = "nonce" => read' = read \cup {result.id}
        /\ fw = "ack" /\ w = {} => fw' = "ack"
    BY <1>1 DEF SearchMove
  <1>6. fw' \in {"nonce", "ack"} => result' # None
    BY <1>3, <1>4, <1>5 DEF Reading
  <1>7. fw' = "ack" => result'.id \in read'
    BY <1>3, <1>4, <1>5 DEF Reading
  <1>8. fw' # "ack" /\ result' # None => result'.id \notin read'
    BY <1>2, <1>3, <1>4, <1>5 DEF Reading
  <1>9. read' \subseteq Seen
    BY <1>5 DEF Seen, Reading
  <1>10. read' \subseteq scanned
    <2>1. result # None => result.id \in scanned
      BY <1>1 DEF Results, Genuine
    <2> QED
      BY <1>5, <2>1 DEF Scanning, Reading
  <1>11. read \subseteq read'
    BY <1>5
  <1> QED
    BY <1>2, <1>6, <1>7, <1>8, <1>9, <1>10, <1>11 DEF Reading

\* Outside a search it reads nothing.
LEMMA ReadingOther ==
  ASSUME TypeOK, Reading, Once, NEW w, NEW hits, Cycle(w, hits), fw \notin {"nonce", "ack"},
         fw' \notin {"nonce", "ack"}, read' \subseteq read
  PROVE  Reading'
  <1>1. /\ Popping' /\ (result # None => Holds(w))
        /\ result = None /\ result' # None => result'.id \notin read
    BY RegisterStep DEF Reading
  <1>2. result' # None => result'.id \notin read
    BY <1>1 DEF Holds, Reading
  <1> QED
    BY <1>1, <1>2 DEF Reading
-----------------------------------------------------------------------------
\* Every result of the search is read, in the register, counted as lost or on
\* its way.
Kept ==
  Searching => \A n \in found : \/ n \in Seen \/ n \in dropped
                                \/ \E c \in Clusters : \E h : h.id = n /\ Somewhere(c, h)

\* Until the FIFOs have been cleared for the new range nothing is compared.
LEMMA EarlyEmpty ==
  ASSUME TypeOK, Launching, Scanning, Searching, NEW c \in Clusters, clus[c].clear
  PROVE  scanned = {} /\ Comparing = {}
  <1>1. load >= LaunchCycles - 1 /\ load \in Nat /\ LaunchCycles \in Nat
    BY Turns DEF Launching, TypeOK
  <1>2. \A e \in Engines : Waits(e)
    BY <1>1, Turns DEF Waits
  <1>3. \A e \in Engines : Compared(e) = 0
    BY <1>2 DEF Compared
  <1>4. scanned = {}
    BY <1>3 DEF Scanning
  <1>5. Comparing = {}
    BY <1>2 DEF Launching, Comparing
  <1> QED
    BY <1>4, <1>5

\* A lost result is recorded as such.
LEMMA LostDropped ==
  ASSUME TypeOK, EngineInv, Scanning, Results, Searching, NEW w, NEW hits, Cycle(w, hits), job' = job,
         NEW c \in Clusters, NEW h \in Lost(c)
  PROVE  h.id \in dropped'
  <1>1. Inside(c, h)
    BY DEF Lost, Inside
  <1>2. h.id.job = job
    BY <1>1 DEF Results, Genuine
  <1>3. h.id \in Losses
    BY DEF Losses
  <1>4. dropped' = dropped \cup {n \in Losses : n.job = job}
    BY HistoryStep
  <1> QED
    BY <1>2, <1>3, <1>4

\* A cycle of a search keeps track of every result.
LEMMA KeptSearch ==
  ASSUME TypeOK, EngineInv, Launching, Scanning, Results, Reading, Kept,
         NEW w, SearchStep(w), NEW hits, Cycle(w, hits), read \subseteq read'
  PROVE  Kept'
  <1>1. Searching /\ job' = job /\ SearchMove(w) /\ ~Starts(w) /\ "CLEAR" \notin w /\ Popping
    BY DEF SearchStep, Starts, Reading
  <1>2. /\ found' = found \cup {NonceOf(eng[e], e) : e \in hits}
        /\ dropped \subseteq dropped' /\ hits \subseteq Comparing
        /\ found' \subseteq scanned'
        /\ scanned' = scanned \cup {NonceOf(eng[e], e) : e \in Comparing}
    BY <1>1, HistoryStep DEF Cycle, EnginesMove
  <1>3. ASSUME NEW c \in Clusters, clus[c].clear
        PROVE  Kept'
    BY <1>1, <1>2, <1>3, EarlyEmpty DEF Kept
  <1>4. ASSUME \A c \in Clusters : ~clus[c].clear,
               NEW n \in found'
        PROVE  n \in Seen' \/ n \in dropped' \/ \E c \in Clusters : \E h : h.id = n /\ Somewhere(c, h)'
    <2>1. ASSUME NEW e \in hits, n = NonceOf(eng[e], e)
          PROVE  \E c \in Clusters : \E h : h.id = n /\ Somewhere(c, h)'
      <3>1. e \in Engines /\ "stop" \notin pulse /\ eng[e].state # "idle"
        BY <1>2 DEF Comparing
      <3>2. EngineMoves(e, e \in hits)
        BY <3>1 DEF Cycle, EnginesMove
      <3>3. PICK h : h = eng'[e].valid
        OBVIOUS
      <3>4. h = [id |-> n, of |-> n]
        BY <2>1, <3>1, <3>2, <3>3, Zenon DEF EngineMoves
      <3>5. h.id = n /\ h \in Hits
        <4>1. n \in Nonce
          BY <2>1, <3>1, NonceType DEF TypeOK
        <4> QED
          BY <3>4, <4>1 DEF Hits
      <3>6. ClusterOf(e) \in Clusters /\ e \in InCluster(ClusterOf(e))
        BY <3>1, Clustered
      <3>7. InEngine(ClusterOf(e), h)'
        BY <3>3, <3>5, <3>6, NoneApart DEF InEngine
      <3> QED
        BY <3>5, <3>6, <3>7 DEF Somewhere
    <2>2. CASE n \in Seen
      <3>1. CASE n \in read
        BY <3>1 DEF Seen
      <3>2. CASE result # None /\ n = result.id
        <4>1. Holds(w)
          BY <3>2 DEF Cycle, Takes
        <4>2. CASE w = {}
          <5>1. result' = result
            BY <1>1, <4>1, <4>2 DEF Holds
          <5> QED
            BY <3>2, <5>1 DEF Seen
        <4>3. CASE w # {}
          <5>1. fw = "ack"
            BY <1>1, <4>3 DEF SearchMove
          <5>2. n \in read
            BY <3>2, <5>1 DEF Reading
          <5> QED
            BY <5>2 DEF Seen
        <4> QED
          BY <4>2, <4>3
      <3> QED
        BY <2>2, <3>1, <3>2 DEF Seen
    <2>3. CASE n \in dropped
      BY <1>2, <2>3
    <2>4. ASSUME NEW c \in Clusters, NEW h, h.id = n, Somewhere(c, h)
          PROVE  n \in Seen' \/ n \in dropped' \/ \E d \in Clusters : \E g : g.id = n /\ Somewhere(d, g)'
      <3>1. ~clus[c].clear /\ ClusterMoves(c)
        BY <1>4 DEF Cycle
      <3>2. ASSUME h \in Lost(c)
            PROVE  n \in dropped'
        BY <1>1, <2>4, <3>2, LostDropped
      <3>3. CASE InQueue(c, h)
        <4>1. InQueue(c, h)' \/ (Takes(c) /\ result' = h)
          BY <1>1, <3>1, <3>3, QueueKeeps
        <4>2. CASE Takes(c) /\ result' = h
          <5>1. result' # None
            BY <1>1, <4>2, TakenIsQueued, NoneApart
          <5> QED
            BY <2>4, <4>2, <5>1 DEF Seen
        <4> QED
          BY <2>4, <4>1, <4>2 DEF Somewhere
      <3>4. CASE InStage2(c, h)
        <4>1. InQueue(c, h)' \/ h \in Lost(c)
          BY <1>1, <3>1, <3>4, QueueKeeps
        <4> QED
          BY <2>4, <3>2, <4>1 DEF Somewhere
      <3>5. CASE InStage1(c, h)
        <4>1. CASE h = Winner(clus[c].stage1)
          <5>1. clus'[c].stage2 = h
            BY <3>1, <3>5, <4>1 DEF ClusterMoves, InStage1
          <5>2. h \in Hits
            BY <3>5 DEF InStage1, TypeOK, ClusterType
          <5>3. InStage2(c, h)'
            BY <5>1, <5>2, NoneApart DEF InStage2
          <5> QED
            BY <2>4, <5>3 DEF Somewhere
        <4>2. CASE h # Winner(clus[c].stage1)
          <5>1. h \in Lost(c)
            BY <3>1, <3>5, <4>2 DEF Lost, InStage1
          <5> QED
            BY <3>2, <5>1
        <4> QED
          BY <4>1, <4>2
      <3>6. CASE InEngine(c, h)
        <4>1. h \in Arrived(c)
          BY <3>6 DEF InEngine, Arrived
        <4>2. InStage1(c, h)'
          BY <3>1, <4>1 DEF ClusterMoves, InStage1
        <4> QED
          BY <2>4, <4>2 DEF Somewhere
      <3> QED
        BY <2>4, <3>3, <3>4, <3>5, <3>6 DEF Somewhere
    <2> QED
      BY <1>1, <1>2, <2>1, <2>2, <2>3, <2>4 DEF Kept
  <1> QED
    BY <1>3, <1>4, Zenon DEF Kept

\* A FIFO that loses a result says so.
LEMMA LossShows ==
  ASSUME TypeOK, Results, NEW w, NEW hits, Cycle(w, hits),
         NEW c \in Clusters, ~clus[c].clear, NEW h \in Lost(c)
  PROVE  clus'[c].overflow \/ clus'[c].overflow2
  <1>1. PICK r, m : r = clus[c] /\ m = clus'[c]
    OBVIOUS
  <1>2. /\ m.overflow2 <=> (r.overflow1 \/ Crowded(r.stage1))
        /\ m.overflow <=> (r.overflow \/ (r.stage2 # None /\ ~DoPush(c)) \/ r.overflow2)
    BY <1>1 DEF Cycle, ClusterMoves
  <1>3. CASE r.stage2 # None /\ ~DoPush(c)
    BY <1>1, <1>2, <1>3
  <1>4. CASE ~(r.stage2 # None /\ ~DoPush(c))
    <2>1. r.stage1 # {} /\ h \in r.stage1 /\ h # Winner(r.stage1)
      BY <1>1, <1>4 DEF Lost
    <2>2. Counted(c) /\ IsFiniteSet(r.stage1)
      BY <1>1 DEF Cycle, Results
    <2>3. Crowded(r.stage1)
      BY <1>1, <2>1, <2>2 DEF Counted
    <2> QED
      BY <1>1, <1>2, <2>3
  <1> QED
    BY <1>3, <1>4

\* A cycle of a search passes an overflow on to the flag.
LEMMA LossFlaggedSearch ==
  ASSUME TypeOK, EngineInv, Launching, Scanning, Results, LossFlagged,
         NEW w, SearchStep(w), NEW hits, Cycle(w, hits)
  PROVE  LossFlagged'
  <1>1. Searching /\ job' = job /\ w \in {{}, {"ACK"}}
    BY DEF SearchStep
  <1>2. dropped' = dropped \cup {n \in Losses : n.job = job}
    BY <1>1, HistoryStep
  <1>3. ASSUME NEW c \in Clusters, clus[c].clear
        PROVE  LossFlagged'
    <2>1. scanned = {}
      BY <1>1, <1>3, EarlyEmpty
    <2>2. dropped' = {}
      BY <1>2, <2>1, LossesGenuine DEF Scanning
    <2> QED
      BY <2>2 DEF LossFlagged
  <1>4. ASSUME \A c \in Clusters : ~clus[c].clear, dropped' # {}
        PROVE  \/ "overflow" \in flags'
               \/ \E c \in Clusters : clus'[c].overflow \/ clus'[c].overflow2
    <2>1. FlagsNext(w)
      BY DEF Cycle
    <2>2. CASE "overflow" \in flags
      BY <1>1, <2>1, <2>2 DEF FlagsNext, Starts
    <2>3. ASSUME NEW c \in Clusters, clus[c].overflow
          PROVE  "overflow" \in flags'
      BY <2>1, <2>3 DEF FlagsNext
    <2>4. ASSUME NEW c \in Clusters, clus[c].overflow2
          PROVE  clus'[c].overflow
      BY <1>4, <2>4 DEF Cycle, ClusterMoves
    <2>5. CASE dropped # {}
      BY <1>1, <2>2, <2>3, <2>4, <2>5 DEF LossFlagged, Searching
    <2>6. CASE dropped = {}
      <3>1. PICK n \in Losses : TRUE
        BY <1>2, <1>4, <2>6
      <3>2. PICK c \in Clusters : \E h \in Lost(c) : n = h.id
        BY DEF Losses
      <3> QED
        BY <1>4, <3>2, LossShows
    <2> QED
      BY <2>5, <2>6
  <1> QED
    BY <1>3, <1>4, Zenon DEF LossFlagged
-----------------------------------------------------------------------------
\* The inductive invariant.
Inv ==
  /\ TypeOK /\ EngineInv /\ Outside /\ Launching /\ Ending /\ Emptied
  /\ Scanning /\ Results /\ Once /\ Reading /\ Kept /\ LossFlagged

\* Where nothing is under way, nothing is twice.
LEMMA EmptyOnce ==
  ASSUME \A c \in Clusters : Empty(clus[c]), \A e \in Engines : eng[e].valid = None
  PROVE  Once
  <1>1. ASSUME NEW c \in Clusters
        PROVE  Queued(c) = {} /\ \A h : ~InQueue(c, h) /\ ~InStage2(c, h) /\ ~InStage1(c, h) /\ ~InEngine(c, h)
    BY DEF Queued, InQueue, InStage2, InStage1, InEngine, InCluster, Empty
  <1> QED
    BY <1>1 DEF Once

\* It holds after reset.
LEMMA InitInv ==
  ASSUME SetFacts, Init
  PROVE  Inv
  <1>1. ~Searching /\ fw = "clear"
    BY DEF Init, Searching
  <1>2. IdleEngine \in EngineType /\ EmptyCluster \in ClusterType
    <2>1. <<>> \in Seq(Hits)
      OBVIOUS
    <2>2. IdleEngine \in EngineType
      BY DEF IdleEngine, EngineType
    <2>3. EmptyCluster \in ClusterType
      BY <2>1 DEF EmptyCluster, ClusterType
    <2> QED
      BY <2>2, <2>3
  <1> USE DEF Init
  <1>3. TypeOK
    BY <1>2, Turns, Sizes, SMTT(30) DEF TypeOK, Labels
  <1>4. /\ \A e \in Engines : eng[e].state = "idle" /\ eng[e].valid = None /\ Quiet(eng[e])
        /\ \A c \in Clusters : Empty(clus[c])
    BY DEF IdleEngine, EmptyCluster, Quiet, Empty
  <1>5. EngineInv /\ AllIdle
    BY <1>4 DEF EngineInv, AllIdle
  <1>6. Outside /\ Launching /\ Ending /\ Kept /\ LossFlagged
    BY <1>1, <1>5 DEF Outside, Launching, Ending, Kept, LossFlagged
  <1>7. Emptied /\ Scanning
    BY <1>1, <1>4 DEF Emptied, Scanning
  <1>8. Results
    <2>1. IsFiniteSet({})
      <3>1. PICK f : f = [e \in Engines |-> e]
        OBVIOUS
      <3>2. IsFiniteSet({f[e] : e \in Engines}) /\ {} \subseteq {f[e] : e \in Engines}
        BY DEF SetFacts
      <3> QED
        BY <3>2 DEF SetFacts
    <2> QED
      BY <1>4, <2>1, ResultsEmpty DEF Empty
  <1>9. Once
    BY <1>4, EmptyOnce
  <1>10. Reading
    BY DEF Reading, Popping
  <1> QED
    BY <1>3, <1>5, <1>6, <1>7, <1>8, <1>9, <1>10 DEF Inv

\* The types of a successor, from those of its parts.
LEMMA TypesPrimed ==
  ASSUME /\ pulse' \subseteq {"start", "stop", "clear"} /\ start' \subseteq Engines
         /\ load' \in 0 .. LaunchCycles /\ flags' \subseteq {"running", "done", "overflow"}
         /\ result' \in Hits \cup {None} /\ pop' \subseteq Clusters
         /\ eng' \in [Engines -> EngineType] /\ clus' \in [Clusters -> ClusterType],
         fw' \in Labels, gap' \in 0 .. Gap - 1, job' \in Nat
  PROVE  TypeOK'
  BY Zenon DEF TypeOK, LaunchCycles, Hits, Nonce, Engines, Clusters, EngineType, ClusterType, Labels

\* A step on one side of the border keeps the types.
LEMMA TypesSearch ==
  ASSUME TypeOK, NEW w, SearchStep(w) \/ OutsideStep(w), NEW hits, Cycle(w, hits)
  PROVE  TypeOK'
  <1>1. /\ pulse' \subseteq {"start", "stop", "clear"} /\ start' \subseteq Engines
        /\ load' \in 0 .. LaunchCycles /\ flags' \subseteq {"running", "done", "overflow"}
        /\ result' \in Hits \cup {None} /\ pop' \subseteq Clusters
        /\ eng' \in [Engines -> EngineType] /\ clus' \in [Clusters -> ClusterType]
    BY CycleTypes
  <1>2. fw' \in Labels /\ job' \in Nat
    BY DEF SearchStep, OutsideStep, SearchMove, OutsideMove, TypeOK, Labels
  <1>3. gap' \in 0 .. Gap - 1
    BY Sizes, SMTT(30) DEF SearchStep, OutsideStep, SearchMove, OutsideMove, TypeOK, Later
  <1> QED
    BY <1>1, <1>2, <1>3, TypesPrimed

\* A step of a search keeps the invariant: poll, read and acknowledge, or nothing.
LEMMA SearchPreserves ==
  ASSUME SetFacts, Inv, NEW w, SearchStep(w)
  PROVE  Inv'
  <1>1. /\ TypeOK /\ EngineInv /\ Outside /\ Launching /\ Ending /\ Emptied
        /\ Scanning /\ Results /\ Once /\ Reading /\ Kept /\ LossFlagged /\ Popping
    BY DEF Inv, Reading
  <1>2. PICK hits : Cycle(w, hits)
    BY <1>1, IsReady, OneCycle DEF SearchStep
  <1>3. Searching /\ Searching' /\ job' = job
    BY DEF SearchStep
  <1>4. TypeOK'
    BY <1>1, <1>2, TypesSearch
  <1>5. EngineInv'
    <2>1. "stop" \notin pulse /\ fw # "delay"
      BY <1>1, <1>3 DEF Launching, Searching
    <2> QED
      BY <1>1, <1>2, <1>3, <2>1, EngineStep
  <1>6. Outside' /\ Emptied'
    BY <1>3 DEF Outside, Emptied, Searching
  <1>7. Launching'
    BY <1>1, <1>2, LaunchingSearch
  <1>8. Ending'
    BY <1>1, <1>2, EndingSearch
  <1>9. Reading' /\ read' \subseteq Seen /\ read' \subseteq scanned /\ read \subseteq read'
    BY <1>1, <1>2, ReadingSearch
  <1>10. Scanning'
    BY <1>1, <1>2, <1>7, <1>9, ScanningSearch
  <1>11. Results'
    BY <1>1, <1>2, <1>3, ResultsStep
  <1>12. Once'
    BY <1>1, <1>2, <1>9, OnceStep
  <1>13. Kept'
    BY <1>1, <1>2, <1>9, KeptSearch
  <1>14. LossFlagged'
    BY <1>1, <1>2, LossFlaggedSearch
  <1> QED
    BY <1>4, <1>5, <1>6, <1>7, <1>8, <1>9, <1>10, <1>11, <1>12, <1>13, <1>14 DEF Inv

\* Outside a search the conjuncts about it say nothing.
LEMMA NotSearching ==
  ASSUME ~Searching
  PROVE  Launching /\ Ending /\ Kept /\ LossFlagged /\ (Recorded => Scanning)
  BY DEF Launching, Ending, Kept, LossFlagged, Searching, Recorded, Scanning

\* So does a step between two searches: the delay of stop and its acknowledgement,
LEMMA OutsidePreserves ==
  ASSUME SetFacts, Inv, NEW w, OutsideStep(w)
  PROVE  Inv'
  <1>1. /\ TypeOK /\ EngineInv /\ Outside /\ Launching /\ Ending /\ Emptied
        /\ Scanning /\ Results /\ Once /\ Reading /\ Popping
    BY DEF Inv, Reading
  <1>2. PICK hits : Cycle(w, hits)
    BY <1>1, IsReady, OneCycle DEF OutsideStep
  <1>3. ~Searching /\ ~Searching' /\ job' = job /\ read' = read /\ OutsideMove(w)
    BY DEF OutsideStep
  <1>4. TypeOK'
    BY <1>1, <1>2, TypesSearch
  <1>5. EngineInv'
    <2>1. "stop" \in pulse => fw' = "delay"
      BY <1>1, <1>3 DEF Outside, OutsideMove, Drained
    <2>2. fw = "delay" /\ fw' # "delay" => Drained
      BY <1>3 DEF OutsideMove
    <2> QED
      BY <1>1, <1>2, <1>3, <2>1, <2>2, EngineStep
  <1>6. Outside'
    BY <1>1, <1>2, OutsideStay
  <1>7. Emptied'
    BY <1>1, <1>2, EmptiedOutside
  <1>8. Reading'
    BY <1>1, <1>2, <1>3, ReadingOther DEF Searching
  <1>9. Recorded'
    BY <1>1, <1>2, <1>3, RecordedSame DEF Scanning
  <1>10. Results'
    BY <1>1, <1>2, <1>3, ResultsStep
  <1>11. Once'
    BY <1>1, <1>2, <1>3, OnceStep DEF Seen
  <1>12. (Launching /\ Ending /\ Kept /\ LossFlagged /\ Scanning)'
    BY <1>3, <1>9, NotSearching, PTL
  <1> QED
    BY <1>4, <1>5, <1>6, <1>7, <1>8, <1>10, <1>11, <1>12 DEF Inv

\* the STOP that ends a search,
LEMMA StopPreserves ==
  ASSUME SetFacts, Inv, WriteStop
  PROVE  Inv'
  <1>1. /\ TypeOK /\ EngineInv /\ Outside /\ Launching /\ Ending /\ Emptied
        /\ Scanning /\ Results /\ Once /\ Reading /\ Popping
    BY DEF Inv, Reading
  <1>2. PICK w : w = {"STOP"} /\ Clock(w)
    BY DEF WriteStop, Access
  <1>3. PICK hits : Cycle(w, hits)
    BY <1>1, <1>2, IsReady, OneCycle
  <1>4. /\ fw \in {"poll", "clear"} /\ fw' = "delay" /\ gap' = Gap - 1 /\ job' = job /\ read' = read
        /\ ~Searching'
    BY DEF WriteStop, Access, Searching
  <1>5. TypeOK'
    <2>1. fw' \in Labels /\ gap' \in 0 .. Gap - 1 /\ job' \in Nat
      BY <1>1, <1>4, Sizes DEF Labels, TypeOK
    <2> QED
      BY <1>1, <1>3, <2>1, CycleTypes, TypesPrimed
  <1>6. EngineInv'
    BY <1>1, <1>3, <1>4, EngineStep
  <1>7. Outside' /\ Emptied'
    BY <1>1, <1>2, <1>3, <1>4, OutsideStop DEF Emptied
  <1>8. Reading'
    BY <1>1, <1>3, <1>4, ReadingOther
  <1>9. Recorded'
    BY <1>1, <1>3, <1>4, RecordedSame DEF Scanning
  <1>10. Results'
    BY <1>1, <1>3, <1>4, ResultsStep
  <1>11. Once'
    BY <1>1, <1>3, <1>4, OnceStep DEF Seen
  <1>12. (Launching /\ Ending /\ Kept /\ LossFlagged /\ Scanning)'
    BY <1>4, <1>9, NotSearching, PTL
  <1> QED
    BY <1>5, <1>6, <1>7, <1>8, <1>10, <1>11, <1>12 DEF Inv

\* the CLEAR that begins a range, after stop or after a range that is complete,
LEMMA ClearPreserves ==
  ASSUME SetFacts, Inv, WriteClear
  PROVE  Inv'
  <1>1. /\ TypeOK /\ EngineInv /\ Outside /\ Launching /\ Ending /\ Emptied
        /\ Scanning /\ Results /\ Once /\ Reading /\ Popping
    BY DEF Inv, Reading
  <1>2. PICK w : w = {"CLEAR"} /\ Clock(w)
    BY DEF WriteClear, Access
  <1>3. PICK hits : Cycle(w, hits)
    BY <1>1, <1>2, IsReady, OneCycle
  <1>4. /\ fw \in {"clear", "nextrange"} /\ fw' = "start" /\ gap' = Gap - 1 /\ job' = job + 1 /\ read' = {}
        /\ ~Searching'
    BY DEF WriteClear, Access, Searching
  <1>5. Resting /\ "running" \notin flags /\ \A c \in Clusters : Empty(clus[c])
    <2>1. CASE fw = "clear"
      BY <1>1, <2>1, OutsideRests DEF Emptied
    <2>2. CASE fw = "nextrange"
      <3>1. Searching
        BY <2>2 DEF Searching
      <3>2. /\ "done" \in flags
            /\ \A c \in Clusters : clus[c].stage1 = {} /\ clus[c].stage2 = None /\ clus[c].queue = <<>>
        BY <1>1, <2>2, <3>1 DEF Ending
      <3> QED
        BY <1>1, <3>1, <3>2, DoneRests DEF Empty
    <2> QED
      BY <1>4, <2>1, <2>2
  <1>6. Comparing = {}
    BY <1>1, <1>3, <1>5, RestStep
  <1>7. TypeOK'
    <2>1. fw' \in Labels /\ gap' \in 0 .. Gap - 1 /\ job' \in Nat
      BY <1>1, <1>4, Sizes DEF Labels, TypeOK
    <2> QED
      BY <1>1, <1>3, <2>1, CycleTypes, TypesPrimed
  <1>8. EngineInv'
    BY <1>1, <1>3, <1>4, <1>5, EngineStep DEF Resting
  <1>9. Outside'
    BY <1>1, <1>2, <1>3, <1>5, OutsideClear
  <1>10. Emptied'
    BY <1>1, <1>2, <1>3, <1>4, <1>5, EmptiedClear DEF Scanning
  <1>11. Reading'
    BY <1>1, <1>3, <1>4, ReadingOther
  <1>12. Recorded'
    BY <1>1, <1>3, <1>4, <1>6, RecordedNext
  <1>13. Results'
    BY <1>1, <1>3, <1>4, <1>6, ResultsStep
  <1>14. Once'
    BY <1>1, <1>3, <1>4, OnceStep
  <1>15. (Launching /\ Ending /\ Kept /\ LossFlagged /\ Scanning)'
    BY <1>4, <1>12, NotSearching, PTL
  <1> QED
    BY <1>7, <1>8, <1>9, <1>10, <1>11, <1>13, <1>14, <1>15 DEF Inv

\* the START of a search,
LEMMA StartPreserves ==
  ASSUME SetFacts, Inv, WriteStart
  PROVE  Inv'
  <1>1. /\ TypeOK /\ EngineInv /\ Outside /\ Launching /\ Ending /\ Emptied
        /\ Scanning /\ Results /\ Once /\ Reading /\ Popping
    BY DEF Inv, Reading
  <1>2. PICK w : w = {"START"} /\ Clock(w)
    BY DEF WriteStart, Access
  <1>3. PICK hits : Cycle(w, hits)
    BY <1>1, <1>2, IsReady, OneCycle
  <1>4. /\ fw = "start" /\ fw' = "poll" /\ gap' = Gap - 1 /\ job' = job /\ read' = read
        /\ Searching'
    BY DEF WriteStart, Access, Searching
  <1>5. /\ Resting /\ "running" \notin flags /\ \A c \in Clusters : Empty(clus[c])
        /\ result = None /\ scanned = {}
    BY <1>1, <1>4, OutsideRests DEF Emptied
  <1>6. /\ Comparing = {} /\ AllIdle' /\ start' = {} /\ load' = LaunchCycles
        /\ \A c \in Clusters : Arrived(c) = {}
    BY <1>1, <1>2, <1>3, <1>5, RestStep
  <1>7. TypeOK'
    <2>1. fw' \in Labels /\ gap' \in 0 .. Gap - 1 /\ job' \in Nat
      BY <1>1, <1>4, Sizes DEF Labels, TypeOK
    <2> QED
      BY <1>1, <1>3, <2>1, CycleTypes, TypesPrimed
  <1>8. EngineInv'
    BY <1>1, <1>3, <1>4, <1>5, EngineStep DEF Resting
  <1>9. Outside' /\ Emptied'
    BY <1>4 DEF Outside, Emptied
  <1>10. Launching'
    BY <1>1, <1>2, <1>3, <1>5, LaunchingStart
  <1>11. Ending'
    BY <1>2, <1>3, <1>4, <1>5, EndingStart DEF Resting
  <1>12. scanned' = {}
    BY <1>1, <1>3, <1>4, <1>5, <1>6, HistoryStep
  <1>13. Recorded'
    BY <1>1, <1>3, <1>4, RecordedSame DEF Scanning
  <1>14. Scanning'
    <2>1. \A e \in Engines : Compared(e)' = 0
      BY <1>6, Turns DEF Compared, Waits, Turn, LaunchCycles
    <2> QED
      BY <1>12, <1>13, <2>1 DEF Scanning, Recorded
  <1>15. /\ \A c \in Clusters : Empty(clus'[c]) /\ IsFiniteSet(clus'[c].stage1)
         /\ \A e \in Engines : eng'[e].valid = None
         /\ result' = None
    <2>1. \A c \in Clusters : Empty(clus'[c])
      BY <1>3, <1>5, <1>6, Drains DEF Cycle
    <2>2. \A e \in Engines : eng'[e].valid = None
      BY <1>6, <1>8 DEF AllIdle, EngineInv
    <2>3. result' = None
      BY <1>1, <1>3, <1>5, NothingTaken DEF Empty
    <2>4. \A c \in Clusters : IsFiniteSet(clus'[c].stage1)
      BY <1>3 DEF Cycle, Counted
    <2> QED
      BY <2>1, <2>2, <2>3, <2>4
  <1>16. /\ (\A c \in Clusters : Empty(clus[c]))'
         /\ (\A c \in Clusters : Empty(clus[c]) /\ IsFiniteSet(clus[c].stage1))'
         /\ (\A e \in Engines : eng[e].valid = None)' /\ (result = None)'
    BY <1>15 DEF Empty, Clusters, Engines
  <1>17. Results' /\ Once'
    BY <1>16, ResultsEmpty, EmptyOnce, PTL
  <1>18. Reading'
    BY <1>1, <1>3, <1>4, ReadingOther
  <1>19. Kept' /\ LossFlagged'
    BY <1>12, <1>13 DEF Kept, LossFlagged, Recorded
  <1> QED
    BY <1>7, <1>8, <1>9, <1>10, <1>11, <1>14, <1>17, <1>18, <1>19 DEF Inv

\* and a step that changes nothing.
LEMMA InvUnchanged ==
  ASSUME Inv, UNCHANGED vars
  PROVE  Inv'
  <1>1. /\ pulse' = pulse /\ start' = start /\ load' = load /\ flags' = flags /\ result' = result
        /\ pop' = pop /\ eng' = eng /\ clus' = clus /\ fw' = fw /\ gap' = gap /\ job' = job
        /\ found' = found /\ read' = read /\ dropped' = dropped /\ scanned' = scanned
    BY DEF vars, hardware, firmware, history
  <1>2. TypeOK'
    BY <1>1 DEF Inv, TypeOK
  <1>3. EngineInv'
    BY <1>1 DEF Inv, EngineInv
  <1>4. Outside' /\ Emptied'
    BY <1>1 DEF Inv, Outside, Emptied, Searching, AllIdle
  <1>5. Launching'
    BY <1>1 DEF Inv, Launching, Searching, Waits, Overlap
  <1>6. Ending'
    BY <1>1 DEF Inv, Ending, Searching, Waits, AllIdle
  <1>7. Scanning'
    BY <1>1, SMTT(30) DEF Inv, Scanning, Searching, Compared, Waits, Lane
  <1>8. Results'
    <2>1. \A h : Genuine(h)' <=> Genuine(h)
      BY <1>1 DEF Genuine, Searching, Hits, Nonce
    <2>2. \A c, h : Inside(c, h)' <=> Inside(c, h)
      BY <1>1 DEF Inside
    <2>3. Results
      BY DEF Inv
    <2>4. Genuine(result)' <=> Genuine(result)
      BY <1>1 DEF Genuine, Searching, Hits, Nonce
    <2> QED
      BY <1>1, <2>1, <2>2, <2>3, <2>4 DEF Results
  <1>9. Seen' = Seen /\ \A c : Queued(c)' = Queued(c)
    BY <1>1 DEF Seen, Queued
  <1>10. \A c, h : /\ InQueue(c, h)' <=> InQueue(c, h)
                   /\ InStage2(c, h)' <=> InStage2(c, h)
                   /\ InStage1(c, h)' <=> InStage1(c, h)
                   /\ InEngine(c, h)' <=> InEngine(c, h)
    BY <1>1, <1>9 DEF InQueue, InStage2, InStage1, InEngine
  <1>11. Once'
    BY <1>1, <1>9, <1>10 DEF Inv, Once
  <1>12. Reading'
    BY <1>1 DEF Inv, Reading, Popping
  <1>13. Kept'
    <2>1. \A c, h : Somewhere(c, h)' <=> Somewhere(c, h)
      BY <1>10 DEF Somewhere
    <2>2. Kept
      BY DEF Inv
    <2> QED
      BY <1>1, <1>9, <2>1, <2>2 DEF Kept, Searching
  <1>14. LossFlagged'
    BY <1>1 DEF Inv, LossFlagged
  <1> QED
    BY <1>2, <1>3, <1>4, <1>5, <1>6, <1>7, <1>8, <1>11, <1>12, <1>13, <1>14 DEF Inv

\* Every step keeps the invariant.
LEMMA InvNext ==
  ASSUME SetFacts, Inv, [Next]_vars
  PROVE  Inv'
  <1>1. \/ UNCHANGED vars \/ WriteStart \/ WriteClear \/ WriteStop
        \/ \E w : SearchStep(w) \/ OutsideStep(w)
    BY Steps
  <1> QED
    BY <1>1, InvUnchanged, StartPreserves, ClearPreserves, StopPreserves, SearchPreserves, OutsidePreserves
=============================================================================
