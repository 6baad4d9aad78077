--------------------------- MODULE MinerCoreProof ---------------------------
(***************************************************************************)
(* What the firmware may rely on in the mining core, for any number of      *)
(* engines and clusters, any depth of the FIFOs, any range and any latency of*)
(* a compression.                                                           *)
(***************************************************************************)
EXTENDS MinerResultProof, FiniteSetTheorems, WellFoundedInduction

\* A nonempty set of naturals, here of engine numbers, has a least member.
LEMMA LeastNat ==
  ASSUME NEW S \in SUBSET Nat, S # {}
  PROVE  \E x \in S : \A y \in S : x <= y
  <1>1. IsWellFoundedOn(OpToRel(<, Nat), Nat)
    BY NatLessThanWellFounded
  <1>2. PICK x \in S : \A y \in S : ~(<<y, x>> \in OpToRel(<, Nat))
    BY <1>1, WFMin
  <1>3. \A y \in S : x <= y
    <2> TAKE y \in S
    <2>1. x \in Nat /\ y \in Nat
      OBVIOUS
    <2>2. ~(y < x)
      BY <1>2, <2>1 DEF OpToRel
    <2> QED
      BY <2>1, <2>2
  <1> QED
    BY <1>3

\* The facts about sets that the proof of the inductive invariant starts from.
LEMMA SetFactsHold == SetFacts
  <1>1. ASSUME NEW f
        PROVE  IsFiniteSet({f[e] : e \in Engines})
    <2>1. IsFiniteSet(Engines)
      BY FS_Interval, Sizes DEF Engines
    <2>2. PICK g : g = [e \in Engines |-> f[e]]
      OBVIOUS
    <2>3. g \in Surjection(Engines, {f[e] : e \in Engines})
      BY <2>2 DEF Surjection
    <2> QED
      BY <2>1, <2>3, FS_Surjection
  <1>2. ASSUME NEW S, NEW T, IsFiniteSet(T), S \subseteq T
        PROVE  IsFiniteSet(S)
    BY <1>2, FS_Subset
  <1>3. ASSUME NEW S, IsFiniteSet(S), NEW g \in S, NEW h \in S, g # h
        PROVE  Cardinality(S) > 1
    <2>1. IsFiniteSet({g}) /\ Cardinality({g}) = 1
      BY FS_Singleton
    <2>2. Cardinality({g} \cup {h}) = Cardinality({g}) + 1
      BY <1>3, <2>1, FS_AddElement
    <2>3. {g} \cup {h} \subseteq S
      OBVIOUS
    <2>4. Cardinality({g} \cup {h}) <= Cardinality(S) /\ Cardinality(S) \in Nat
      BY <1>3, <2>3, FS_Subset, FS_CardinalityType
    <2> QED
      BY <2>1, <2>2, <2>4
  <1> QED
    BY <1>1, <1>2, <1>3, LeastNat DEF SetFacts

\* The invariant holds of the core and its driver.
THEOREM InvHolds == Spec => []Inv
  <1>1. Init => Inv
    BY InitInv, SetFactsHold
  <1>2. Inv /\ [Next]_vars => Inv'
    BY InvNext, SetFactsHold
  <1> QED
    BY <1>1, <1>2, PTL DEF Spec
-----------------------------------------------------------------------------
(* What the firmware may rely on.                                           *)

\* stop, drain, clear precedes every replacement job (stratum.c:2-3): a nonce that
\* the firmware is about to read is of the current job, its digest is of that very
\* nonce, and it has not been read before.  For any number of engines and clusters,
\* any depth of the FIFOs, any latency of a compression and any range.
THEOREM ReadsAreCurrent == Spec => []ResultIsCurrent
  <1>1. Inv => ResultIsCurrent
    BY DEF Inv, Reading, Results, Genuine, Searching, ResultIsCurrent
  <1> QED
    BY <1>1, InvHolds, PTL

\* A result that a FIFO loses is reported: overflow is in the register or on its way
\* there (bitcoin_result_cluster_fifo.sv, bitcoin_miner_axi.sv).
THEOREM LossesFlagged == Spec => []LossFlagged
  <1>1. Inv => LossFlagged
    BY DEF Inv
  <1> QED
    BY <1>1, InvHolds, PTL

\* The lanes of the engines divide the range.
LEMMA LanesApart ==
  ASSUME NEW e \in Engines, NEW d \in Engines, NEW i \in Nat, NEW j \in Nat,
         e + i * NumEngines = d + j * NumEngines
  PROVE  e = d /\ i = j
  <1>1. e \in Nat /\ d \in Nat /\ e < NumEngines /\ d < NumEngines /\ NumEngines \in Nat \ {0}
    BY Sizes DEF Engines
  <1>2. ASSUME NEW a \in Nat, NEW b \in Nat, a < b
        PROVE  b * NumEngines >= a * NumEngines + NumEngines
    <2>1. b * NumEngines >= (a + 1) * NumEngines
      BY <1>1, <1>2
    <2>2. (a + 1) * NumEngines = a * NumEngines + NumEngines
      BY <1>1
    <2> QED
      BY <2>1, <2>2
  <1>3. i * NumEngines \in Nat /\ j * NumEngines \in Nat
    BY <1>1
  <1>4. ~(i < j) /\ ~(j < i)
    BY <1>1, <1>2, <1>3
  <1>5. i = j
    BY <1>4
  <1> QED
    BY <1>1, <1>3, <1>5

\* Every nonce of the range is in a lane.
LEMMA LanesCover ==
  ASSUME NEW m \in 0 .. Count - 1
  PROVE  \E e \in Engines, i \in Nat : i < LaneCount(e) /\ m = e + i * NumEngines
  <1>1. m \in Nat /\ m < Count /\ Count \in Nat /\ NumEngines \in Nat \ {0}
    BY Sizes
  <1>2. PICK i \in Int, e \in 0 .. NumEngines - 1 : m = NumEngines * i + e /\ i = m \div NumEngines
    <2>1. m = NumEngines * (m \div NumEngines) + (m % NumEngines)
          /\ m \div NumEngines \in Int /\ m % NumEngines \in 0 .. NumEngines - 1
      BY <1>1
    <2> QED
      BY <2>1
  <1>3. i \in Nat
    BY <1>1, <1>2, DivisionFacts
  <1>4. e \in Engines /\ m = e + i * NumEngines
    BY <1>1, <1>2, <1>3 DEF Engines
  <1>5. i < LaneCount(e)
    BY <1>1, <1>3, <1>4, Lanes
  <1> QED
    BY <1>3, <1>4, <1>5

\* nonce_done followed by an empty result register means what service_results takes
\* it for when it starts the next range (bitcoin_miner_axi.sv:613-618,
\* stratum.c:169-172): every nonce of the range was compared, by one engine, and
\* every result of it was read or counted as lost.
THEOREM RangesComplete == Spec => []RangeComplete
  <1>1. ASSUME Inv, fw = "nextrange"
        PROVE  /\ {n.nonce : n \in scanned} = 0 .. Count - 1
               /\ Cardinality(scanned) = Count
               /\ found \subseteq read \cup dropped
    <2>1. /\ Searching /\ TypeOK /\ EngineInv /\ Launching /\ Ending /\ Scanning /\ Kept
      BY <1>1 DEF Inv, Searching
    <2>2. /\ "done" \in flags /\ result = None
          /\ \A c \in Clusters : clus[c].stage1 = {} /\ clus[c].stage2 = None /\ clus[c].queue = <<>>
          /\ \A e \in Engines : ~Waits(e) /\ eng[e].state = "idle" /\ eng[e].valid = None
      BY <1>1, <2>1 DEF Ending, AllIdle, EngineInv
    <2>3. \A n : n \in scanned <=> \E e \in Engines, i \in Nat : i < LaneCount(e) /\ n = Lane(e, i)
      <3>1. \A e \in Engines : Compared(e) = LaneCount(e)
        BY <2>2 DEF Compared
      <3> QED
        BY <2>1, <3>1 DEF Scanning
    <2>4. \A e \in Engines, i \in Nat : Lane(e, i).nonce = e + i * NumEngines
      BY DEF Lane
    <2>5. ASSUME NEW n \in scanned
          PROVE  n.nonce \in 0 .. Count - 1
      <3>1. PICK e \in Engines, i \in Nat : i < LaneCount(e) /\ n = Lane(e, i)
        BY <2>3
      <3>2. n.nonce = e + i * NumEngines /\ n.nonce < Count
        BY <2>4, <3>1, Lanes
      <3>3. e \in Nat /\ NumEngines \in Nat /\ Count \in Nat
        BY Sizes DEF Engines
      <3>4. i * NumEngines \in Nat
        BY <3>3
      <3> QED
        BY <3>2, <3>3, <3>4
    <2>6. ASSUME NEW m \in 0 .. Count - 1
          PROVE  \E n \in scanned : n.nonce = m
      <3>1. PICK e \in Engines, i \in Nat : i < LaneCount(e) /\ m = e + i * NumEngines
        BY LanesCover
      <3>2. Lane(e, i) \in scanned /\ Lane(e, i).nonce = m
        BY <2>3, <2>4, <3>1
      <3> QED
        BY <3>2
    <2>7. {n.nonce : n \in scanned} = 0 .. Count - 1
      BY <2>5, <2>6
    <2>8. ASSUME NEW a \in scanned, NEW b \in scanned, a.nonce = b.nonce
          PROVE  a = b
      <3>1. PICK e \in Engines, i \in Nat : a = Lane(e, i)
        BY <2>3
      <3>2. PICK d \in Engines, j \in Nat : b = Lane(d, j)
        BY <2>3
      <3>3. e = d /\ i = j
        BY <2>4, <2>8, <3>1, <3>2, LanesApart
      <3> QED
        BY <3>1, <3>2, <3>3
    <2>9. Cardinality(scanned) = Count
      <3>1. PICK f : f = [n \in scanned |-> n.nonce]
        OBVIOUS
      <3>2. f \in [scanned -> 0 .. Count - 1]
        BY <2>5, <3>1
      <3>3. f \in Injection(scanned, 0 .. Count - 1)
        BY <2>8, <3>1, <3>2 DEF Injection, IsInjective
      <3>4. f \in Surjection(scanned, 0 .. Count - 1)
        BY <2>6, <3>1, <3>2 DEF Surjection
      <3>5. IsFiniteSet(0 .. Count - 1) /\ Cardinality(0 .. Count - 1) = Count
        BY FS_Interval, Sizes
      <3> QED
        BY <3>3, <3>4, <3>5, FS_Injection
    <2>10. found \subseteq read \cup dropped
      <3>1. ASSUME NEW c \in Clusters, NEW h
            PROVE  ~Somewhere(c, h)
        BY <2>2 DEF Somewhere, InQueue, InStage2, InStage1, InEngine, Queued, InCluster
      <3>2. Seen = read
        BY <2>2 DEF Seen
      <3> QED
        BY <2>1, <3>1, <3>2 DEF Kept
    <2> QED
      BY <2>7, <2>9, <2>10
  <1>2. Inv => RangeComplete
    BY <1>1 DEF RangeComplete
  <1> QED
    BY <1>2, InvHolds, PTL
=============================================================================
