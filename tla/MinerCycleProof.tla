-------------------------- MODULE MinerCycleProof ---------------------------
(***************************************************************************)
(* The mining core, cycle by cycle: for any number of engines and clusters, *)
(* any depth of the FIFOs, any range and any latency of a compression, what *)
(* one clock cycle does, how the engines are launched, when a range is      *)
(* complete, and which nonces have been compared.  The conjuncts of the     *)
(* inductive invariant that speak of engines, launch, end and histories are *)
(* here; MinerResultProof follows the results, MinerCoreProof concludes.    *)
(***************************************************************************)
EXTENDS MinerCore, TLAPS

\* Where the firmware can be; what a result identifies.
Labels == {"clear", "start", "poll", "nonce", "ack", "status", "empty", "nextrange", "delay", "stopack"}
Nonce == [job : Nat, nonce : Int, engine : Engines]
Hits == [id : Nonce, of : Nonce]

EngineType ==
  [state : {"idle", "launch", "pass1", "pass2", "compare", "check"}, work : Nat, left : Int,
   coreStart : BOOLEAN, core : Nat, coreDone : BOOLEAN, input : Nonce \cup {None},
   digest : Nonce \cup {None}, second : BOOLEAN, done : BOOLEAN, valid : Hits \cup {None}]

\* A compression core at rest; one that compresses the block of nonce n; what an
\* engine that works knows about the nonce it is at.
Quiet(r) == r.core = 0 /\ ~r.coreStart /\ ~r.coreDone
Compressing(r, n) ==
  \/ r.coreStart /\ r.core = 0 /\ ~r.coreDone
  \/ ~r.coreStart /\ r.input = n /\ (r.coreDone <=> r.core = 0)
Working(r, e) ==
  /\ r.left \in 1 .. LaneCount(e) /\ ~r.done
  /\ r.state \in {"launch", "compare", "check"} => Quiet(r)
  /\ r.state = "launch" /\ r.second => r.digest = NonceOf(r, e)
  /\ r.state = "pass1" => ~r.second /\ Compressing(r, NonceOf(r, e))
  /\ r.state = "pass2" => r.second /\ r.digest = NonceOf(r, e) /\ Compressing(r, NonceOf(r, e))
  /\ r.state = "compare" => r.digest = NonceOf(r, e)
  /\ r.valid # None => r.state = "check" /\ r.valid = [id |-> NonceOf(r, e), of |-> NonceOf(r, e)]

\* How many nonces of its lane a working engine has compared.
Position(r, e) == LaneCount(e) - r.left + IF r.state = "check" THEN 1 ELSE 0

\* The sizes of things.
LEMMA Sizes ==
  /\ NumEngines \in Nat /\ NumEngines >= 2 /\ ClusterSize \in Nat \ {0} /\ Depth \in Nat \ {0}
  /\ Gap \in Nat /\ Gap >= 2 /\ Count \in Nat /\ Latency \subseteq Nat \ {0}
  BY CoreAssumption

\* The quotient is the greatest number of whole divisors.
LEMMA DivisionFacts ==
  ASSUME NEW a \in Nat, NEW b \in Nat \ {0}
  PROVE  /\ a \div b \in Nat
         /\ \A k \in Nat : k <= a \div b <=> k * b <= a
  <1>1. PICK q \in Int, r \in 0 .. b - 1 : a = b * q + r /\ a \div b = q
    <2>1. a = b * (a \div b) + (a % b) /\ a \div b \in Int /\ a % b \in 0 .. b - 1
      OBVIOUS
    <2> QED
      BY <2>1
  <1>2. q \in Nat
    BY <1>1
  <1>3. ASSUME NEW k \in Nat
        PROVE  k <= q <=> k * b <= a
    <2>1. k <= q => k * b <= q * b
      BY <1>2
    <2>2. k >= q + 1 => k * b >= (q + 1) * b
      BY <1>2
    <2>3. (q + 1) * b = b * q + b /\ q * b = b * q /\ k * b \in Int /\ b * q \in Int
      BY <1>2
    <2> QED
      BY <1>1, <1>2, <2>1, <2>2, <2>3
  <1> QED
    BY <1>1, <1>2, <1>3

\* The lane of engine e: the nonces e, e + NumEngines, ... of the range.
LEMMA Lanes ==
  ASSUME NEW e \in Engines
  PROVE  /\ LaneCount(e) \in Nat /\ (LaneCount(e) > 0 <=> Count > e)
         /\ \A i \in Nat : i < LaneCount(e) <=> e + i * NumEngines < Count
  <1>1. e \in Nat /\ Count \in Nat /\ NumEngines \in Nat \ {0}
    BY Sizes DEF Engines
  <1>2. CASE Count > e
    <2>1. PICK a \in Nat : a = Count - 1 - e
      BY <1>1, <1>2
    <2>2. /\ a \div NumEngines \in Nat
          /\ \A k \in Nat : k <= a \div NumEngines <=> k * NumEngines <= a
      BY <1>1, DivisionFacts
    <2>3. LaneCount(e) = a \div NumEngines + 1
      BY <1>2, <2>1 DEF LaneCount
    <2>4. ASSUME NEW i \in Nat
          PROVE  i < LaneCount(e) <=> e + i * NumEngines < Count
      <3>1. i * NumEngines \in Int
        BY <1>1
      <3> QED
        BY <1>1, <2>1, <2>2, <2>3, <3>1
    <2> QED
      BY <1>2, <2>2, <2>3, <2>4
  <1>3. CASE ~(Count > e)
    <2>1. LaneCount(e) = 0
      BY <1>3 DEF LaneCount
    <2>2. ASSUME NEW i \in Nat
          PROVE  e + i * NumEngines >= Count
      <3>1. i * NumEngines \in Nat
        BY <1>1
      <3> QED
        BY <1>1, <1>3, <3>1
    <2>3. \A i \in Nat : i * NumEngines \in Int
      BY <1>1
    <2> QED
      BY <1>1, <1>3, <2>1, <2>2, <2>3
  <1> QED
    BY <1>2, <1>3

\* What NonceOf returns.
LEMMA NonceType ==
  ASSUME NEW e \in Engines, NEW r \in EngineType
  PROVE  NonceOf(r, e) \in Nonce
  <1>1. r.work \in Nat /\ r.left \in Int /\ e \in Int /\ NumEngines \in Int /\ LaneCount(e) \in Int
    BY Sizes, Lanes DEF EngineType, Engines
  <1>2. (LaneCount(e) - r.left) * NumEngines \in Int
    BY <1>1
  <1>3. LaneNonce(e, r.left) \in Int
    BY <1>1, <1>2 DEF LaneNonce
  <1> QED
    BY <1>1, <1>3 DEF NonceOf, Nonce

\* The core: what it does to the fields that are its own.
CoreEffect(r, e, l, n) ==
  /\ n.state = r.state /\ n.work = r.work /\ n.left = r.left /\ n.digest = r.digest
  /\ n.second = r.second /\ ~n.coreStart
  /\ r.coreStart /\ r.core = 0 =>
       n.core = l /\ ~n.coreDone /\ n.input = IF r.second THEN r.digest ELSE NonceOf(r, e)
  /\ ~(r.coreStart /\ r.core = 0) =>
       /\ n.core = IF r.core > 0 THEN r.core - 1 ELSE 0
       /\ n.coreDone <=> r.core = 1
       /\ n.input = r.input

\* CoreNext changes the core's own fields only, as CoreEffect says.
LEMMA CoreStep ==
  ASSUME NEW e \in Engines, NEW r \in EngineType, NEW l \in Nat,
         NEW n, n = CoreNext(r, e, l)
  PROVE  n \in EngineType /\ CoreEffect(r, e, l, n)
  <1>1. NonceOf(r, e) \in Nonce
    BY NonceType
  <1>2. CASE r.coreStart /\ r.core = 0
    <2>1. n = [r EXCEPT !.coreStart = FALSE, !.core = l, !.coreDone = FALSE,
                                        !.input = IF r.second THEN r.digest ELSE NonceOf(r, e)]
      BY <1>2 DEF CoreNext
    <2> QED
      BY <1>1, <1>2, <2>1 DEF EngineType, CoreEffect
  <1>3. CASE ~(r.coreStart /\ r.core = 0)
    <2>1. n = [r EXCEPT !.coreStart = FALSE,
                                        !.core = IF r.core > 0 THEN r.core - 1 ELSE 0,
                                        !.coreDone = (r.core = 1)]
      BY <1>3 DEF CoreNext
    <2>2. PICK k \in Nat : k = IF r.core > 0 THEN r.core - 1 ELSE 0
      BY DEF EngineType
    <2>3. PICK d \in BOOLEAN : d <=> r.core = 1
      OBVIOUS
    <2>4. n = [r EXCEPT !.coreStart = FALSE, !.core = k, !.coreDone = d]
      BY <2>1, <2>2, <2>3
    <2> QED
      BY <1>3, <2>2, <2>3, <2>4 DEF EngineType, CoreEffect
  <1> QED
    BY <1>2, <1>3

\* The pulses done and valid are low unless a state sets them.
LEMMA Lowered ==
  ASSUME NEW n \in EngineType, NEW k, k = [n EXCEPT !.done = FALSE, !.valid = None]
  PROVE  /\ k \in EngineType /\ ~k.done /\ k.valid = None
         /\ k.state = n.state /\ k.work = n.work /\ k.left = n.left /\ k.digest = n.digest
         /\ k.second = n.second /\ k.input = n.input
         /\ k.core = n.core /\ k.coreStart = n.coreStart /\ k.coreDone = n.coreDone
  BY DEF EngineType

\* One cycle of an engine that is stopped, or idle and not started.
LEMMA IdleStep ==
  ASSUME NEW e \in Engines, NEW r \in EngineType, NEW l \in Nat, NEW hit \in BOOLEAN,
         "stop" \in pulse \/ (r.state = "idle" /\ ~(e \in start /\ LaneCount(e) > 0)),
         NEW m, m = EngineNext(r, CoreNext(r, e, l), e, hit)
  PROVE  /\ m \in EngineType /\ m.state = "idle" /\ m.valid = None
         /\ r.core = 0 /\ ~r.coreStart => Quiet(m)
  <1>1. PICK n : n = CoreNext(r, e, l)
    OBVIOUS
  <1>2. /\ n \in EngineType /\ n.state = r.state /\ ~n.coreStart
        /\ r.core = 0 /\ ~r.coreStart => n.core = 0 /\ ~n.coreDone
    BY <1>1, CoreStep DEF CoreEffect
  <1>3. PICK d \in BOOLEAN : m = [n EXCEPT !.state = "idle", !.done = d, !.valid = None]
    <2>1. CASE "stop" \in pulse
      <3>1. PICK d \in BOOLEAN : d <=> r.state # "idle"
        OBVIOUS
      <3>2. m = [[n EXCEPT !.done = FALSE, !.valid = None] EXCEPT !.state = "idle", !.done = d]
        BY <1>1, <2>1, <3>1 DEF EngineNext
      <3>3. m = [n EXCEPT !.state = "idle", !.done = d, !.valid = None]
        BY <3>2 DEF EngineType
      <3> QED
        BY <3>3
    <2>2. CASE "stop" \notin pulse
      <3>1. m = [n EXCEPT !.done = FALSE, !.valid = None]
        BY <1>1, <2>2 DEF EngineNext
      <3>2. m = [n EXCEPT !.state = "idle", !.done = FALSE, !.valid = None]
        BY <1>2, <2>2, <3>1 DEF EngineType
      <3> QED
        BY <3>2
    <2> QED
      BY <2>1, <2>2
  <1>4. m \in EngineType /\ m.state = "idle" /\ m.valid = None
        /\ m.core = n.core /\ m.coreStart = n.coreStart /\ m.coreDone = n.coreDone
    BY <1>2, <1>3 DEF EngineType
  <1> QED
    BY <1>2, <1>4 DEF Quiet

\* One cycle of an idle engine that is started with work to do.
LEMMA LaunchStep ==
  ASSUME NEW e \in Engines, NEW r \in EngineType, NEW l \in Nat, NEW hit \in BOOLEAN,
         "stop" \notin pulse, r.state = "idle", e \in start, LaneCount(e) > 0, Quiet(r), job \in Nat,
         NEW m, m = EngineNext(r, CoreNext(r, e, l), e, hit)
  PROVE  /\ m \in EngineType /\ m.state = "launch" /\ ~m.second /\ m.work = job /\ m.valid = None
         /\ Working(m, e) /\ Position(m, e) = 0
  <1>1. PICK n : n = CoreNext(r, e, l)
    OBVIOUS
  <1>2. n \in EngineType /\ ~n.coreStart /\ n.core = 0 /\ ~n.coreDone
    BY <1>1, CoreStep DEF Quiet, CoreEffect
  <1>3. PICK k : k = [n EXCEPT !.done = FALSE, !.valid = None]
    OBVIOUS
  <1>4. LaneCount(e) \in Nat /\ LaneCount(e) >= 1
    BY Lanes
  <1>7. m = [k EXCEPT !.state = "launch", !.work = job, !.left = LaneCount(e),
                      !.second = FALSE, !.digest = None]
    BY <1>1, <1>3 DEF EngineNext
  <1>8. /\ k \in EngineType /\ ~k.done /\ k.valid = None
        /\ k.core = n.core /\ k.coreStart = n.coreStart /\ k.coreDone = n.coreDone
    BY <1>2, <1>3, Lowered
  <1>9. m \in EngineType
    <2>1. PICK c \in Int, j \in Nat : c = LaneCount(e) /\ j = job
      BY <1>4
    <2>2. m = [k EXCEPT !.state = "launch", !.work = j, !.left = c, !.second = FALSE, !.digest = None]
      BY <1>7, <2>1
    <2> QED
      BY <1>8, <2>2 DEF EngineType
  <1>5. /\ m \in EngineType /\ m.state = "launch" /\ ~m.second /\ m.work = job /\ m.valid = None
        /\ ~m.done /\ m.left = LaneCount(e)
        /\ m.core = n.core /\ m.coreStart = n.coreStart /\ m.coreDone = n.coreDone
    BY <1>4, <1>7, <1>8, <1>9 DEF EngineType
  <1>6. Quiet(m)
    BY <1>2, <1>5 DEF Quiet
  <1> QED
    BY <1>4, <1>5, <1>6 DEF Working, Position

\* One cycle of an engine that works: it goes on with the same nonce, or with
\* the next one of its lane, or ends after the last.
Advances(r, m, e) ==
  IF r.state = "check" /\ r.left = 1
  THEN m.state = "idle" /\ Quiet(m)
  ELSE /\ m.state # "idle" /\ Working(m, e)
       /\ Position(m, e) = Position(r, e) + IF r.state = "compare" THEN 1 ELSE 0

\* The nonce depends on the work and on what is left of the lane.
LEMMA SameNonce ==
  ASSUME NEW e, NEW r, NEW m, m.work = r.work, m.left = r.left
  PROVE  NonceOf(m, e) = NonceOf(r, e)
  BY DEF NonceOf

\* One cycle of an engine that works: it advances, and its valid pulse carries the
\* nonce it has just compared.
LEMMA WorkStep ==
  ASSUME NEW e \in Engines, NEW r \in EngineType, NEW l \in Nat, NEW hit \in BOOLEAN,
         "stop" \notin pulse, r.state # "idle", Working(r, e), r.coreStart /\ r.core = 0 => l > 0,
         NEW m, m = EngineNext(r, CoreNext(r, e, l), e, hit)
  PROVE  /\ m \in EngineType /\ m.work = r.work /\ Advances(r, m, e)
         /\ m.valid = IF r.state = "compare" /\ hit
                      THEN [id |-> NonceOf(r, e), of |-> NonceOf(r, e)] ELSE None
         /\ r.state = "launch" /\ ~r.second => m.state = "pass1" /\ m.coreStart
         /\ r.state = "pass1" /\ r.coreStart => m.state = "pass1"
  <1>1. PICK n : n = CoreNext(r, e, l)
    OBVIOUS
  <1>2. n \in EngineType /\ CoreEffect(r, e, l, n)
    BY <1>1, CoreStep
  <1>3. PICK k : k = [n EXCEPT !.done = FALSE, !.valid = None]
    OBVIOUS
  <1>4. /\ k \in EngineType /\ ~k.done /\ k.valid = None
        /\ k.state = r.state /\ k.work = r.work /\ k.left = r.left /\ k.digest = r.digest
        /\ k.second = r.second /\ k.input = n.input
        /\ k.core = n.core /\ ~k.coreStart /\ k.coreDone = n.coreDone
    <2>1. /\ k \in EngineType /\ ~k.done /\ k.valid = None
          /\ k.state = n.state /\ k.work = n.work /\ k.left = n.left /\ k.digest = n.digest
          /\ k.second = n.second /\ k.input = n.input
          /\ k.core = n.core /\ k.coreStart = n.coreStart /\ k.coreDone = n.coreDone
      BY <1>2, <1>3, Lowered, ZenonT(40)
    <2> QED
      BY <1>2, <2>1, Zenon DEF CoreEffect
  <1>5. r.left \in 1 .. LaneCount(e) /\ LaneCount(e) \in Nat /\ r.core \in Nat /\ NonceOf(r, e) \in Nonce
    BY Lanes, NonceType DEF Working, EngineType
  <1>6. CASE r.state = "launch"
    <2>1. m = [k EXCEPT !.coreStart = TRUE, !.state = IF r.second THEN "pass2" ELSE "pass1"]
      BY <1>1, <1>3, <1>6 DEF EngineNext
    <2>2. /\ m \in EngineType /\ m.work = r.work /\ m.left = r.left /\ m.digest = r.digest
          /\ m.second = r.second /\ m.coreStart /\ ~m.done /\ m.valid = None
          /\ m.core = n.core /\ m.coreDone = n.coreDone
          /\ m.state = IF r.second THEN "pass2" ELSE "pass1"
      BY <1>4, <2>1 DEF EngineType
    <2>3. m.core = 0 /\ ~m.coreDone
      BY <1>2, <1>6, <2>2 DEF Working, Quiet, CoreEffect
    <2>4. NonceOf(m, e) = NonceOf(r, e)
      BY <2>2, SameNonce
    <2>5. Working(m, e)
      BY <1>5, <1>6, <2>2, <2>3, <2>4 DEF Working, Compressing
    <2> QED
      BY <1>5, <1>6, <2>2, <2>5 DEF Advances, Position
  <1>7. CASE r.state \in {"pass1", "pass2"} /\ ~r.coreDone
    <2>1. m = k
      BY <1>1, <1>3, <1>7 DEF EngineNext
    <2>2. NonceOf(m, e) = NonceOf(r, e)
      BY <1>4, <2>1, SameNonce
    <2>3. Compressing(r, NonceOf(r, e)) /\ (r.state = "pass2" => r.second /\ r.digest = NonceOf(r, e))
          /\ (r.state = "pass1" => ~r.second)
      BY <1>7 DEF Working
    <2>4. Compressing(m, NonceOf(r, e))
      <3>1. CASE r.coreStart /\ r.core = 0
        <4>1. n.core > 0 /\ ~n.coreDone /\ n.input = NonceOf(r, e)
          BY <1>2, <1>7, <2>3, <3>1 DEF CoreEffect
        <4> QED
          BY <1>4, <2>1, <4>1 DEF Compressing
      <3>2. CASE ~(r.coreStart /\ r.core = 0)
        <4>1. r.input = NonceOf(r, e) /\ r.core > 0
          BY <1>5, <1>7, <2>3, <3>2 DEF Compressing
        <4>2. n.input = NonceOf(r, e) /\ (n.coreDone <=> n.core = 0)
          BY <1>2, <1>5, <3>2, <4>1 DEF CoreEffect
        <4> QED
          BY <1>4, <2>1, <4>2 DEF Compressing
      <3> QED
        BY <3>1, <3>2
    <2>5. Working(m, e)
      BY <1>4, <1>5, <1>7, <2>1, <2>2, <2>3, <2>4 DEF Working
    <2> QED
      BY <1>4, <1>5, <1>7, <2>1, <2>5 DEF Advances, Position
  <1>8. CASE r.state \in {"pass1", "pass2"} /\ r.coreDone
    <2>1. ~r.coreStart /\ r.core = 0 /\ r.input = NonceOf(r, e) /\ (r.state = "pass2" => r.second)
      BY <1>8 DEF Working, Compressing
    <2>2. n.core = 0 /\ ~n.coreDone
      BY <1>2, <2>1 DEF CoreEffect
    <2>3. CASE r.state = "pass1"
      <3>0. m = [k EXCEPT !.digest = r.input, !.second = TRUE, !.state = "launch"]
        BY <1>1, <1>3, <1>8, <2>3 DEF EngineNext
      <3>1. PICK d \in Nonce : d = NonceOf(r, e) /\ m = [k EXCEPT !.digest = d, !.second = TRUE, !.state = "launch"]
        BY <1>5, <2>1, <3>0
      <3>2. /\ m \in EngineType /\ m.work = r.work /\ m.left = r.left /\ m.digest = NonceOf(r, e)
            /\ m.second /\ ~m.coreStart /\ ~m.done /\ m.valid = None
            /\ m.core = n.core /\ m.coreDone = n.coreDone /\ m.state = "launch"
        <4>1. m \in EngineType
          BY <1>4, <3>1 DEF EngineType
        <4>2. /\ m.digest = d /\ m.second = TRUE /\ m.state = "launch"
              /\ m.work = k.work /\ m.left = k.left /\ m.coreStart = k.coreStart /\ m.done = k.done
              /\ m.valid = k.valid /\ m.core = k.core /\ m.coreDone = k.coreDone
          BY <1>4, <3>1 DEF EngineType
        <4> QED
          BY <1>4, <1>5, <2>1, <3>1, <4>1, <4>2
      <3>3. NonceOf(m, e) = NonceOf(r, e)
        BY <3>2, SameNonce
      <3>4. Working(m, e)
        BY <1>5, <2>2, <3>2, <3>3 DEF Working, Quiet
      <3> QED
        BY <1>5, <2>1, <2>3, <3>2, <3>4 DEF Advances, Position
    <2>4. CASE r.state = "pass2"
      <3>0. m = [k EXCEPT !.digest = r.input, !.state = "compare"]
        BY <1>1, <1>3, <1>8, <2>4 DEF EngineNext
      <3>1. PICK d \in Nonce : d = NonceOf(r, e) /\ m = [k EXCEPT !.digest = d, !.state = "compare"]
        BY <1>5, <2>1, <3>0
      <3>2. /\ m \in EngineType /\ m.work = r.work /\ m.left = r.left /\ m.digest = NonceOf(r, e)
            /\ ~m.coreStart /\ ~m.done /\ m.valid = None
            /\ m.core = n.core /\ m.coreDone = n.coreDone /\ m.state = "compare"
        <4>1. m \in EngineType
          BY <1>4, <3>1 DEF EngineType
        <4>2. /\ m.digest = d /\ m.state = "compare"
              /\ m.work = k.work /\ m.left = k.left /\ m.coreStart = k.coreStart /\ m.done = k.done
              /\ m.valid = k.valid /\ m.core = k.core /\ m.coreDone = k.coreDone
          BY <1>4, <3>1 DEF EngineType
        <4> QED
          BY <1>4, <1>5, <2>1, <3>1, <4>1, <4>2
      <3>3. NonceOf(m, e) = NonceOf(r, e)
        BY <3>2, SameNonce
      <3>4. Working(m, e)
        BY <1>5, <2>2, <3>2, <3>3 DEF Working, Quiet
      <3> QED
        BY <1>5, <2>1, <2>4, <3>2, <3>4 DEF Advances, Position
    <2> QED
      BY <1>8, <2>3, <2>4
  <1>9. CASE r.state = "compare"
    <2>1. PICK v : v = IF hit THEN [id |-> NonceOf(r, e), of |-> r.digest] ELSE None
      OBVIOUS
    <2>2. m = [k EXCEPT !.state = "check", !.valid = v]
      BY <1>1, <1>3, <1>9, <2>1 DEF EngineNext
    <2>3. r.digest = NonceOf(r, e) /\ n.core = 0 /\ ~n.coreDone
      BY <1>2, <1>9 DEF Working, Quiet, CoreEffect
    <2>4. v \in Hits \cup {None}
      BY <1>5, <2>1, <2>3 DEF Hits
    <2>5. /\ m \in EngineType /\ m.work = r.work /\ m.left = r.left
          /\ ~m.coreStart /\ ~m.done /\ m.valid = v
          /\ m.core = n.core /\ m.coreDone = n.coreDone /\ m.state = "check"
      BY <1>4, <2>2, <2>4 DEF EngineType
    <2>6. NonceOf(m, e) = NonceOf(r, e)
      BY <2>5, SameNonce
    <2>7. Working(m, e)
      BY <1>5, <2>1, <2>3, <2>5, <2>6 DEF Working, Quiet
    <2> QED
      BY <1>5, <1>9, <2>1, <2>3, <2>5, <2>7 DEF Advances, Position
  <1>10. CASE r.state = "check"
    <2>1. n.core = 0 /\ ~n.coreDone
      BY <1>2, <1>10 DEF Working, Quiet, CoreEffect
    <2>2. CASE r.left = 1
      <3>1. m = [k EXCEPT !.done = TRUE, !.state = "idle"]
        BY <1>1, <1>3, <1>10, <2>2 DEF EngineNext
      <3>2. /\ m \in EngineType /\ m.work = r.work /\ m.state = "idle" /\ m.valid = None
            /\ ~m.coreStart /\ m.core = n.core /\ m.coreDone = n.coreDone
        BY <1>4, <3>1 DEF EngineType
      <3> QED
        BY <1>10, <2>1, <2>2, <3>2 DEF Advances, Quiet
    <2>3. CASE r.left # 1
      <3>1. PICK i \in Int : i = r.left - 1 /\ i \in 1 .. LaneCount(e)
        BY <1>5, <2>3
      <3>2. m = [k EXCEPT !.left = i, !.second = FALSE, !.state = "launch"]
        BY <1>1, <1>3, <1>5, <1>10, <2>3, <3>1 DEF EngineNext
      <3>3. /\ m \in EngineType /\ m.work = r.work /\ m.left = i
            /\ ~m.second /\ ~m.coreStart /\ ~m.done /\ m.valid = None
            /\ m.core = n.core /\ m.coreDone = n.coreDone /\ m.state = "launch"
        BY <1>4, <3>1, <3>2 DEF EngineType
      <3>4. Working(m, e)
        BY <2>1, <3>1, <3>3 DEF Working, Quiet
      <3> QED
        BY <1>5, <1>10, <2>3, <3>1, <3>3, <3>4 DEF Advances, Position
    <2> QED
      BY <2>2, <2>3
  <1> QED
    BY <1>6, <1>7, <1>8, <1>9, <1>10 DEF EngineType
-----------------------------------------------------------------------------
\* The types of all variables.
ClusterType ==
  [clear : BOOLEAN, stage1 : SUBSET Hits, overflow1 : BOOLEAN, stage2 : Hits \cup {None},
   overflow2 : BOOLEAN, queue : Seq(Hits), overflow : BOOLEAN]

TypeOK ==
  /\ pulse \subseteq {"start", "stop", "clear"} /\ start \subseteq Engines /\ load \in 0 .. LaunchCycles
  /\ flags \subseteq {"running", "done", "overflow"}
  /\ result \in Hits \cup {None} /\ pop \subseteq Clusters
  /\ eng \in [Engines -> EngineType] /\ clus \in [Clusters -> ClusterType]
  /\ fw \in Labels /\ gap \in 0 .. Gap - 1 /\ job \in Nat

Searching == fw \in {"poll", "nonce", "ack", "status", "empty", "nextrange"}

\* Every engine is idle, its core running out after STOP at most, or at work on a
\* nonce of its lane for the current job.
EngineInv ==
  \A e \in Engines :
    IF eng[e].state = "idle"
    THEN eng[e].valid = None /\ (fw # "delay" => Quiet(eng[e]))
    ELSE Working(eng[e], e) /\ eng[e].work = job

AllIdle == \A e \in Engines : eng[e].state = "idle"

\* Outside a search the core does not run, and engines that have not been stopped
\* yet are about to be.
Outside ==
  ~Searching => /\ load = 0 /\ start = {} /\ "running" \notin flags /\ "start" \notin pulse
                /\ "stop" \notin pulse => AllIdle
                /\ "stop" \in pulse => fw = "delay"

\* The engines that compare a digest in this cycle.
Comparing == {e \in Engines : eng[e].state = "compare" /\ "stop" \notin pulse}

\* EnginesNext, with the set of engines that hit made explicit.
LEMMA EnginesStep ==
  ASSUME EnginesNext
  PROVE  \E hits \in SUBSET Comparing :
           /\ DOMAIN eng' = Engines /\ eng' = [e \in Engines |-> eng'[e]]
           /\ found' = Current(found \cup {NonceOf(eng[e], e) : e \in hits})
           /\ scanned' = Current(scanned \cup {NonceOf(eng[e], e) : e \in Comparing})
           /\ \A e \in Engines : \E l \in Nat :
                /\ eng[e].coreStart /\ eng[e].core = 0 => l > 0
                /\ eng'[e] = EngineNext(eng[e], CoreNext(eng[e], e, l), e, e \in hits)
  <1> DEFINE starting == {e \in Engines : eng[e].coreStart /\ eng[e].core = 0}
  <1>1. PICK hits \in SUBSET Comparing, slow \in [starting -> Latency] :
          /\ eng' = [e \in Engines |->
                       EngineNext(eng[e], CoreNext(eng[e], e, IF e \in starting THEN slow[e] ELSE 0),
                                  e, e \in hits)]
          /\ found' = Current(found \cup {NonceOf(eng[e], e) : e \in hits})
          /\ scanned' = Current(scanned \cup {NonceOf(eng[e], e) : e \in Comparing})
    BY Zenon DEF EnginesNext, Comparing
  <1>2. ASSUME NEW e \in Engines
        PROVE  \E l \in Nat :
                 /\ eng[e].coreStart /\ eng[e].core = 0 => l > 0
                 /\ eng'[e] = EngineNext(eng[e], CoreNext(eng[e], e, l), e, e \in hits)
    <2>1. PICK l : l = IF e \in starting THEN slow[e] ELSE 0
      OBVIOUS
    <2>2. l \in Nat /\ (eng[e].coreStart /\ eng[e].core = 0 => l > 0)
      <3>1. e \in starting => slow[e] \in Nat \ {0}
        BY Sizes
      <3> QED
        BY <2>1, <3>1
    <2>3. eng'[e] = EngineNext(eng[e], CoreNext(eng[e], e, l), e, e \in hits)
      BY <1>1, <2>1, Zenon
    <2> QED
      BY <2>2, <2>3
  <1>3. DOMAIN eng' = Engines /\ eng' = [e \in Engines |-> eng'[e]]
    BY <1>1, Zenon
  <1> QED
    BY <1>1, <1>2, <1>3, Zenon

\* One cycle of an engine.
EngineMoves(e, hit) ==
  LET r == eng[e] m == eng'[e]
  IN  /\ m \in EngineType
      /\ "stop" \in pulse => m.state = "idle" /\ m.valid = None
      /\ r.core = 0 /\ ~r.coreStart /\ r.state = "idle" /\ e \notin start => Quiet(m)
      /\ "stop" \notin pulse /\ r.state = "idle" =>
           /\ m.valid = None
           /\ e \notin start => m.state = "idle"
           /\ e \in start => /\ m.state = "launch" /\ ~m.second /\ m.work = job
                             /\ Working(m, e) /\ Position(m, e) = 0
      /\ "stop" \notin pulse /\ r.state # "idle" =>
           /\ m.work = r.work /\ Advances(r, m, e)
           /\ m.valid = IF hit THEN [id |-> NonceOf(r, e), of |-> NonceOf(r, e)] ELSE None
           /\ r.state = "launch" /\ ~r.second => m.state = "pass1" /\ m.coreStart
           /\ r.state = "pass1" /\ r.coreStart => m.state = "pass1"

\* One cycle of an engine whose core and nonce are in order.
LEMMA EngineCycle ==
  ASSUME TypeOK, EngineInv, \A e \in start : LaneCount(e) > 0 /\ fw # "delay",
         NEW e \in Engines, NEW l \in Nat, NEW hit \in BOOLEAN,
         eng[e].coreStart /\ eng[e].core = 0 => l > 0,
         hit => eng[e].state = "compare",
         eng'[e] = EngineNext(eng[e], CoreNext(eng[e], e, l), e, hit)
  PROVE  EngineMoves(e, hit)
  <1>1. PICK r \in EngineType : r = eng[e]
    BY DEF TypeOK
  <1>2. PICK m : m = eng'[e]
    OBVIOUS
  <1>3. /\ r.coreStart /\ r.core = 0 => l > 0 
        /\ m = EngineNext(r, CoreNext(r, e, l), e, hit)
    BY <1>1, <1>2
  <1>4. IF r.state = "idle" THEN fw # "delay" => Quiet(r) ELSE Working(r, e)
    BY <1>1 DEF EngineInv
  <1>5. CASE "stop" \in pulse
    <2>1. m \in EngineType /\ m.state = "idle" /\ m.valid = None /\ (r.core = 0 /\ ~r.coreStart => Quiet(m))
      BY <1>3, <1>5, IdleStep
    <2> QED
      BY <1>1, <1>2, <1>5, <2>1, Zenon DEF EngineMoves
  <1>6. CASE "stop" \notin pulse /\ r.state = "idle" /\ e \notin start
    <2>1. m \in EngineType /\ m.state = "idle" /\ m.valid = None /\ (r.core = 0 /\ ~r.coreStart => Quiet(m))
      BY <1>3, <1>6, IdleStep
    <2> QED
      BY <1>1, <1>2, <1>6, <2>1, Zenon DEF EngineMoves
  <1>7. CASE "stop" \notin pulse /\ r.state = "idle" /\ e \in start
    <2>1. Quiet(r) /\ LaneCount(e) > 0 /\ job \in Nat
      BY <1>4, <1>7 DEF TypeOK
    <2>2. /\ m \in EngineType /\ m.state = "launch" /\ ~m.second /\ m.work = job /\ m.valid = None
          /\ Working(m, e) /\ Position(m, e) = 0
      BY <1>3, <1>7, <2>1, LaunchStep
    <2> QED
      BY <1>1, <1>2, <1>7, <2>2, Zenon DEF EngineMoves
  <1>8. CASE "stop" \notin pulse /\ r.state # "idle"
    <2>1. /\ m \in EngineType /\ m.work = r.work /\ Advances(r, m, e)
          /\ m.valid = IF r.state = "compare" /\ hit
                       THEN [id |-> NonceOf(r, e), of |-> NonceOf(r, e)] ELSE None
          /\ r.state = "launch" /\ ~r.second => m.state = "pass1" /\ m.coreStart
          /\ r.state = "pass1" /\ r.coreStart => m.state = "pass1"
      BY <1>3, <1>4, <1>8, WorkStep
    <2>2. m.valid = IF hit THEN [id |-> NonceOf(r, e), of |-> NonceOf(r, e)] ELSE None
      BY <1>1, <2>1
    <2> QED
      BY <1>1, <1>2, <1>8, <2>1, <2>2, Zenon DEF EngineMoves
  <1> QED
    BY <1>5, <1>6, <1>7, <1>8

\* One cycle of all engines, of which those in hits find a result.
EnginesMove(hits) ==
  /\ hits \subseteq Comparing /\ eng' \in [Engines -> EngineType]
  /\ found' = Current(found \cup {NonceOf(eng[e], e) : e \in hits})
  /\ scanned' = Current(scanned \cup {NonceOf(eng[e], e) : e \in Comparing})
  /\ \A e \in Engines : EngineMoves(e, e \in hits)

\* The engines' part of a clock cycle.
LEMMA EnginesCycle ==
  ASSUME TypeOK, EngineInv, \A e \in start : LaneCount(e) > 0 /\ fw # "delay", EnginesNext
  PROVE  \E hits : EnginesMove(hits)
  <1>1. PICK hits \in SUBSET Comparing :
           /\ DOMAIN eng' = Engines /\ eng' = [e \in Engines |-> eng'[e]]
           /\ found' = Current(found \cup {NonceOf(eng[e], e) : e \in hits})
           /\ scanned' = Current(scanned \cup {NonceOf(eng[e], e) : e \in Comparing})
           /\ \A e \in Engines : \E l \in Nat :
                /\ eng[e].coreStart /\ eng[e].core = 0 => l > 0
                /\ eng'[e] = EngineNext(eng[e], CoreNext(eng[e], e, l), e, e \in hits)
    BY EnginesStep
  <1>2. ASSUME NEW e \in Engines
        PROVE  EngineMoves(e, e \in hits)
    <2>1. PICK l \in Nat :
            /\ eng[e].coreStart /\ eng[e].core = 0 => l > 0
            /\ eng'[e] = EngineNext(eng[e], CoreNext(eng[e], e, l), e, e \in hits)
      BY <1>1
    <2>2. e \in hits => eng[e].state = "compare"
      BY DEF Comparing
    <2>3. CASE e \in hits
      <3>1. (e \in hits) = TRUE
        BY <2>3
      <3>2. EngineMoves(e, TRUE)
        BY <2>1, <2>2, <2>3, <3>1, EngineCycle
      <3> QED
        BY <3>1, <3>2
    <2>4. CASE e \notin hits
      <3>1. (e \in hits) = FALSE
        BY <2>4
      <3>2. EngineMoves(e, FALSE)
        BY <2>1, <3>1, EngineCycle
      <3> QED
        BY <3>1, <3>2
    <2> QED
      BY <2>3, <2>4
  <1>3. eng' \in [Engines -> EngineType]
    <2>1. \A e \in Engines : eng'[e] \in EngineType
      BY <1>2 DEF EngineMoves
    <2> QED
      BY <1>1, <2>1
  <1> QED
    BY <1>1, <1>2, <1>3 DEF EnginesMove
-----------------------------------------------------------------------------
\* The steps of core and firmware.
Later == gap' = IF gap > 0 THEN gap - 1 ELSE 0
SearchMove(w) ==
  \/ w = {} /\ UNCHANGED <<fw, read>> /\ Later
  \/ /\ gap = 0 /\ gap' = Gap - 1
     /\ \/ /\ w = {} /\ fw = "poll" /\ fw' = (IF result # None THEN "nonce" ELSE "status")
           /\ UNCHANGED read
        \/ w = {} /\ fw = "nonce" /\ fw' = "ack" /\ read' = read \cup {result.id}
        \/ w = {"ACK"} /\ fw = "ack" /\ fw' \in {"poll", "status"} /\ UNCHANGED read
        \/ /\ w = {} /\ fw = "status" /\ fw' = (IF "done" \in flags THEN "empty" ELSE "poll")
           /\ UNCHANGED read
        \/ /\ w = {} /\ fw = "empty" /\ fw' = (IF result # None THEN "poll" ELSE "nextrange")
           /\ UNCHANGED read
SearchStep(w) == Searching /\ Searching' /\ w \in {{}, {"ACK"}} /\ UNCHANGED job /\ SearchMove(w) /\ Clock(w)

OutsideMove(w) ==
  \/ w = {} /\ UNCHANGED fw /\ Later
  \/ /\ gap = 0 /\ gap' = Gap - 1
     /\ \/ w = {"CLEAR"} /\ fw = "delay" /\ fw' = "stopack" /\ Drained
        \/ w = {"ACK", "ACKOVERFLOW"} /\ fw = "stopack" /\ fw' = "clear"
OutsideStep(w) ==
  /\ ~Searching /\ ~Searching' /\ w \in {{}, {"CLEAR"}, {"ACK", "ACKOVERFLOW"}}
  /\ UNCHANGED <<job, read>> /\ OutsideMove(w) /\ Clock(w)

\* Every step is one of five: one within a search, one outside, or the one that
\* writes START, CLEAR or STOP across the border.
LEMMA Steps ==
  ASSUME [Next]_vars
  PROVE  \/ UNCHANGED vars \/ WriteStart \/ WriteClear \/ WriteStop
         \/ \E w : SearchStep(w) \/ OutsideStep(w)
  <1>1. CASE Wait
    <2>1. CASE Searching
      <3>1. SearchStep({})
        BY <1>1, <2>1, Zenon DEF Wait, SearchStep, SearchMove, Searching, Later
      <3> QED
        BY <3>1
    <2>2. CASE ~Searching
      <3>1. OutsideStep({})
        BY <1>1, <2>2, Zenon DEF Wait, OutsideStep, OutsideMove, Searching, Later
      <3> QED
        BY <3>1
    <2> QED
      BY <2>1, <2>2
  <1>2. CASE ReadResultStatus
    <2>1. SearchStep({})
      BY <1>2 DEF ReadResultStatus, Access, SearchStep, SearchMove, Searching
    <2> QED
      BY <2>1
  <1>3. CASE ReadNonce
    <2>1. SearchStep({})
      BY <1>3 DEF ReadNonce, Access, SearchStep, SearchMove, Searching
    <2> QED
      BY <2>1
  <1>4. CASE WriteAck
    <2>1. SearchStep({"ACK"})
      BY <1>4 DEF WriteAck, Access, SearchStep, SearchMove, Searching
    <2> QED
      BY <2>1
  <1>5. CASE ReadDone
    <2>1. SearchStep({})
      BY <1>5 DEF ReadDone, Access, SearchStep, SearchMove, Searching
    <2> QED
      BY <2>1
  <1>6. CASE ReadEmpty
    <2>1. SearchStep({})
      BY <1>6 DEF ReadEmpty, Access, SearchStep, SearchMove, Searching
    <2> QED
      BY <2>1
  <1>7. CASE WriteStopClear
    <2>1. OutsideStep({"CLEAR"})
      BY <1>7 DEF WriteStopClear, Access, OutsideStep, OutsideMove, Searching
    <2> QED
      BY <2>1
  <1>8. CASE WriteStopAck
    <2>1. OutsideStep({"ACK", "ACKOVERFLOW"})
      BY <1>8 DEF WriteStopAck, Access, OutsideStep, OutsideMove, Searching
    <2> QED
      BY <2>1
  <1> QED
    BY <1>1, <1>2, <1>3, <1>4, <1>5, <1>6, <1>7, <1>8, Zenon DEF Next
-----------------------------------------------------------------------------
(* The result FIFOs.                                                        *)

\* Facts about sets of numbers and finite sets; MinerCoreProof proves them.
SetFacts ==
  /\ \A S \in SUBSET Nat : S # {} => \E x \in S : \A y \in S : x <= y
  /\ \A f : IsFiniteSet({f[e] : e \in Engines})
  /\ \A S, T : IsFiniteSet(T) /\ S \subseteq T => IsFiniteSet(S)
  /\ \A S : IsFiniteSet(S) => \A g, h \in S : g # h => Cardinality(S) > 1

\* The priority encoder of stage 1 picks one of the results it sees.
LEMMA WinnerIn ==
  ASSUME SetFacts, NEW rs \in SUBSET Hits, rs # {}
  PROVE  Winner(rs) \in rs
  <1>1. \A r \in rs : r.id.engine \in Nat
    BY Sizes DEF Hits, Nonce, Engines
  <1>2. PICK x \in {r.id.engine : r \in rs} : \A y \in {r.id.engine : r \in rs} : x <= y
    <2>1. {r.id.engine : r \in rs} \in SUBSET Nat /\ {r.id.engine : r \in rs} # {}
      BY <1>1
    <2> QED
      BY <2>1 DEF SetFacts
  <1>3. \E r \in rs : \A s \in rs : r.id.engine <= s.id.engine
    BY <1>2
  <1> QED
    BY <1>3, Zenon DEF Winner

\* What the cardinality that "crowded" is computed from says of a cluster.
Counted(c) ==
  /\ IsFiniteSet(clus'[c].stage1)
  /\ clus[c].stage1 # {} => Winner(clus[c].stage1) \in clus[c].stage1
  /\ IsFiniteSet(clus[c].stage1) =>
       \A g, h \in clus[c].stage1 : g # h => Crowded(clus[c].stage1)

\* The least of a nonempty set of naturals is one of them.
LEMMA MinIn ==
  ASSUME SetFacts, NEW S \in SUBSET Nat, S # {}
  PROVE  Min(S) \in S
  BY Zenon DEF SetFacts, Min

\* Every engine belongs to one cluster.
ClusterOf(e) == e \div ClusterSize

\* An engine is in the cluster of its number.
LEMMA Clustered ==
  ASSUME NEW e \in Engines
  PROVE  ClusterOf(e) \in Clusters /\ e \in InCluster(ClusterOf(e))
  <1>1. e \in Nat /\ e <= NumEngines - 1 /\ ClusterSize \in Nat \ {0} /\ NumEngines \in Nat
    BY Sizes DEF Engines
  <1>2. /\ e \div ClusterSize \in Nat
        /\ \A k \in Nat : k <= e \div ClusterSize <=> k * ClusterSize <= e
    BY <1>1, DivisionFacts
  <1>3. PICK q \in Nat : q = e \div ClusterSize /\ q * ClusterSize <= e
    BY <1>2
  <1>4. PICK a \in Nat : a = NumEngines + ClusterSize - 1
    BY <1>1
  <1>5. \A k \in Nat : k <= a \div ClusterSize <=> k * ClusterSize <= a
    BY <1>1, <1>4, DivisionFacts
  <1>6. (q + 1) * ClusterSize = q * ClusterSize + ClusterSize /\ q * ClusterSize \in Nat
    BY <1>1
  <1>7. q + 1 <= a \div ClusterSize
    BY <1>1, <1>3, <1>4, <1>5, <1>6
  <1>8. a \div ClusterSize \in Nat
    BY <1>1, <1>4, DivisionFacts
  <1> QED
    BY <1>3, <1>4, <1>7, <1>8 DEF ClusterOf, Clusters, InCluster

\* The valid pulses a FIFO sees; a FIFO with nothing in it.
Arrived(c) == {eng[e].valid : e \in InCluster(c)} \ {None}
Empty(r) == r.stage1 = {} /\ r.stage2 = None /\ r.queue = <<>>

\* One cycle of a result FIFO.
ClusterMoves(c) ==
  LET r == clus[c] m == clus'[c]
      kept == IF DoPop(c) THEN Tail(r.queue) ELSE r.queue
  IN  /\ m \in ClusterType
      /\ m.clear <=> pulse # {}
      /\ r.clear => Empty(m)
      /\ ~r.clear =>
           /\ m.stage1 = Arrived(c)
           /\ m.stage2 = IF r.stage1 = {} THEN None ELSE Winner(r.stage1)
           /\ m.queue = IF DoPush(c) THEN Append(kept, r.stage2) ELSE kept
           /\ m.overflow2 <=> (r.overflow1 \/ Crowded(r.stage1))
           /\ m.overflow <=> (r.overflow \/ (r.stage2 # None /\ ~DoPush(c)) \/ r.overflow2)

\* The FIFO's part of a clock cycle.
LEMMA ClusterCycle ==
  ASSUME SetFacts, TypeOK, ClustersNext, NEW c \in Clusters
  PROVE  ClusterMoves(c)
  <1>1. PICK r \in ClusterType : r = clus[c]
    BY DEF TypeOK
  <1>2. clus'[c] = ClusterNext(c)
    BY DEF ClustersNext
  <1>3. PICK p \in BOOLEAN : p <=> pulse # {}
    OBVIOUS
  <1>4. CASE r.clear
    <2>1. clus'[c] = [EmptyCluster EXCEPT !.clear = (pulse # {})]
      BY <1>1, <1>2, <1>4 DEF ClusterNext
    <2>2. clus'[c] = [EmptyCluster EXCEPT !.clear = p]
      BY <1>3, <2>1
    <2>3. /\ clus'[c] \in ClusterType /\ clus'[c].clear = p /\ clus'[c].stage1 = {}
          /\ clus'[c].stage2 = None /\ clus'[c].queue = <<>>
      <3>1. <<>> \in Seq(Hits)
        OBVIOUS
      <3>2. clus'[c] = [clear |-> p, stage1 |-> {}, overflow1 |-> FALSE, stage2 |-> None,
                        overflow2 |-> FALSE, queue |-> <<>>, overflow |-> FALSE]
        BY <2>2 DEF EmptyCluster
      <3> QED
        BY <3>1, <3>2 DEF ClusterType
    <2> QED
      BY <1>1, <1>3, <1>4, <2>3 DEF ClusterMoves, Empty
  <1>5. CASE ~r.clear
    <2>1. PICK kept \in Seq(Hits) : kept = IF DoPop(c) THEN Tail(r.queue) ELSE r.queue
      <3>1. r.queue \in Seq(Hits)
        BY DEF ClusterType
      <3>2. DoPop(c) => Tail(r.queue) \in Seq(Hits)
        BY <1>1, <3>1 DEF DoPop
      <3> QED
        BY <3>1, <3>2
    <2>2. PICK q \in Seq(Hits) : q = IF DoPush(c) THEN Append(kept, r.stage2) ELSE kept
      <3>1. DoPush(c) => r.stage2 \in Hits
        BY <1>1 DEF DoPush, ClusterType
      <3>2. DoPush(c) => Append(kept, r.stage2) \in Seq(Hits)
        BY <3>1
      <3> QED
        BY <3>2
    <2>3. PICK s \in Hits \cup {None} : s = IF r.stage1 = {} THEN None ELSE Winner(r.stage1)
      <3>1. r.stage1 # {} => Winner(r.stage1) \in Hits
        BY WinnerIn DEF ClusterType
      <3> QED
        BY <3>1
    <2>4. PICK o1 \in BOOLEAN, o2 \in BOOLEAN, o \in BOOLEAN :
            /\ o1 <=> Crowded(Arrived(c))
            /\ o2 <=> (r.overflow1 \/ Crowded(r.stage1))
            /\ o <=> (r.overflow \/ (r.stage2 # None /\ ~DoPush(c)) \/ r.overflow2)
      OBVIOUS
    <2>5. clus'[c] = [clear |-> p, stage1 |-> Arrived(c), overflow1 |-> o1, stage2 |-> s,
                      overflow2 |-> o2, queue |-> q, overflow |-> o]
      <3>1. clus'[c] = [clear |-> pulse # {}, stage1 |-> Arrived(c), overflow1 |-> Crowded(Arrived(c)),
              stage2 |-> IF r.stage1 = {} THEN None ELSE Winner(r.stage1),
              overflow2 |-> r.overflow1 \/ Crowded(r.stage1),
              queue |-> IF DoPush(c) THEN Append(IF DoPop(c) THEN Tail(r.queue) ELSE r.queue, r.stage2)
                        ELSE IF DoPop(c) THEN Tail(r.queue) ELSE r.queue,
              overflow |-> r.overflow \/ (r.stage2 # None /\ ~DoPush(c)) \/ r.overflow2]
        BY <1>1, <1>2, <1>5, Zenon DEF ClusterNext, Arrived
      <3>2. (pulse # {}) = p /\ Crowded(Arrived(c)) = o1 /\ (r.overflow1 \/ Crowded(r.stage1)) = o2
            /\ (r.overflow \/ (r.stage2 # None /\ ~DoPush(c)) \/ r.overflow2) = o
        BY <1>3, <2>4 DEF Crowded
      <3> QED
        BY <2>1, <2>2, <2>3, <3>1, <3>2
    <2>6. Arrived(c) \in SUBSET Hits
      <3>1. \A e \in InCluster(c) : eng[e].valid \in Hits \cup {None}
        BY DEF InCluster, TypeOK, EngineType
      <3> QED
        BY <3>1 DEF Arrived
    <2>7. /\ clus'[c] \in ClusterType /\ clus'[c].clear = p /\ clus'[c].stage1 = Arrived(c)
          /\ clus'[c].stage2 = s /\ clus'[c].queue = q /\ clus'[c].overflow2 = o2 /\ clus'[c].overflow = o
      BY <2>5, <2>6 DEF ClusterType
    <2> QED
      BY <1>1, <1>3, <1>5, <2>1, <2>2, <2>3, <2>4, <2>7 DEF ClusterMoves
  <1> QED
    BY <1>4, <1>5
-----------------------------------------------------------------------------
(* One cycle of the whole core.                                             *)

\* The register takes the head of a queue, or lets go of what it holds.
Takes(c) == result = None /\ clus[c].queue # <<>> /\ result' = clus[c].queue[1] /\ pop' = {c}
Holds(w) ==
  /\ result # None \/ \A c \in Clusters : clus[c].queue = <<>>
  /\ result' = IF Starts(w) \/ w \cap {"CLEAR", "ACK"} # {} THEN None ELSE result
  /\ pop' = {}

\* The result register's part of a clock cycle.
LEMMA ResultCycle ==
  ASSUME SetFacts, TypeOK, NEW w, ResultNext(w)
  PROVE  Holds(w) \/ \E c \in Clusters : Takes(c)
  <1> DEFINE hit == {c \in Clusters : clus[c].queue # <<>>}
  <1>1. CASE result = None /\ hit # {}
    <2>1. hit \in SUBSET Nat
      <3>1. Clusters \subseteq Nat
        BY DEF Clusters
      <3> QED
        BY <3>1
    <2>2. PICK c : c = Min(hit)
      OBVIOUS
    <2>3. c \in hit
      BY <1>1, <2>1, <2>2, MinIn
    <2>4. result' = Head(clus[c].queue) /\ pop' = {c}
      BY <1>1, <2>2 DEF ResultNext
    <2>5. clus[c].queue \in Seq(Hits)
      BY <2>3 DEF TypeOK, ClusterType
    <2>6. Head(clus[c].queue) = clus[c].queue[1]
      BY <2>3, <2>5
    <2> QED
      BY <1>1, <2>3, <2>4, <2>6 DEF Takes
  <1>2. CASE ~(result = None /\ hit # {})
    BY <1>2 DEF ResultNext, Holds
  <1> QED
    BY <1>1, <1>2

\* What is counted in a FIFO can be counted.
LEMMA ClusterCounted ==
  ASSUME SetFacts, TypeOK, ClustersNext, NEW c \in Clusters
  PROVE  Counted(c)
  <1>1. clus[c].stage1 \in SUBSET Hits
    BY DEF TypeOK, ClusterType
  <1>2. IsFiniteSet(clus'[c].stage1)
    <2>1. clus'[c].stage1 = {} \/ clus'[c].stage1 = Arrived(c)
      BY ClusterCycle DEF ClusterMoves, Empty
    <2>2. PICK f : f = [e \in Engines |-> eng[e].valid]
      OBVIOUS
    <2>3. Arrived(c) \subseteq {f[e] : e \in Engines}
      BY <2>2 DEF Arrived, InCluster
    <2>4. IsFiniteSet({f[e] : e \in Engines})
      BY DEF SetFacts
    <2>5. clus'[c].stage1 \subseteq {f[e] : e \in Engines}
      BY <2>1, <2>3
    <2> QED
      BY <2>4, <2>5 DEF SetFacts
  <1>3. clus[c].stage1 # {} => Winner(clus[c].stage1) \in clus[c].stage1
    BY <1>1, WinnerIn
  <1>4. IsFiniteSet(clus[c].stage1) =>
          \A g, h \in clus[c].stage1 : g # h => Crowded(clus[c].stage1)
    BY DEF SetFacts, Crowded
  <1> QED
    BY <1>2, <1>3, <1>4 DEF Counted

\* The nonces whose results are lost in this cycle; the whole cycle.
Losses == {r.id : r \in UNION {Lost(c) : c \in Clusters}}
Cycle(w, hits) ==
  /\ LoadNext(w) /\ PulsesNext(w) /\ FlagsNext(w)
  /\ Holds(w) \/ \E c \in Clusters : Takes(c)
  /\ EnginesMove(hits)
  /\ DOMAIN clus' = Clusters /\ clus' \in [Clusters -> ClusterType]
  /\ \A c \in Clusters : ClusterMoves(c) /\ Counted(c)
  /\ dropped' = Current(dropped \cup Losses)

\* An engine is started only with work to do, and never in the delay of stop.
Ready == \A e \in start : LaneCount(e) > 0 /\ fw # "delay"

\* A clock cycle does to engines, FIFOs, register and flags what Cycle says.
LEMMA OneCycle ==
  ASSUME SetFacts, TypeOK, EngineInv, Ready, NEW w, Clock(w)
  PROVE  \E hits : Cycle(w, hits)
  <1>1. /\ LoadNext(w) /\ PulsesNext(w) /\ FlagsNext(w) /\ ResultNext(w)
        /\ EnginesNext /\ ClustersNext
    BY DEF Clock
  <1>2. PICK hits : EnginesMove(hits)
    BY <1>1, EnginesCycle DEF Ready
  <1>3. \A c \in Clusters : ClusterMoves(c) /\ Counted(c)
    BY <1>1, ClusterCycle, ClusterCounted
  <1>4. DOMAIN clus' = Clusters /\ clus' \in [Clusters -> ClusterType]
    <2>1. \A c \in Clusters : clus'[c] \in ClusterType
      BY <1>3 DEF ClusterMoves
    <2>2. clus' = [c \in Clusters |-> clus'[c]]
      BY <1>1, Zenon DEF ClustersNext
    <2> QED
      BY <2>1, <2>2
  <1>5. dropped' = Current(dropped \cup Losses)
    BY <1>1 DEF ClustersNext, Losses
  <1> QED
    BY <1>1, <1>2, <1>3, <1>4, <1>5, ResultCycle, Zenon DEF Cycle

\* How many cycles of the launch sequence come after the start of engine e: the
\* engines are started three cycles apart, the last engine at the end.
Turn(e) == 3 * (NumEngines - 1 - e)

\* The launch sequence has room for all engines.
LEMMA Turns ==
  /\ LaunchCycles \in Nat /\ LaunchCycles >= 6
  /\ \A e \in Engines : /\ Turn(e) \in Nat /\ Turn(e) <= LaunchCycles - 3
                        /\ Launches(e) <=> load = Turn(e) + 1
                        /\ Turn(e) = 0 <=> e = NumEngines - 1
  /\ NumEngines - 1 \in Engines /\ Turn(NumEngines - 1) = 0
  /\ NumEngines - 2 \in Engines /\ Turn(NumEngines - 2) = 3
  <1>1. LaunchCycles \in Nat /\ LaunchCycles >= 3 * NumEngines /\ 3 * NumEngines >= 6
    BY Sizes DEF LaunchCycles
  <1>2. ASSUME NEW e \in Engines
        PROVE  /\ Turn(e) \in Nat /\ Turn(e) <= LaunchCycles - 3
               /\ Turn(e) = 0 <=> e = NumEngines - 1
    BY <1>1, Sizes DEF Turn, Engines
  <1>3. \A e \in Engines : Launches(e) <=> load = Turn(e) + 1
    BY DEF Launches, Turn
  <1>4. /\ NumEngines - 1 \in Engines /\ Turn(NumEngines - 1) = 0
        /\ NumEngines - 2 \in Engines /\ Turn(NumEngines - 2) = 3
    BY Sizes DEF Turn, Engines
  <1>5. LaunchCycles >= 6
    BY <1>1, Sizes
  <1> QED
    BY <1>1, <1>2, <1>3, <1>4, <1>5, Zenon

\* The launch sequence without a write, and with STOP or START.
Sequenced(w) ==
  /\ load' \in 0 .. LaunchCycles /\ start' \subseteq Engines
  /\ pulse' \subseteq {"start", "stop", "clear"}
  /\ "stop" \in pulse' <=> "STOP" \in w
  /\ "clear" \in pulse' <=> "CLEAR" \in w
  /\ \A e \in Engines :
       e \in start' <=> load = Turn(e) + 1 /\ LaneCount(e) > 0 /\ "STOP" \notin w
  /\ "STOP" \in w => load' = 0
  /\ "STOP" \notin w /\ "START" \notin w =>
       /\ load' = IF load > 0 THEN load - 1 ELSE 0
       /\ "start" \notin pulse'

\* LoadNext and PulsesNext, case by case.
LEMMA Sequence ==
  ASSUME TypeOK, NEW w, LoadNext(w), PulsesNext(w)
  PROVE  Sequenced(w)
  <1>1. /\ load' \in 0 .. LaunchCycles /\ ("STOP" \in w => load' = 0)
        /\ "STOP" \notin w /\ "START" \notin w => load' = IF load > 0 THEN load - 1 ELSE 0
    BY Turns DEF LoadNext, Starts, TypeOK
  <1>2. /\ pulse' \subseteq {"start", "stop", "clear"}
        /\ "stop" \in pulse' <=> "STOP" \in w
        /\ "clear" \in pulse' <=> "CLEAR" \in w
        /\ "START" \notin w => "start" \notin pulse'
    BY DEF PulsesNext, Starts
  <1>3. /\ start' \subseteq Engines
        /\ \A e \in Engines :
             e \in start' <=> load = Turn(e) + 1 /\ LaneCount(e) > 0 /\ "STOP" \notin w
    <2>1. start' = {e \in Engines : Launches(e) /\ LaneCount(e) > 0 /\ "STOP" \notin w}
      BY DEF LoadNext
    <2> QED
      BY <2>1, Turns, Zenon
  <1> QED
    BY <1>1, <1>2, <1>3 DEF Sequenced

\* A cycle keeps the types of the hardware.
LEMMA CycleTypes ==
  ASSUME TypeOK, NEW w, NEW hits, Cycle(w, hits)
  PROVE  /\ pulse' \subseteq {"start", "stop", "clear"} /\ start' \subseteq Engines
         /\ load' \in 0 .. LaunchCycles /\ flags' \subseteq {"running", "done", "overflow"}
         /\ result' \in Hits \cup {None} /\ pop' \subseteq Clusters
         /\ eng' \in [Engines -> EngineType] /\ clus' \in [Clusters -> ClusterType]
  <1>1. pulse' \subseteq {"start", "stop", "clear"} /\ start' \subseteq Engines /\ load' \in 0 .. LaunchCycles
    BY Sequence DEF Cycle, Sequenced
  <1>2. flags' \subseteq {"running", "done", "overflow"}
    BY DEF Cycle, FlagsNext
  <1>3. result' \in Hits \cup {None} /\ pop' \subseteq Clusters
    <2>1. CASE Holds(w)
      BY <2>1 DEF Holds, TypeOK
    <2>2. ASSUME NEW c \in Clusters, Takes(c)
          PROVE  result' \in Hits \cup {None} /\ pop' \subseteq Clusters
      <3>1. clus[c].queue \in Seq(Hits) /\ clus[c].queue # <<>>
        BY <2>2 DEF TypeOK, ClusterType, Takes
      <3>2. clus[c].queue[1] \in Hits
        BY <3>1
      <3> QED
        BY <2>2, <3>2 DEF Takes
    <2> QED
      BY <2>1, <2>2 DEF Cycle
  <1> QED
    BY <1>1, <1>2, <1>3 DEF Cycle, EnginesMove

\* A cycle keeps the engines in order, if the job changes only while they rest and
\* STOP is followed by the delay that lets their cores run out.
LEMMA EngineStep ==
  ASSUME TypeOK, EngineInv, NEW w, NEW hits, Cycle(w, hits),
         job' = job \/ (AllIdle /\ start = {}),
         "stop" \in pulse => fw' = "delay",
         fw = "delay" /\ fw' # "delay" => Drained
  PROVE  EngineInv'
  <1> SUFFICES ASSUME NEW e \in Engines
               PROVE  IF eng'[e].state = "idle"
                      THEN eng'[e].valid = None /\ (fw' # "delay" => Quiet(eng'[e]))
                      ELSE Working(eng'[e], e) /\ eng'[e].work = job'
    BY DEF EngineInv, Working, NonceOf, LaneNonce, LaneCount, Quiet, Compressing
  <1>1. PICK r, m : r = eng[e] /\ m = eng'[e]
    OBVIOUS
  <1>2. EngineMoves(e, e \in hits)
    BY DEF Cycle, EnginesMove
  <1>3. IF r.state = "idle" THEN r.valid = None /\ (fw # "delay" => Quiet(r))
        ELSE Working(r, e) /\ r.work = job
    BY <1>1 DEF EngineInv
  <1>4. fw' # "delay" /\ r.state = "idle" => r.core = 0 /\ ~r.coreStart
    BY <1>1, <1>3 DEF Drained, Quiet
  <1>5. CASE "stop" \in pulse
    <2>1. m.state = "idle" /\ m.valid = None
      BY <1>1, <1>2, <1>5, Zenon DEF EngineMoves
    <2> QED
      BY <1>1, <1>5, <2>1
  <1>6. CASE "stop" \notin pulse /\ r.state = "idle" /\ e \notin start
    <2>1. m.state = "idle" /\ m.valid = None /\ (r.core = 0 /\ ~r.coreStart => Quiet(m))
      BY <1>1, <1>2, <1>6, Zenon DEF EngineMoves
    <2> QED
      BY <1>1, <1>4, <1>6, <2>1
  <1>7. CASE "stop" \notin pulse /\ r.state = "idle" /\ e \in start
    <2>1. m.state = "launch" /\ Working(m, e) /\ m.work = job
      BY <1>1, <1>2, <1>7, Zenon DEF EngineMoves
    <2> QED
      BY <1>1, <1>7, <2>1
  <1>8. CASE "stop" \notin pulse /\ r.state # "idle"
    <2>1. m.work = r.work /\ Advances(r, m, e)
          /\ m.valid = IF e \in hits THEN [id |-> NonceOf(r, e), of |-> NonceOf(r, e)] ELSE None
      BY <1>1, <1>2, <1>8, Zenon DEF EngineMoves
    <2>2. job' = job /\ r.work = job
      BY <1>1, <1>3, <1>8 DEF AllIdle
    <2>3. e \in hits => r.state = "compare"
      BY <1>1 DEF Cycle, EnginesMove, Comparing
    <2>4. CASE r.state = "check" /\ r.left = 1
      <3>1. m.state = "idle" /\ Quiet(m) /\ m.valid = None
        BY <2>1, <2>3, <2>4 DEF Advances
      <3> QED
        BY <1>1, <3>1
    <2>5. CASE ~(r.state = "check" /\ r.left = 1)
      <3>1. m.state # "idle" /\ Working(m, e)
        BY <2>1, <2>5 DEF Advances
      <3> QED
        BY <1>1, <2>1, <2>2, <3>1
    <2> QED
      BY <2>4, <2>5
  <1> QED
    BY <1>5, <1>6, <1>7, <1>8
-----------------------------------------------------------------------------
(* The launch of the engines.                                               *)

\* Engine e has its turn before it.
Waits(e) == load > Turn(e) \/ e \in start

\* The engine before the last is in its first pass when the last is started: the
\* range cannot seem complete between the two.
Overlap ==
  LET e == NumEngines - 2
  IN  LaneCount(e) > 0 => /\ load = 3 => e \in start
                          /\ load = 2 => eng[e].state = "launch" /\ ~eng[e].second
                          /\ load = 1 => eng[e].state = "pass1" /\ eng[e].coreStart
                          /\ NumEngines - 1 \in start => eng[e].state = "pass1"

\* During a search: pulses and clears belong to its first two cycles, each engine is
\* started in its turn, and one that waits is idle.
Launching ==
  Searching =>
    /\ pulse \subseteq {"start"}
    /\ pulse # {} => load = LaunchCycles
    /\ (\E c \in Clusters : clus[c].clear) => load >= LaunchCycles - 1
    /\ \A e \in start : load = Turn(e) /\ LaneCount(e) > 0
    /\ \A e \in Engines : Waits(e) => eng[e].state = "idle"
    /\ Overlap

\* An engine that is started has work to do.
LEMMA IsReady ==
  ASSUME TypeOK, Outside, Launching
  PROVE  Ready
  BY DEF Outside, Launching, Ready, Searching

\* A cycle of a search keeps the launch in order.
LEMMA LaunchingSearch ==
  ASSUME TypeOK, EngineInv, Launching, NEW w, SearchStep(w), NEW hits, Cycle(w, hits)
  PROVE  Launching'
  <1>1. Searching /\ "STOP" \notin w /\ "START" \notin w /\ "CLEAR" \notin w
    BY DEF SearchStep
  <1>2. /\ load' = IF load > 0 THEN load - 1 ELSE 0
        /\ pulse' = {} /\ start' \subseteq Engines
        /\ \A e \in Engines : e \in start' <=> load = Turn(e) + 1 /\ LaneCount(e) > 0
        /\ load \in Nat /\ load' \in Nat
    <2>1. LoadNext(w) /\ PulsesNext(w)
      BY DEF Cycle
    <2> QED
      <3>1. Sequenced(w)
        BY <2>1, Sequence
      <3>2. load \in Nat /\ LaunchCycles \in Nat
        BY Turns DEF TypeOK
      <3>3. pulse' = {} /\ start' \subseteq Engines
        BY <1>1, <3>1 DEF Sequenced
      <3>4. \A e \in Engines : e \in start' <=> load = Turn(e) + 1 /\ LaneCount(e) > 0
        BY <1>1, <3>1 DEF Sequenced
      <3> QED
        BY <1>1, <3>1, <3>2, <3>3, <3>4 DEF Sequenced
  <1>3. /\ pulse \subseteq {"start"}
        /\ pulse # {} => load = LaunchCycles
        /\ \A e \in start : load = Turn(e) /\ LaneCount(e) > 0
        /\ \A e \in Engines : Waits(e) => eng[e].state = "idle"
        /\ Overlap
    BY <1>1 DEF Launching
  <1>4. (\E c \in Clusters : clus'[c].clear) => load' >= LaunchCycles - 1
    <2> SUFFICES ASSUME NEW c \in Clusters, clus'[c].clear
                 PROVE  load' >= LaunchCycles - 1
      OBVIOUS
    <2>1. pulse # {}
      BY DEF Cycle, ClusterMoves
    <2> QED
      BY <1>2, <1>3, <2>1, Turns
  <1>5. \A e \in start' : load' = Turn(e) /\ LaneCount(e) > 0
    BY <1>2, Turns
  <1>6. ASSUME NEW e \in Engines
        PROVE  EngineMoves(e, e \in hits) /\ "stop" \notin pulse
    BY <1>3 DEF Cycle, EnginesMove
  <1>7. ASSUME NEW e \in Engines, load' > Turn(e) \/ e \in start'
        PROVE  eng'[e].state = "idle"
    <2>1. load > Turn(e)
      BY <1>2, <1>7, Turns
    <2>2. e \notin start
      BY <1>2, <1>3, <2>1, Turns
    <2>3. eng[e].state = "idle"
      BY <1>3, <2>1 DEF Waits
    <2> QED
      BY <1>6, <2>2, <2>3, Zenon DEF EngineMoves
  <1>8. Overlap'
    <2> DEFINE e == NumEngines - 2
    <2>1. e \in Engines /\ Turn(e) = 3 /\ NumEngines - 1 \in Engines /\ Turn(NumEngines - 1) = 0
      BY Turns
    <2>2. PICK r, m : r = eng[e] /\ m = eng'[e]
      OBVIOUS
    <2> HIDE DEF e
    <2> SUFFICES ASSUME LaneCount(e) > 0
                 PROVE  /\ load' = 3 => e \in start'
                        /\ load' = 2 => m.state = "launch" /\ ~m.second
                        /\ load' = 1 => m.state = "pass1" /\ m.coreStart
                        /\ NumEngines - 1 \in start' => m.state = "pass1"
      BY <2>2 DEF Overlap, LaneCount, e
    <2>3. /\ load = 3 => e \in start
          /\ load = 2 => r.state = "launch" /\ ~r.second
          /\ load = 1 => r.state = "pass1" /\ r.coreStart
      BY <1>3, <2>2 DEF Overlap, e
    <2>4. load' = 3 => e \in start'
      BY <1>2, <2>1
    <2>5. ASSUME load = 3
          PROVE  m.state = "launch" /\ ~m.second
      <3>1. e \in start /\ r.state = "idle"
        BY <1>3, <2>1, <2>2, <2>3, <2>5 DEF Waits
      <3> QED
        BY <1>6, <2>1, <2>2, <3>1, Zenon DEF EngineMoves
    <2>6. ASSUME load = 2
          PROVE  m.state = "pass1" /\ m.coreStart
      BY <1>6, <2>1, <2>2, <2>3, <2>6, Zenon DEF EngineMoves
    <2>7. ASSUME load = 1
          PROVE  m.state = "pass1"
      BY <1>6, <2>1, <2>2, <2>3, <2>7, Zenon DEF EngineMoves
    <2> QED
      BY <1>2, <2>1, <2>4, <2>5, <2>6, <2>7
  <1> QED
    BY <1>2, <1>4, <1>5, <1>7, <1>8, Zenon DEF Launching, Waits, Turn, LaneCount, LaunchCycles

\* Nothing is being started and no engine works.
Resting == load = 0 /\ start = {} /\ pulse \cap {"start", "stop"} = {} /\ AllIdle

\* One cycle of a core at rest.
LEMMA RestStep ==
  ASSUME TypeOK, EngineInv, Resting, NEW w, NEW hits, Cycle(w, hits)
  PROVE  /\ AllIdle' /\ start' = {} /\ Comparing = {} /\ \A c \in Clusters : Arrived(c) = {}
         /\ "START" \notin w => load' = 0 /\ "start" \notin pulse'
         /\ "START" \in w /\ "STOP" \notin w => load' = LaunchCycles
  <1>1. LoadNext(w) /\ PulsesNext(w) /\ load = 0 /\ start = {} /\ "stop" \notin pulse
    BY DEF Cycle, Resting
  <1>2. \A e \in Engines : eng[e].state = "idle" /\ eng[e].valid = None
    BY DEF Resting, AllIdle, EngineInv
  <1>3. AllIdle'
    <2> SUFFICES ASSUME NEW e \in Engines
                 PROVE  eng'[e].state = "idle"
      BY DEF AllIdle
    <2>1. EngineMoves(e, e \in hits)
      BY DEF Cycle, EnginesMove
    <2> QED
      BY <1>1, <1>2, <2>1, Zenon DEF EngineMoves
  <1>4. Comparing = {} /\ \A c \in Clusters : Arrived(c) = {}
    BY <1>2 DEF Comparing, Arrived, InCluster
  <1>5. start' = {}
    BY <1>1, Sequence, Turns DEF Sequenced
  <1>6. "START" \notin w => load' = 0 /\ "start" \notin pulse'
    BY <1>1 DEF LoadNext, PulsesNext, Starts
  <1>7. "START" \in w /\ "STOP" \notin w => load' = LaunchCycles
    BY <1>1 DEF LoadNext, Starts
  <1> QED
    BY <1>3, <1>4, <1>5, <1>6, <1>7

\* Outside a search, the core stays so.
LEMMA OutsideStay ==
  ASSUME TypeOK, EngineInv, Outside, NEW w, OutsideStep(w), NEW hits, Cycle(w, hits)
  PROVE  Outside'
  <1>1. /\ ~Searching /\ load = 0 /\ start = {} /\ "running" \notin flags /\ "start" \notin pulse
        /\ "START" \notin w /\ "STOP" \notin w
        /\ "stop" \notin pulse => AllIdle
    BY DEF Outside, OutsideStep
  <1>2. LoadNext(w) /\ PulsesNext(w) /\ FlagsNext(w)
    BY DEF Cycle
  <1>3. load' = 0 /\ start' = {} /\ "start" \notin pulse' /\ "stop" \notin pulse'
    BY <1>1, <1>2, Sequence, Turns DEF Sequenced
  <1>4. "running" \notin flags'
    BY <1>1, <1>2 DEF FlagsNext, Starts
  <1>5. AllIdle'
    <2>1. CASE "stop" \in pulse
      <3> SUFFICES ASSUME NEW e \in Engines
                   PROVE  eng'[e].state = "idle"
        BY DEF AllIdle
      <3>1. EngineMoves(e, e \in hits)
        BY DEF Cycle, EnginesMove
      <3> QED
        BY <2>1, <3>1, Zenon DEF EngineMoves
    <2>2. CASE "stop" \notin pulse
      <3>1. Resting
        BY <1>1, <2>2 DEF Resting
      <3> QED
        BY <3>1, RestStep
    <2> QED
      BY <2>1, <2>2
  <1> QED
    BY <1>3, <1>4, <1>5 DEF Outside

\* STOP ends a search.
LEMMA OutsideStop ==
  ASSUME TypeOK, NEW w, w = {"STOP"}, fw' = "delay", NEW hits, Cycle(w, hits)
  PROVE  Outside'
  <1>1. LoadNext(w) /\ PulsesNext(w) /\ FlagsNext(w)
    BY DEF Cycle
  <1>2. load' = 0 /\ start' = {} /\ "stop" \in pulse'
    BY <1>1, Sequence, Turns DEF Sequenced
  <1>3. "running" \notin flags' /\ "start" \notin pulse'
    BY <1>1 DEF FlagsNext, PulsesNext, Starts
  <1> QED
    BY <1>2, <1>3 DEF Outside

\* CLEAR in a core at rest.
LEMMA OutsideClear ==
  ASSUME TypeOK, EngineInv, Resting, "running" \notin flags, NEW w, w = {"CLEAR"}, NEW hits, Cycle(w, hits)
  PROVE  Outside'
  <1>1. PulsesNext(w) /\ FlagsNext(w)
    BY DEF Cycle
  <1>2. load' = 0 /\ start' = {} /\ "start" \notin pulse' /\ AllIdle'
    BY RestStep
  <1>3. "running" \notin flags' /\ "stop" \notin pulse'
    BY <1>1 DEF FlagsNext, PulsesNext, Starts
  <1> QED
    BY <1>2, <1>3 DEF Outside

\* START in a core at rest whose FIFOs are not being cleared.
LEMMA LaunchingStart ==
  ASSUME TypeOK, EngineInv, Resting, NEW w, w = {"START"}, NEW hits, Cycle(w, hits)
  PROVE  Launching'
  <1>1. AllIdle' /\ start' = {} /\ load' = LaunchCycles
    BY RestStep
  <1>2. pulse' \subseteq {"start"}
    BY DEF Cycle, PulsesNext
  <1>3. Overlap'
    BY <1>1, Turns DEF Overlap
  <1> QED
    BY <1>1, <1>2, <1>3, Turns DEF Launching, AllIdle
-----------------------------------------------------------------------------
(* The end of a range.                                                      *)

\* What nonce_done and the reads after it mean: no engine works or waits, and the
\* stages of the FIFOs run empty before RESULT_STATUS is read for the second time.
Ending ==
  Searching =>
    /\ "done" \in flags => /\ "running" \notin flags /\ AllIdle
                           /\ \A e \in Engines : ~Waits(e)
                           /\ \A c \in Clusters : clus[c].stage1 = {}
    /\ fw \in {"empty", "nextrange"} => "done" \in flags /\ \A c \in Clusters : clus[c].stage2 = None
    /\ fw = "empty" /\ gap < Gap - 1 /\ result = None => \A c \in Clusters : clus[c].queue = <<>>
    /\ fw = "nextrange" => result = None /\ \A c \in Clusters : clus[c].queue = <<>>

\* When the logic finds the range complete, every engine has had its turn.
LEMMA CompleteRests ==
  ASSUME TypeOK, EngineInv, Launching, Searching, Complete
  PROVE  Resting
  <1>1. load = 0 /\ "start" \notin pulse /\ pulse \subseteq {"start"}
    BY DEF Complete, Launching
  <1>2. AllIdle
    BY DEF Complete, EngineInv, Working, Busy, AllIdle
  <1>3. start = {}
    <2> SUFFICES ASSUME NEW e \in start
                 PROVE  FALSE
      OBVIOUS
    <2>1. e \in Engines /\ load = Turn(e) /\ LaneCount(e) > 0
      BY DEF TypeOK, Launching
    <2>2. e = NumEngines - 1
      BY <1>1, <2>1, Turns
    <2>3. LaneCount(NumEngines - 2) > 0
      BY <2>1, <2>2, Lanes, Turns, Sizes
    <2>4. eng[NumEngines - 2].state = "pass1"
      BY <2>2, <2>3 DEF Launching, Overlap
    <2> QED
      BY <1>2, <2>4, Turns DEF AllIdle
  <1> QED
    BY <1>1, <1>2, <1>3 DEF Resting

\* After nonce_done the core rests.
LEMMA DoneRests ==
  ASSUME TypeOK, Launching, Ending, Searching, "done" \in flags
  PROVE  Resting /\ "running" \notin flags
  <1>1. "running" \notin flags /\ AllIdle /\ \A e \in Engines : ~Waits(e)
    BY DEF Ending
  <1>2. load = 0
    BY <1>1, Turns DEF Waits, TypeOK
  <1>3. start = {}
    BY <1>1 DEF Waits, TypeOK
  <1>4. pulse = {}
    BY <1>2, Turns DEF Launching
  <1> QED
    BY <1>1, <1>2, <1>3, <1>4 DEF Resting

\* Without arrivals the FIFOs run empty from the front.
LEMMA Drains ==
  ASSUME NEW c \in Clusters, ClusterMoves(c)
  PROVE  /\ Arrived(c) = {} => clus'[c].stage1 = {}
         /\ clus[c].stage1 = {} => clus'[c].stage2 = None
         /\ clus[c].stage2 = None /\ clus[c].queue = <<>> => clus'[c].queue = <<>>
         /\ clus[c].clear => Empty(clus'[c])
         /\ Arrived(c) = {} /\ Empty(clus[c]) => Empty(clus'[c])
  <1>1. PICK r, m : r = clus[c] /\ m = clus'[c]
    OBVIOUS
  <1>2. /\ r.clear => Empty(m)
        /\ ~r.clear =>
           /\ m.stage1 = Arrived(c)
           /\ m.stage2 = IF r.stage1 = {} THEN None ELSE Winner(r.stage1)
           /\ ~DoPush(c) /\ ~DoPop(c) => m.queue = r.queue
    BY <1>1 DEF ClusterMoves
  <1>3. /\ r.stage2 = None => ~DoPush(c)
        /\ r.queue = <<>> => ~DoPop(c)
    BY <1>1 DEF DoPush, DoPop
  <1> QED
    BY <1>1, <1>2, <1>3, Zenon DEF Empty

\* A register that is empty after the cycle found nothing in the queues.
LEMMA NoneApart ==
  None \notin Hits
  <1>1. Nonce \subseteq [job : Nat, nonce : Int, engine : Nat]
    BY DEF Nonce, Engines
  <1>2. None \notin [id : Nonce, of : Nonce]
    BY <1>1, CoreAssumption
  <1> QED
    BY <1>2 DEF Hits

\* The register is empty after a cycle exactly when it was empty and so were the
\* queues.
LEMMA NothingTaken ==
  ASSUME TypeOK, NEW w, NEW hits, Cycle(w, hits)
  PROVE  /\ result = None /\ result' = None => \A c \in Clusters : clus[c].queue = <<>>
         /\ result = None /\ (\A c \in Clusters : clus[c].queue = <<>>) => result' = None
  <1>1. CASE Holds(w)
    BY <1>1 DEF Holds
  <1>2. ASSUME NEW c \in Clusters, Takes(c)
        PROVE  result' # None /\ clus[c].queue # <<>>
    <2>1. clus[c].queue \in Seq(Hits) /\ clus[c].queue # <<>> /\ result' = clus[c].queue[1]
      BY <1>2 DEF TypeOK, ClusterType, Takes
    <2>2. result' \in Hits
      BY <2>1
    <2> QED
      BY <2>1, <2>2, NoneApart
  <1> QED
    BY <1>1, <1>2 DEF Cycle

\* A cycle of a search keeps the meaning of nonce_done: results that are under way
\* when it is set reach the queues before the firmware gets to its second read.
LEMMA EndingSearch ==
  ASSUME TypeOK, EngineInv, Launching, Ending, NEW w, SearchStep(w), NEW hits, Cycle(w, hits)
  PROVE  Ending'
  <1>1. Searching /\ w \in {{}, {"ACK"}} /\ SearchMove(w) /\ FlagsNext(w)
    BY DEF SearchStep, Cycle
  <1>2. /\ "done" \in flags' <=> Complete \/ "done" \in flags
        /\ "running" \in flags' <=> ~Complete /\ "running" \in flags
    BY <1>1 DEF FlagsNext, Starts
  <1>3. Complete \/ "done" \in flags => Resting
    BY <1>1, CompleteRests, DoneRests
  <1>4. ASSUME "done" \in flags'
        PROVE  /\ "running" \notin flags' /\ AllIdle' /\ \A e \in Engines : ~Waits(e)'
               /\ \A c \in Clusters : clus'[c].stage1 = {}
    <2>1. Resting
      BY <1>2, <1>3, <1>4
    <2>2. AllIdle' /\ start' = {} /\ load' = 0 /\ \A c \in Clusters : Arrived(c) = {}
      BY <1>1, <2>1, RestStep
    <2>3. \A e \in Engines : ~Waits(e)'
      BY <2>2, Turns DEF Waits, Turn
    <2>4. "running" \notin flags'
      BY <1>1, <1>2, <1>4, DoneRests
    <2>5. \A c \in Clusters : clus'[c].stage1 = {}
      BY <2>2, Drains DEF Cycle
    <2> QED
      BY <2>2, <2>3, <2>4, <2>5
  <1>5. ASSUME fw' \in {"empty", "nextrange"}
        PROVE  "done" \in flags' /\ \A c \in Clusters : clus'[c].stage2 = None
    <2>1. "done" \in flags
      BY <1>1, <1>5 DEF SearchMove, Ending
    <2>2. \A c \in Clusters : clus[c].stage1 = {}
      BY <1>1, <2>1 DEF Ending
    <2> QED
      BY <1>2, <2>1, <2>2, Drains DEF Cycle
  <1>6. ASSUME fw' = "empty", gap' < Gap - 1, result' = None
        PROVE  \A c \in Clusters : clus'[c].queue = <<>>
    <2>1. fw = "empty" /\ w = {}
      BY <1>1, <1>6, Sizes DEF SearchMove
    <2>2. \A c \in Clusters : clus[c].stage2 = None
      BY <1>1, <2>1 DEF Ending
    <2>3. result = None
      BY <1>6, <2>1 DEF Cycle, Holds, Takes, Starts
    <2>4. \A c \in Clusters : clus[c].queue = <<>>
      BY <1>6, <2>3, NothingTaken
    <2> QED
      BY <2>2, <2>4, Drains DEF Cycle
  <1>7. ASSUME fw' = "nextrange"
        PROVE  result' = None /\ \A c \in Clusters : clus'[c].queue = <<>>
    <2>1. CASE fw = "nextrange"
      <3>1. /\ result = None
            /\ \A c \in Clusters : clus[c].queue = <<>> /\ clus[c].stage2 = None
        BY <1>1, <2>1 DEF Ending
      <3> QED
        BY <3>1, Drains, NothingTaken DEF Cycle
    <2>2. CASE fw # "nextrange"
      <3>1. fw = "empty" /\ gap = 0 /\ result = None
        BY <1>1, <1>7, <2>2 DEF SearchMove
      <3>2. \A c \in Clusters : clus[c].queue = <<>> /\ clus[c].stage2 = None
        <4>1. gap < Gap - 1
          BY <3>1, Sizes
        <4> QED
          BY <1>1, <3>1, <4>1 DEF Ending
      <3> QED
        BY <3>1, <3>2, Drains, NothingTaken DEF Cycle
    <2> QED
      BY <2>1, <2>2
  <1> QED
    BY <1>4, <1>5, <1>6, <1>7 DEF Ending
-----------------------------------------------------------------------------
\* START withdraws nonce_done.
LEMMA EndingStart ==
  ASSUME NEW w, w = {"START"}, NEW hits, Cycle(w, hits), load = 0, "running" \notin flags, fw' = "poll"
  PROVE  Ending'
  <1>1. "done" \notin flags'
    BY DEF Cycle, FlagsNext, Complete, Starts
  <1> QED
    BY <1>1 DEF Ending

\* stop and start_range leave nothing in the FIFOs.
Emptied ==
  /\ fw = "stopack" => /\ gap = Gap - 1 => pulse # {}
                       /\ gap < Gap - 1 => \A c \in Clusters : clus[c].clear \/ Empty(clus[c])
  /\ fw \in {"clear", "start"} => \A c \in Clusters : Empty(clus[c])
  /\ fw = "start" => result = None /\ scanned = {}

\* After the delay of stop the core rests.
LEMMA OutsideRests ==
  ASSUME Outside, fw \in {"stopack", "clear", "start"}
  PROVE  Resting /\ "running" \notin flags
  BY DEF Outside, Resting, Searching

\* The CLEAR of stop reaches the FIFOs before start_range.
LEMMA EmptiedOutside ==
  ASSUME TypeOK, EngineInv, Outside, Emptied, NEW w, OutsideStep(w), NEW hits, Cycle(w, hits)
  PROVE  Emptied'
  <1>1. ~Searching /\ OutsideMove(w) /\ job' = job
    BY DEF OutsideStep
  <1>2. gap \in 0 .. Gap - 1 /\ Gap >= 2 /\ Gap \in Nat
    BY Sizes DEF TypeOK
  <1>3. ASSUME fw' \in {"stopack", "clear", "start"}, fw # "delay"
        PROVE  Resting /\ \A c \in Clusters : Arrived(c) = {} /\ ClusterMoves(c)
    <2>1. fw \in {"stopack", "clear", "start"}
      BY <1>1, <1>3 DEF OutsideMove
    <2> QED
      BY <2>1, OutsideRests, RestStep DEF Cycle
  <1>4. CASE fw' = "stopack"
    <2>1. CASE fw = "delay"
      <3>1. w = {"CLEAR"} /\ gap' = Gap - 1
        BY <1>1, <1>4, <2>1 DEF OutsideMove
      <3>2. pulse' # {}
        BY <3>1 DEF Cycle, PulsesNext
      <3> QED
        BY <1>2, <1>4, <3>1, <3>2, SMTT(30) DEF Emptied
    <2>2. CASE fw # "delay"
      <3>1. fw = "stopack" /\ gap' < Gap - 1
        BY <1>1, <1>2, <1>4, <2>2 DEF OutsideMove, Later
      <3>2. ASSUME NEW c \in Clusters
            PROVE  clus'[c].clear \/ Empty(clus'[c])
        <4>1. ClusterMoves(c) /\ Arrived(c) = {}
          BY <1>3, <1>4, <2>2
        <4>2. CASE gap = Gap - 1
          <5>1. pulse # {}
            BY <3>1, <4>2 DEF Emptied
          <5> QED
            BY <4>1, <5>1, Zenon DEF ClusterMoves
        <4>3. CASE gap # Gap - 1
          <5>1. clus[c].clear \/ Empty(clus[c])
            BY <1>2, <3>1, <4>3 DEF Emptied
          <5> QED
            BY <4>1, <5>1, Drains
        <4> QED
          BY <4>2, <4>3
      <3> QED
        BY <1>4, <1>2, <3>1, <3>2, SMTT(30) DEF Emptied
    <2> QED
      BY <2>1, <2>2
  <1>5. CASE fw' = "clear"
    <2>1. fw # "delay" /\ (fw = "clear" \/ (fw = "stopack" /\ gap = 0))
      BY <1>1, <1>5 DEF OutsideMove
    <2>2. \A c \in Clusters : clus[c].clear \/ Empty(clus[c])
      BY <1>2, <2>1 DEF Emptied
    <2>3. \A c \in Clusters : Empty(clus'[c])
      BY <1>3, <1>5, <2>1, <2>2, Drains
    <2> QED
      BY <1>5, <2>3 DEF Emptied
  <1>6. CASE fw' = "start"
    <2>1. fw = "start"
      BY <1>1, <1>6 DEF OutsideMove
    <2>2. result = None /\ scanned = {} /\ \A c \in Clusters : Empty(clus[c])
      BY <2>1 DEF Emptied
    <2>3. \A c \in Clusters : Empty(clus'[c])
      BY <1>3, <1>6, <2>1, <2>2, Drains
    <2>4. result' = None
      BY <2>2, NothingTaken DEF Empty
    <2>5. Comparing = {}
      BY <1>3, <1>6, <2>1, RestStep
    <2>6. scanned' = {}
      BY <2>2, <2>5 DEF Cycle, EnginesMove, Current
    <2> QED
      BY <1>6, <2>3, <2>4, <2>6 DEF Emptied
  <1>7. CASE fw' \notin {"stopack", "clear", "start"}
    BY <1>7 DEF Emptied
  <1> QED
    BY <1>4, <1>5, <1>6, <1>7

\* The CLEAR of start_range empties the result register as well.
LEMMA EmptiedClear ==
  ASSUME TypeOK, EngineInv, Resting, \A n \in scanned : n.job = job, \A c \in Clusters : Empty(clus[c]),
         NEW w, w = {"CLEAR"}, NEW hits, Cycle(w, hits), fw' = "start", job' = job + 1
  PROVE  Emptied'
  <1>1. Comparing = {} /\ \A c \in Clusters : Arrived(c) = {}
    BY RestStep
  <1>2. \A c \in Clusters : Empty(clus'[c])
    BY <1>1, Drains DEF Cycle
  <1>3. result' = None
    <2>1. Holds(w)
      BY DEF Cycle, Takes, Empty
    <2> QED
      BY <2>1 DEF Holds
  <1>4. scanned' = {}
    <2>1. scanned' = {n \in scanned : n.job = job'}
      BY <1>1 DEF Cycle, EnginesMove, Current
    <2>2. job' # job
      BY DEF TypeOK
    <2> QED
      BY <2>1, <2>2
  <1> QED
    BY <1>2, <1>3, <1>4 DEF Emptied
-----------------------------------------------------------------------------
(* What has been compared.                                                  *)

\* How many nonces of its lane engine e has compared; the i-th nonce of the lane.
Compared(e) ==
  IF Waits(e) THEN 0
  ELSE IF eng[e].state = "idle" THEN LaneCount(e) ELSE Position(eng[e], e)
Lane(e, i) == [job |-> job, nonce |-> e + i * NumEngines, engine |-> e]

\* The histories are of the current job, and during a search the nonces compared are
\* the first ones of every lane.
Scanning ==
  /\ \A n \in scanned : n.job = job
  /\ found \subseteq scanned /\ dropped \subseteq scanned /\ read \subseteq scanned
  /\ Searching =>
       \A n : n \in scanned <=> \E e \in Engines, i \in Nat : i < Compared(e) /\ n = Lane(e, i)

\* Where engine e is in its lane after a cycle of the search.
LEMMA ComparedStep ==
  ASSUME TypeOK, EngineInv, Launching, Launching', NEW w, SearchStep(w), NEW hits, Cycle(w, hits),
         NEW e \in Engines
  PROVE  /\ Compared(e) \in Nat
         /\ Compared(e)' = Compared(e) + IF e \in Comparing THEN 1 ELSE 0
         /\ e \in Comparing => NonceOf(eng[e], e) = Lane(e, Compared(e))
  <1>1. PICK r, m : r = eng[e] /\ m = eng'[e]
    OBVIOUS
  <1>2. EngineMoves(e, e \in hits)
    BY DEF Cycle, EnginesMove
  <1>3. IF r.state = "idle" THEN TRUE ELSE Working(r, e) /\ r.work = job
    BY <1>1 DEF EngineInv
  <1>4. /\ Searching /\ "stop" \notin pulse /\ "STOP" \notin w /\ "START" \notin w
        /\ Searching' /\ LoadNext(w) /\ PulsesNext(w)
    BY DEF SearchStep, Launching, Cycle
  <1>5. /\ load' = IF load > 0 THEN load - 1 ELSE 0
        /\ e \in start' <=> load = Turn(e) + 1 /\ LaneCount(e) > 0
        /\ load \in Nat /\ Turn(e) \in Nat /\ LaneCount(e) \in Nat
    <2>1. Sequenced(w)
      BY <1>4, Sequence
    <2>2. load \in Nat /\ Turn(e) \in Nat /\ LaneCount(e) \in Nat
      BY Turns, Lanes DEF TypeOK
    <2> QED
      BY <1>4, <2>1, <2>2 DEF Sequenced
  <1>6. e \in Comparing <=> r.state = "compare"
    BY <1>1, <1>4 DEF Comparing
  <1>7. e \in start => load = Turn(e) /\ LaneCount(e) > 0
    BY <1>4 DEF Launching
  <1>8. Waits(e)' <=> (load' > Turn(e) \/ e \in start')
    BY DEF Waits, Turn
  <1>9. Compared(e)' = IF Waits(e)' THEN 0 ELSE IF m.state = "idle" THEN LaneCount(e) ELSE Position(m, e)
    BY <1>1 DEF Compared, Position, LaneCount
  <1>10. Compared(e) = IF Waits(e) THEN 0 ELSE IF r.state = "idle" THEN LaneCount(e) ELSE Position(r, e)
    BY <1>1 DEF Compared
  <1>11. CASE Waits(e)
    <2>1. r.state = "idle"
      BY <1>1, <1>4, <1>11 DEF Launching
    <2>2. CASE e \in start
      <3>1. m.state = "launch" /\ Position(m, e) = 0
        BY <1>1, <1>2, <1>4, <2>1, <2>2, Zenon DEF EngineMoves
      <3>2. ~Waits(e)'
        BY <1>5, <1>7, <1>8, <2>2
      <3> QED
        BY <1>6, <1>9, <1>10, <1>11, <2>1, <3>1, <3>2
    <2>3. CASE e \notin start
      <3>1. load > Turn(e)
        BY <1>11, <2>3 DEF Waits
      <3>2. m.state = "idle"
        BY <1>1, <1>2, <1>4, <2>1, <2>3, Zenon DEF EngineMoves
      <3>3. Waits(e)' \/ LaneCount(e) = 0
        BY <1>5, <1>8, <3>1
      <3> QED
        BY <1>6, <1>9, <1>10, <1>11, <2>1, <3>2, <3>3
    <2> QED
      BY <2>2, <2>3
  <1>12. CASE ~Waits(e)
    <2>1. ~Waits(e)' /\ e \notin start
      BY <1>5, <1>8, <1>12 DEF Waits
    <2>2. CASE r.state = "idle"
      <3>1. m.state = "idle"
        BY <1>1, <1>2, <1>4, <2>1, <2>2, Zenon DEF EngineMoves
      <3> QED
        BY <1>5, <1>6, <1>9, <1>10, <1>12, <2>1, <2>2, <3>1
    <2>3. CASE r.state # "idle"
      <3>1. Advances(r, m, e)
        BY <1>1, <1>2, <1>4, <2>3, Zenon DEF EngineMoves
      <3>2. r.left \in 1 .. LaneCount(e) /\ r.work = job
        BY <1>3, <2>3 DEF Working
      <3>3. Position(r, e) \in Nat
        BY <1>5, <3>2 DEF Position
      <3>4. CASE r.state = "check" /\ r.left = 1
        <4>1. m.state = "idle" /\ Position(r, e) = LaneCount(e)
          BY <1>5, <3>1, <3>4 DEF Advances, Position
        <4> QED
          BY <1>5, <1>6, <1>9, <1>10, <1>12, <2>1, <2>3, <3>4, <4>1
      <3>5. CASE ~(r.state = "check" /\ r.left = 1)
        <4>1. m.state # "idle" /\ Position(m, e) = Position(r, e) + IF r.state = "compare" THEN 1 ELSE 0
          BY <3>1, <3>5 DEF Advances
        <4>2. r.state = "compare" => NonceOf(r, e) = Lane(e, Position(r, e))
          BY <1>5, <3>2 DEF NonceOf, Lane, LaneNonce, Position
        <4> QED
          BY <1>1, <1>6, <1>9, <1>10, <1>12, <2>1, <2>3, <3>3, <4>1, <4>2
      <3> QED
        BY <3>4, <3>5
    <2> QED
      BY <2>2, <2>3
  <1> QED
    BY <1>11, <1>12

\* The histories in a cycle that leaves the work in the job registers alone.
LEMMA HistoryStep ==
  ASSUME TypeOK, EngineInv, Scanning, NEW w, NEW hits, Cycle(w, hits), job' = job
  PROVE  /\ scanned' = scanned \cup {NonceOf(eng[e], e) : e \in Comparing}
         /\ found' = found \cup {NonceOf(eng[e], e) : e \in hits}
         /\ found' \subseteq scanned'
         /\ dropped \subseteq dropped'
         /\ dropped' = dropped \cup {n \in Losses : n.job = job}
         /\ \A e \in Comparing : NonceOf(eng[e], e).job = job
  <1>1. ASSUME NEW e \in Comparing
        PROVE  NonceOf(eng[e], e).job = job
    <2>1. eng[e].work = job
      BY DEF Comparing, EngineInv
    <2> QED
      BY <2>1 DEF NonceOf
  <1>2. /\ hits \subseteq Comparing
        /\ found' = {n \in found \cup {NonceOf(eng[e], e) : e \in hits} : n.job = job}
        /\ scanned' = {n \in scanned \cup {NonceOf(eng[e], e) : e \in Comparing} : n.job = job}
        /\ dropped' = {n \in dropped \cup Losses : n.job = job}
    BY DEF Cycle, EnginesMove, Current
  <1>3. /\ \A n \in scanned : n.job = job
        /\ found \subseteq scanned /\ dropped \subseteq scanned
    BY DEF Scanning
  <1>4. scanned' = scanned \cup {NonceOf(eng[e], e) : e \in Comparing}
    BY <1>1, <1>2, <1>3
  <1>5. found' = found \cup {NonceOf(eng[e], e) : e \in hits}
    BY <1>1, <1>2, <1>3
  <1>6. found' \subseteq scanned'
    BY <1>2, <1>3, <1>4, <1>5
  <1>7. dropped' = dropped \cup {n \in Losses : n.job = job}
    BY <1>2, <1>3
  <1> QED
    BY <1>1, <1>4, <1>5, <1>6, <1>7

\* A result that the engines found: its digest is of its own nonce, and a result
\* of the current work is of a nonce that was compared.
Genuine(h) ==
  /\ h \in Hits /\ h.of = h.id /\ h.id.job <= job
  /\ h.id.job = job => h.id \in scanned
  /\ Searching => h.id.job = job

\* h is in the FIFO of cluster c.
Inside(c, h) ==
  \/ h \in clus[c].stage1
  \/ h # None /\ h = clus[c].stage2
  \/ \E i \in DOMAIN clus[c].queue : h = clus[c].queue[i]

\* All that is in a FIFO, in the register or on an engine's output is genuine, and
\* in the cluster of its engine.
Results ==
  /\ \A c \in Clusters : IsFiniteSet(clus[c].stage1)
  /\ \A c \in Clusters : \A h : Inside(c, h) => Genuine(h) /\ h.id.engine \in InCluster(c)
  /\ result # None => Genuine(result)
  /\ \A e \in Engines : eng[e].valid # None => Genuine(eng[e].valid) /\ eng[e].valid.id.engine = e

\* A result that is lost was found by the engines.
LEMMA LossesGenuine ==
  ASSUME TypeOK, Results, NEW n \in Losses
  PROVE  n.job <= job /\ (n.job = job => n \in scanned)
  <1>0. PICK c \in Clusters : \E h \in Lost(c) : n = h.id
    BY DEF Losses
  <1>1. PICK h \in Lost(c) : n = h.id
    BY <1>0
  <1>2. h \in clus[c].stage1 \/ (h # None /\ h = clus[c].stage2)
    BY DEF Lost
  <1>3. Genuine(h)
    BY <1>2 DEF Results, Inside
  <1> QED
    BY <1>1, <1>3 DEF Genuine

\* Everything but what is said of a search.
Recorded ==
  /\ \A n \in scanned : n.job = job
  /\ found \subseteq scanned /\ dropped \subseteq scanned /\ read \subseteq scanned

\* The histories only grow while the job stays.
LEMMA RecordedSame ==
  ASSUME TypeOK, EngineInv, Scanning, Results, NEW w, NEW hits, Cycle(w, hits), job' = job,
         read' \subseteq scanned
  PROVE  Recorded' /\ scanned \subseteq scanned'
  <1>1. /\ scanned' = scanned \cup {NonceOf(eng[e], e) : e \in Comparing}
        /\ found' \subseteq scanned'
        /\ dropped' = dropped \cup {n \in Losses : n.job = job}
        /\ \A e \in Comparing : NonceOf(eng[e], e).job = job
    BY HistoryStep
  <1>2. \A n \in scanned : n.job = job
    BY DEF Scanning
  <1>3. \A n \in scanned' : n.job = job'
    BY <1>1, <1>2
  <1>4. {n \in Losses : n.job = job} \subseteq scanned
    BY LossesGenuine
  <1>5. dropped' \subseteq scanned'
    BY <1>1, <1>4 DEF Scanning
  <1> QED
    BY <1>1, <1>3, <1>5 DEF Recorded

\* The histories begin anew with the next job.
LEMMA RecordedNext ==
  ASSUME TypeOK, Scanning, Results, NEW w, NEW hits, Cycle(w, hits), Comparing = {},
         job' = job + 1, read' = {}
  PROVE  Recorded'
  <1>1. /\ hits = {}
        /\ found' = {n \in found \cup {NonceOf(eng[e], e) : e \in hits} : n.job = job + 1}
        /\ scanned' = {n \in scanned \cup {NonceOf(eng[e], e) : e \in Comparing} : n.job = job + 1}
        /\ dropped' = {n \in dropped \cup Losses : n.job = job + 1}
    BY DEF Cycle, EnginesMove, Current
  <1>2. job \in Nat /\ (\A n \in scanned : n.job = job) /\ found \subseteq scanned /\ dropped \subseteq scanned
    BY DEF Scanning, TypeOK
  <1>3. scanned' = {} /\ found' = {}
    BY <1>1, <1>2
  <1>4. \A n \in Losses : n.job \in Nat /\ n.job <= job
    <2> TAKE n \in Losses
    <2>0. PICK c \in Clusters : \E h \in Lost(c) : n = h.id
      BY DEF Losses
    <2>1. PICK h \in Lost(c) : n = h.id
      BY <2>0
    <2>2. Genuine(h)
      BY <2>1 DEF Lost, Results, Inside
    <2> QED
      BY <2>1, <2>2 DEF Genuine, Hits, Nonce
  <1>5. dropped' = {}
    BY <1>1, <1>2, <1>4
  <1> QED
    BY <1>3, <1>5 DEF Recorded

\* A cycle of a search compares the next nonce of the lanes that are at it.
LEMMA ScanningSearch ==
  ASSUME TypeOK, EngineInv, Launching, Launching', Scanning, Results, NEW w, SearchStep(w),
         NEW hits, Cycle(w, hits), read' \subseteq scanned
  PROVE  Scanning'
  <1>1. Searching /\ Searching' /\ job' = job
    BY DEF SearchStep
  <1>2. Recorded'
    BY <1>1, RecordedSame
  <1>3. scanned' = scanned \cup {NonceOf(eng[e], e) : e \in Comparing}
    BY <1>1, HistoryStep
  <1>4. ASSUME NEW e \in Engines
        PROVE  /\ Compared(e) \in Nat
               /\ Compared(e)' = Compared(e) + IF e \in Comparing THEN 1 ELSE 0
               /\ e \in Comparing => NonceOf(eng[e], e) = Lane(e, Compared(e))
    BY ComparedStep
  <1>5. \A e, i : Lane(e, i)' = Lane(e, i)
    BY <1>1 DEF Lane
  <1>6. Comparing \subseteq Engines
    BY DEF Comparing
  <1>7. ASSUME NEW n
        PROVE  n \in scanned' <=> \E e \in Engines, i \in Nat : i < Compared(e)' /\ n = Lane(e, i)
    <2>1. n \in scanned <=> \E e \in Engines, i \in Nat : i < Compared(e) /\ n = Lane(e, i)
      BY <1>1 DEF Scanning
    <2>2. ASSUME n \in scanned
          PROVE  \E e \in Engines, i \in Nat : i < Compared(e)' /\ n = Lane(e, i)
      <3>1. PICK e \in Engines, i \in Nat : i < Compared(e) /\ n = Lane(e, i)
        BY <2>1, <2>2
      <3>2. i < Compared(e)'
        BY <1>4, <3>1
      <3> QED
        BY <3>1, <3>2
    <2>3. ASSUME NEW e \in Comparing, n = NonceOf(eng[e], e)
          PROVE  \E d \in Engines, i \in Nat : i < Compared(d)' /\ n = Lane(d, i)
      <3>1. Compared(e) \in Nat /\ Compared(e) < Compared(e)' /\ n = Lane(e, Compared(e))
        BY <1>4, <1>6, <2>3
      <3> QED
        BY <1>6, <3>1
    <2>4. ASSUME NEW e \in Engines, NEW i \in Nat, i < Compared(e)', n = Lane(e, i)
          PROVE  n \in scanned'
      <3>1. CASE i < Compared(e)
        BY <1>3, <2>1, <2>4, <3>1
      <3>2. CASE ~(i < Compared(e))
        <4>1. e \in Comparing /\ i = Compared(e)
          BY <1>4, <2>4, <3>2
        <4> QED
          BY <1>3, <1>4, <2>4, <4>1
      <3> QED
        BY <3>1, <3>2
    <2> QED
      BY <1>3, <2>2, <2>3, <2>4
  <1>8. \A n : n \in scanned' <=> \E e \in Engines, i \in Nat : i < Compared(e)' /\ n = Lane(e, i)'
    BY <1>5, <1>7
  <1> QED
    BY <1>2, <1>8, Zenon DEF Scanning, Recorded
=============================================================================
