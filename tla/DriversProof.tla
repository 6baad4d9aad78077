---------------------------- MODULE DriversProof ----------------------------
(***************************************************************************)
(* Two drivers with hardware of their own: the Ethernet interface and the    *)
(* power monitor.                                                            *)
(*                                                                           *)
(* No network buffer is lost or released twice, for any set of descriptors,  *)
(* any queue length and any transmit time-out.  A power report is true for   *)
(* any number of sensors, any counter and any delay of power_task that, with *)
(* a period and the sensors' silence, fits in the counter.                   *)
(***************************************************************************)
EXTENDS NetworkReceive, PowerMonitor, TLAPS
-----------------------------------------------------------------------------
(* The Ethernet interface.                                                  *)

\* Releasing the buffer the receive task holds puts it back in the pool, and
\* only there.
LEMMA GiveBackConserves ==
  ASSUME BuffersConserved, GiveBack, held' = NoBuf, UNCHANGED <<queued, stack>>
  PROVE  BuffersConserved'
  BY BufAssumption DEF BuffersConserved, GiveBack

\* A state with the same pool, queue, stack and held buffer.
LEMMA SamePlaces ==
  ASSUME BuffersConserved, UNCHANGED <<held, free, queued, stack>>
  PROVE  BuffersConserved'
  BY DEF BuffersConserved

\* Every step keeps the invariant: one case per action.
LEMMA StepKeepsBuffers ==
  ASSUME BufferInvariant, [Next]_vars
  PROVE  BufferInvariant'
  <1> USE DEF BufferInvariant, mac, pool, task
  <1>1. CASE \E f \in Frame : Arrive(f)
    BY <1>1, SamePlaces DEF Arrive
  <1>2. CASE receive_irq
    BY <1>2, SamePlaces DEF receive_irq
  <1>3. CASE Wake
    BY <1>3, SamePlaces DEF Wake
  <1>4. CASE GetBuffer
    <2>1. BuffersConserved'
      <3>1. CASE free = {}
        BY <1>4, <3>1, SamePlaces DEF GetBuffer
      <3>2. CASE free # {}
        <4> PICK b \in free : held' = b /\ free' = free \ {b}
          BY <1>4, <3>2 DEF GetBuffer
        <4> QED
          BY <1>4, BufAssumption DEF GetBuffer, BuffersConserved
      <3> QED
        BY <3>1, <3>2
    <2> QED
      BY <1>4, <2>1 DEF GetBuffer
  <1>5. CASE SelectNext
    BY <1>5, SamePlaces DEF SelectNext
  <1>6. CASE SelectOther
    <2>1. BuffersConserved'
      BY <1>6, SamePlaces, GiveBackConserves DEF SelectOther
    <2> QED
      BY <1>6, <2>1 DEF SelectOther
  <1>7. CASE Check
    <2>1. BuffersConserved'
      BY <1>7, SamePlaces, GiveBackConserves DEF Check
    <2> QED
      BY <1>7, <2>1 DEF Check
  <1>8. CASE Copy
    <2>1. BuffersConserved'
      BY <1>8, SamePlaces DEF Copy
    <2>2. pc' \in {"get", "hand"} /\ (pc' = "get" <=> held' = NoBuf)
      BY <1>8 DEF Copy
    <2> QED
      BY <1>8, <2>1, <2>2 DEF Copy
  <1>9. CASE Hand
    <2>1. BuffersConserved'
      <3>1. CASE queued' = queued \cup {held} /\ UNCHANGED free
        BY <1>9, <3>1, BufAssumption DEF Hand, BuffersConserved
      <3>2. CASE GiveBack /\ UNCHANGED queued
        BY <1>9, <3>2, GiveBackConserves DEF Hand
      <3> QED
        BY <1>9, <3>1, <3>2 DEF Hand
    <2> QED
      BY <1>9, <2>1 DEF Hand
  <1>10. ASSUME NEW b \in Buf, StackTakes(b) PROVE BufferInvariant'
    <2>1. BuffersConserved'
      BY <1>10 DEF StackTakes, BuffersConserved
    <2> QED
      BY <1>10, <2>1 DEF StackTakes
  <1>11. ASSUME NEW b \in Buf, NEW r \in {"yes", "no"}, CallOutput(b, r)
         PROVE  BufferInvariant'
    BY <1>11, SamePlaces DEF CallOutput
  <1>12. CASE OutputWaits
    BY <1>12, SamePlaces DEF OutputWaits
  <1>13. CASE OutputReturns
    <2>1. BuffersConserved'
      BY <1>13 DEF OutputReturns, ToRelease, BuffersConserved
    <2> QED
      BY <1>13, <2>1 DEF OutputReturns
  <1>14. CASE UNCHANGED vars
    BY <1>14, SamePlaces DEF vars
  <1> QED
    BY <1>1, <1>2, <1>3, <1>4, <1>5, <1>6, <1>7, <1>8, <1>9, <1>10, <1>11,
       <1>12, <1>13, <1>14 DEF Next, Receive

\* In every behaviour every descriptor is in exactly one place: receive_task and
\* output return or pass on each buffer once, on every path.
THEOREM NoBufferLost == Spec => []BuffersConserved
  <1>1. Init => BufferInvariant
    BY BufAssumption DEF Init, BufferInvariant, BuffersConserved, Idle
  <1>2. BufferInvariant /\ [Next]_vars => BufferInvariant'
    BY StepKeepsBuffers
  <1>3. BufferInvariant => BuffersConserved
    BY DEF BufferInvariant
  <1> QED
    BY <1>1, <1>2, <1>3, PTL DEF Spec
-----------------------------------------------------------------------------
(* The power monitor.                                                       *)

\* A stamp of the tick counter; how late the round is; and the ticks that k
\* silent sensors cost.
Stamp == 0 .. TickMod - 1
Lag == Since(last)
Silence(k) == k * Deadline

PowerTypeOK ==
  /\ tick \in Stamp /\ last \in Stamp /\ deadline_start \in Stamp
  /\ phase \in {"sensor", "wait", "publish", "sleep"}
  /\ n \in Sensor /\ (phase \in {"publish", "sleep"} => n = 1)
  /\ samples \in [Sensor -> [valid : BOOLEAN, at : Stamp]]
  /\ stats \in [Sensor -> [valid : BOOLEAN, at : Stamp]]
  /\ taken \in [Sensor -> Nat \cup {Failed}]
  /\ age \in [Sensor -> Nat \cup {Failed}]

\* The time of a valid sample gives its age of a ticks, which has a bound.
Span(a) == a * TickMs
Exact(sample, a, bound) ==
  /\ sample.valid <=> a # Failed
  /\ a # Failed => a <= bound /\ Age(sample) = Span(a)

\* The sensors that had their turn in this round.
Measured == IF phase \in {"sensor", "wait"} THEN 1 .. n - 1 ELSE Sensor

\* How late the round may be: MaxLag, and what the silence of the sensors cost.
Waited == IF ~Silent THEN 0 ELSE IF Overdue THEN Deadline ELSE Since(deadline_start)
MostLag ==
  MaxLag + (IF phase = "sensor" THEN Silence(n - 1)
            ELSE IF phase = "wait" THEN Silence(n - 1) + Waited ELSE Silence(Sensors))

\* Every sensor is measured anew in every round, and a round ends before the
\* counter has gone round since the last one began.
PowerInvariant ==
  /\ PowerTypeOK
  /\ Lag <= MostLag
  /\ phase = "wait" => samples[n] = NoSample
  /\ \A s \in Measured : Exact(samples[s], taken[s], Lag)
  /\ \A s \in Sensor : Exact(stats[s], age[s], Lag + IF phase = "sleep" THEN 0 ELSE Period)

LEMMA Ticks ==
  /\ Sensors \in Nat \ {0} /\ Deadline \in Nat \ {0} /\ Period \in Nat \ {0} /\ Limit \in Nat \ {0}
  /\ MaxLag \in Nat /\ TickMod \in Nat \ {0} /\ TickMs \in Nat \ {0}
  /\ Silence(0) = 0 /\ Silence(Sensors) \in Nat /\ Silence(Sensors) <= Period
  /\ MaxLag + Period + Silence(Sensors) < TickMod /\ Deadline + 1 < TickMod
  /\ \A k \in Sensor : /\ Silence(k - 1) \in Nat /\ Silence(k) \in Nat
                       /\ Silence(k) = Silence(k - 1) + Deadline
                       /\ Silence(k) <= Silence(Sensors)
  <1>1. /\ Sensors \in Nat \ {0} /\ Deadline \in Nat \ {0} /\ Period \in Nat \ {0}
        /\ Limit \in Nat \ {0} /\ MaxLag \in Nat /\ TickMod \in Nat /\ TickMs \in Nat \ {0}
        /\ Sensors * Deadline <= Period
    BY PowerAssumption
  <1>2. \A i, j \in Nat : /\ i * Deadline \in Nat /\ (i + 1) * Deadline = i * Deadline + Deadline
                          /\ i <= j => i * Deadline <= j * Deadline
    BY <1>1
  <1>3. Silence(Sensors) \in Nat /\ Silence(Sensors) <= Period
        /\ MaxLag + Period + Silence(Sensors) < TickMod
    <2>1. PICK most \in Nat : most = MaxLag + Period + Silence(Sensors)
      BY <1>1, <1>2 DEF Silence
    <2>2. most * TickMs < TickMod
      BY <2>1, PowerAssumption DEF Silence
    <2>3. most <= most * TickMs
      BY <1>1
    <2> QED
      BY <1>1, <1>2, <2>1, <2>2, <2>3 DEF Silence
  <1>4. ASSUME NEW k \in Sensor
        PROVE  /\ Silence(k - 1) \in Nat /\ Silence(k) \in Nat
               /\ Silence(k) = Silence(k - 1) + Deadline
               /\ Silence(k) <= Silence(Sensors)
    <2>1. PICK i \in Nat : i = k - 1 /\ k = i + 1 /\ k \in Nat /\ k <= Sensors
      BY <1>1 DEF Sensor
    <2> QED
      BY <1>1, <1>2, <2>1 DEF Silence
  <1>5. Silence(0) = 0
    BY <1>1 DEF Silence
  <1>6. Deadline + 1 < TickMod
    <2>1. Silence(1) = Deadline /\ Silence(1) <= Silence(Sensors)
      BY <1>1, <1>4, <1>5 DEF Sensor
    <2> QED
      BY <1>1, <1>3, <2>1
  <1> QED
    BY <1>1, <1>3, <1>4, <1>5, <1>6

\* The unsigned difference of two stamps,
LEMMA Difference ==
  ASSUME NEW t \in Stamp, NEW s \in Stamp
  PROVE  /\ (t - s) % TickMod = IF t >= s THEN t - s ELSE t - s + TickMod
         /\ (t - s) % TickMod \in Stamp
  <1>1. TickMod \in Nat \ {0} /\ t \in Nat /\ s \in Nat /\ t < TickMod /\ s < TickMod
    BY Ticks DEF Stamp
  <1>2. CASE t >= s
    BY <1>1, <1>2 DEF Stamp
  <1>3. CASE ~(t >= s)
    BY <1>1, <1>3 DEF Stamp
  <1> QED
    BY <1>2, <1>3

\* when the first moves on by a tick,
LEMMA OneLater ==
  ASSUME NEW t \in Stamp, NEW s \in Stamp, ((t - s) % TickMod) + 1 < TickMod
  PROVE  /\ (t + 1) % TickMod \in Stamp
         /\ (((t + 1) % TickMod) - s) % TickMod = ((t - s) % TickMod) + 1
  <1>1. TickMod \in Nat \ {0} /\ t \in Nat /\ s \in Nat /\ t < TickMod /\ s < TickMod
    BY Ticks DEF Stamp
  <1>2. PICK u \in Stamp : u = (t + 1) % TickMod /\ u = IF t + 1 = TickMod THEN 0 ELSE t + 1
    BY <1>1 DEF Stamp
  <1>3. (u - s) % TickMod = IF u >= s THEN u - s ELSE u - s + TickMod
    BY Difference
  <1>4. (t - s) % TickMod = IF t >= s THEN t - s ELSE t - s + TickMod
    BY Difference
  <1>5. (u - s) % TickMod = ((t - s) % TickMod) + 1
    BY <1>1, <1>2, <1>3, <1>4
  <1> QED
    BY <1>2, <1>5

\* and when the second moves on by a period.
LEMMA PeriodOn ==
  ASSUME NEW t \in Stamp, NEW s \in Stamp, (t - s) % TickMod >= Period,
         NEW u, u = (s + Period) % TickMod
  PROVE  u \in Stamp /\ (t - u) % TickMod = ((t - s) % TickMod) - Period
  <1>1. TickMod \in Nat \ {0} /\ t \in Nat /\ s \in Nat /\ t < TickMod /\ s < TickMod
        /\ Period \in Nat /\ Period < TickMod
    BY Ticks DEF Stamp
  <1>2. u \in Stamp /\ u = IF s + Period >= TickMod THEN s + Period - TickMod ELSE s + Period
    <2>1. CASE s + Period >= TickMod
      <3>1. \A x \in 0 .. TickMod - 1 : (x + TickMod) % TickMod = x
        BY <1>1
      <3>2. s + Period - TickMod \in 0 .. TickMod - 1
        BY <1>1, <2>1
      <3>3. (s + Period - TickMod + TickMod) % TickMod = s + Period - TickMod
        BY <3>1, <3>2
      <3>4. s + Period - TickMod + TickMod = s + Period
        BY <1>1
      <3> QED
        BY <1>1, <2>1, <3>2, <3>3, <3>4 DEF Stamp
    <2>2. CASE ~(s + Period >= TickMod)
      BY <1>1, <2>2 DEF Stamp
    <2> QED
      BY <2>1, <2>2
  <1>3. (t - u) % TickMod = IF t >= u THEN t - u ELSE t - u + TickMod
    BY <1>2, Difference
  <1>4. (t - s) % TickMod = IF t >= s THEN t - s ELSE t - s + TickMod
    BY Difference
  <1>5. (t - u) % TickMod = ((t - s) % TickMod) - Period
    BY <1>1, <1>2, <1>3, <1>4
  <1> QED
    BY <1>1, <1>2, <1>5

\* What is left of a multiple.
LEMMA Rest ==
  ASSUME NEW m \in Nat \ {0}, NEW q \in Int, NEW r \in 0 .. m - 1
  PROVE  (m * q + r) % m = r
  <1>1. PICK x \in Int : x = m * q + r
    OBVIOUS
  <1>2. PICK p \in Int, s \in 0 .. m - 1 : x = m * p + s /\ x % m = s
    <2>1. x = m * (x \div m) + (x % m) /\ x \div m \in Int /\ x % m \in 0 .. m - 1
      BY <1>1
    <2> QED
      BY <2>1
  <1>3. m * (q - p) = s - r
    BY <1>1, <1>2
  <1>4. CASE q - p >= 1
    <2>1. m * (q - p) >= m
      BY <1>4
    <2> QED
      BY <1>2, <1>3, <2>1
  <1>5. CASE q - p <= -1
    <2>1. m * (q - p) <= m * (-1)
      BY <1>5
    <2> QED
      BY <1>2, <1>3, <2>1
  <1>6. CASE q = p
    BY <1>1, <1>2, <1>6
  <1> QED
    BY <1>4, <1>5, <1>6

\* The milliseconds of some ticks.
LEMMA Spans ==
  /\ Span(0) = 0 /\ Span(MaxLag + Period + Silence(Sensors)) < TickMod
  /\ \A a \in Nat : Span(a) \in Nat /\ Span(a + 1) = Span(a) + TickMs
  /\ \A a, b \in Nat : a <= b => Span(a) <= Span(b)
  <1>1. TickMs \in Nat \ {0} /\ MaxLag + Period + Silence(Sensors) \in Nat
    BY Ticks
  <1>2. Span(MaxLag + Period + Silence(Sensors)) < TickMod
    BY PowerAssumption DEF Span, Silence
  <1>3. \A a \in Nat : Span(a) \in Nat /\ Span(a + 1) = Span(a) + TickMs
    BY <1>1 DEF Span
  <1>4. \A a, b \in Nat : a <= b => Span(a) <= Span(b)
    BY <1>1 DEF Span
  <1>5. Span(0) = 0
    BY <1>1 DEF Span
  <1> QED
    BY <1>2, <1>3, <1>4, <1>5

\* The unsigned milliseconds of a tick, and of the next: their counter wraps
\* more often than that of the ticks.
LEMMA NextMs ==
  ASSUME NEW t \in Stamp, TickMs < TickMod
  PROVE  /\ Ms(t) \in Stamp
         /\ Ms((t + 1) % TickMod) =
              IF Ms(t) + TickMs >= TickMod THEN Ms(t) + TickMs - TickMod ELSE Ms(t) + TickMs
  <1>1. TickMod \in Nat \ {0} /\ TickMs \in Nat \ {0} /\ t \in Nat /\ t < TickMod
    BY Ticks DEF Stamp
  <1>2. PICK p : p = t * TickMs /\ p \in Nat
    BY <1>1
  <1>3. PICK q \in Int, r \in 0 .. TickMod - 1 : p = TickMod * q + r /\ p % TickMod = r
    <2>1. /\ p = TickMod * (p \div TickMod) + (p % TickMod)
          /\ p \div TickMod \in Int /\ p % TickMod \in 0 .. TickMod - 1
      BY <1>1, <1>2
    <2> QED
      BY <2>1
  <1>4. Ms(t) = r
    BY <1>2, <1>3 DEF Ms
  <1>5. CASE t + 1 = TickMod
    <2>1. (t + 1) % TickMod = 0 /\ Ms(0) = 0
      BY <1>1, <1>5 DEF Ms
    <2>2. p = TickMod * (TickMs - 1) + (TickMod - TickMs)
      BY <1>1, <1>2, <1>5
    <2>3. TickMs - 1 \in Int /\ TickMod - TickMs \in 0 .. TickMod - 1
      BY <1>1
    <2>4. PICK i \in Int, j \in 0 .. TickMod - 1 :
             i = TickMs - 1 /\ j = TickMod - TickMs /\ p = TickMod * i + j
      BY <2>2, <2>3
    <2>5. p % TickMod = j
      <3>1. (TickMod * i + j) % TickMod = j
        BY <1>1, Rest, Zenon
      <3> QED
        BY <2>4, <3>1
    <2> QED
      BY <1>1, <1>3, <1>4, <2>1, <2>4, <2>5 DEF Stamp
  <1>6. CASE t + 1 # TickMod
    <2>1. (t + 1) % TickMod = t + 1
      BY <1>1, <1>6
    <2>2. (t + 1) * TickMs = p + TickMs
      BY <1>1, <1>2
    <2>3. Ms(t + 1) = (p + TickMs) % TickMod
      BY <2>2 DEF Ms
    <2>4. CASE r + TickMs >= TickMod
      <3>1. p + TickMs = TickMod * (q + 1) + (r + TickMs - TickMod)
        BY <1>1, <1>3
      <3>2. q + 1 \in Int /\ r + TickMs - TickMod \in 0 .. TickMod - 1
        BY <1>1, <2>4
      <3>3. PICK i \in Int, j \in 0 .. TickMod - 1 :
               j = r + TickMs - TickMod /\ p + TickMs = TickMod * i + j
        BY <3>1, <3>2
      <3>4. (p + TickMs) % TickMod = j
        <4>1. (TickMod * i + j) % TickMod = j
          BY <1>1, Rest, Zenon
        <4> QED
          BY <3>3, <4>1
      <3> QED
        BY <1>4, <2>1, <2>3, <2>4, <3>3, <3>4 DEF Stamp
    <2>5. CASE ~(r + TickMs >= TickMod)
      <3>1. p + TickMs = TickMod * q + (r + TickMs)
        BY <1>1, <1>3
      <3>2. r + TickMs \in 0 .. TickMod - 1
        BY <1>1, <2>5
      <3>3. PICK j \in 0 .. TickMod - 1 : j = r + TickMs /\ p + TickMs = TickMod * q + j
        BY <3>1, <3>2
      <3>4. (p + TickMs) % TickMod = j
        <4>1. (TickMod * q + j) % TickMod = j
          BY <1>1, Rest, Zenon
        <4> QED
          BY <3>3, <4>1
      <3> QED
        BY <1>4, <2>1, <2>3, <2>5, <3>3, <3>4 DEF Stamp
    <2> QED
      BY <2>4, <2>5
  <1> QED
    BY <1>5, <1>6

\* An age in milliseconds when a tick passes.
LEMMA MsLater ==
  ASSUME NEW t \in Stamp, NEW s \in Stamp, ((Ms(t) - s) % TickMod) + TickMs < TickMod
  PROVE  (Ms((t + 1) % TickMod) - s) % TickMod = ((Ms(t) - s) % TickMod) + TickMs
  <1>1. TickMod \in Nat \ {0} /\ TickMs \in Nat \ {0} /\ s \in Nat /\ s < TickMod
    BY Ticks DEF Stamp
  <1>2. Ms(t) \in Stamp
    BY <1>1, Ticks DEF Ms, Stamp
  <1>3. /\ (Ms(t) - s) % TickMod = IF Ms(t) >= s THEN Ms(t) - s ELSE Ms(t) - s + TickMod
        /\ (Ms(t) - s) % TickMod \in Stamp
    BY <1>2, Difference
  <1>4. TickMs < TickMod
    BY <1>1, <1>3 DEF Stamp
  <1>5. PICK u \in Stamp : /\ u = Ms((t + 1) % TickMod)
                           /\ u = IF Ms(t) + TickMs >= TickMod THEN Ms(t) + TickMs - TickMod
                                                               ELSE Ms(t) + TickMs
    BY <1>1, <1>2, <1>4, NextMs DEF Stamp
  <1>6. (u - s) % TickMod = IF u >= s THEN u - s ELSE u - s + TickMod
    BY Difference
  <1>7. (u - s) % TickMod = ((Ms(t) - s) % TickMod) + TickMs
    <2>1. PICK v \in Nat : v = Ms(t) /\ v < TickMod
      BY <1>1, <1>2 DEF Stamp
    <2>2. PICK d \in Nat : /\ d = (Ms(t) - s) % TickMod /\ d + TickMs < TickMod
                           /\ d = IF v >= s THEN v - s ELSE v - s + TickMod
      BY <1>1, <1>3, <2>1 DEF Stamp
    <2>3. u \in Nat /\ u = IF v + TickMs >= TickMod THEN v + TickMs - TickMod ELSE v + TickMs
      BY <1>1, <1>5, <2>1 DEF Stamp
    <2>4. (IF u >= s THEN u - s ELSE u - s + TickMod) = d + TickMs
      BY <1>1, <2>1, <2>2, <2>3
    <2> QED
      BY <1>6, <2>2, <2>4, Zenon
  <1> QED
    BY <1>5, <1>7
-----------------------------------------------------------------------------
\* A round is never so late that an age reaches the modulus.
LEMMA Late ==
  ASSUME PowerTypeOK, Lag <= MostLag
  PROVE  /\ Lag \in Nat /\ Lag <= MaxLag + Silence(Sensors) /\ Lag + Period < TickMod
         /\ MostLag \in Nat /\ Waited \in 0 .. Deadline
         /\ \A t \in Stamp : Since(t) \in Stamp
  <1>1. \A t \in Stamp : Since(t) \in Stamp
    BY Difference DEF Since, PowerTypeOK
  <1>2. Lag \in Nat
    BY <1>1, Ticks DEF Lag, PowerTypeOK, Stamp
  <1>3. Waited \in 0 .. Deadline
    <2>1. Since(deadline_start) \in Nat
      BY <1>1, Ticks DEF PowerTypeOK, Stamp
    <2> QED
      BY <2>1, Ticks DEF Waited, Overdue
  <1>4. MostLag \in Nat /\ MostLag <= MaxLag + Silence(Sensors)
    <2>1. n \in Sensor
      BY DEF PowerTypeOK
    <2>2. /\ Silence(n - 1) \in Nat /\ Silence(n) = Silence(n - 1) + Deadline
          /\ Silence(n) <= Silence(Sensors)
      BY <2>1, Ticks
    <2> QED
      BY <1>3, <2>2, Ticks DEF MostLag
  <1> QED
    BY <1>1, <1>2, <1>3, <1>4, Ticks

\* A tick makes the round one tick later, and no later than it may be,
LEMMA TickLag ==
  ASSUME PowerTypeOK, Lag <= MostLag, Tick
  PROVE  /\ tick' \in Stamp /\ Lag' = Lag + 1 /\ Lag' <= MostLag'
         /\ Lag' <= MaxLag + Silence(Sensors)
  <1>1. /\ tick \in Stamp /\ last \in Stamp /\ deadline_start \in Stamp /\ n \in Sensor
        /\ tick' = (tick + 1) % TickMod /\ UNCHANGED <<last, deadline_start, n, phase, health>>
        /\ phase \in {"sensor", "wait", "publish", "sleep"}
    BY DEF Tick, taskVars, PowerTypeOK
  <1>2. ((tick - last) % TickMod) + 1 < TickMod
    BY Late, Ticks DEF Lag, Since
  <1>3. tick' \in Stamp /\ Lag' = Lag + 1
    BY <1>1, <1>2, OneLater DEF Lag, Since
  <1>4. Silent' = Silent
    BY <1>1 DEF Silent
  <1>5. /\ Silence(n - 1) \in Nat /\ Silence(n) = Silence(n - 1) + Deadline
        /\ Silence(n) <= Silence(Sensors) /\ Lag \in Nat
    BY <1>1, Late, Ticks
  <1>6. Since(deadline_start)' \in Nat
    BY <1>1, <1>3, Difference, Ticks DEF Since, Stamp
  <1>7. CASE Lag < MaxLag
    <2>1. Waited' \in Nat
      BY <1>6, Ticks DEF Waited
    <2>2. Lag' <= MostLag'
      BY <1>1, <1>3, <1>5, <1>7, <2>1, Ticks DEF MostLag
    <2> QED
      BY <1>3, <1>5, <1>7, <2>2, Ticks
  <1>8. CASE Silent /\ Since(deadline_start) < Deadline
    <2>1. phase = "wait" /\ Waited = Since(deadline_start) /\ Since(deadline_start) \in Nat
      <3>1. Since(deadline_start) \in Nat
        BY <1>1, Late, Ticks DEF Stamp
      <3> QED
        BY <1>8, <3>1, Ticks DEF Silent, Waited, Overdue
    <2>2. Since(deadline_start)' = Since(deadline_start) + 1
      <3>1. ((tick - deadline_start) % TickMod) + 1 < TickMod
        BY <1>8, <2>1, Ticks DEF Since
      <3> QED
        BY <1>1, <3>1, OneLater DEF Since
    <2>3. Waited' = Waited + 1
      BY <1>4, <1>8, <2>1, <2>2, Ticks DEF Waited, Overdue
    <2>4. MostLag = MaxLag + (Silence(n - 1) + Waited) /\ MostLag' = MaxLag + (Silence(n - 1) + Waited')
      BY <1>1, <2>1 DEF MostLag
    <2>5. Lag + 1 <= MaxLag + Silence(Sensors)
      BY <1>5, <1>8, <2>1, <2>4, Ticks
    <2> QED
      BY <1>3, <1>5, <2>1, <2>3, <2>4, <2>5, Ticks
  <1> QED
    BY <1>7, <1>8 DEF Tick, Lag

\* and a sample one tick older.
LEMMA TickExact ==
  ASSUME PowerTypeOK, Lag <= MostLag, Tick, NEW x, x.at \in Stamp, NEW a \in Nat \cup {Failed},
         NEW d \in {0, Period}, Exact(x, a, Lag + d)
  PROVE  Exact(x, IF a = Failed THEN Failed ELSE a + 1, Lag + d)'
  <1>1. CASE a = Failed
    BY <1>1 DEF Exact
  <1>2. CASE a # Failed
    <2>1. a \in Nat /\ a + 1 # Failed
      BY <1>2 DEF Failed
    <2>2. x.valid /\ a <= Lag + d /\ (Ms(tick) - x.at) % TickMod = Span(a)
      BY <1>2 DEF Exact, Age
    <2>3. /\ Lag' = Lag + 1 /\ Lag \in Nat /\ d \in Nat /\ d <= Period
          /\ Lag + 1 <= MaxLag + Silence(Sensors)
      BY TickLag, Late, Ticks
    <2>4. tick \in Stamp /\ tick' = (tick + 1) % TickMod
      BY DEF Tick, PowerTypeOK
    <2>5. Span(a) + TickMs < TickMod /\ Span(a + 1) = Span(a) + TickMs
      <3>1. PICK most \in Nat : most = MaxLag + Period + Silence(Sensors)
        BY Ticks
      <3>2. a + 1 \in Nat /\ a + 1 <= most
        BY <2>1, <2>2, <2>3, <3>1, Ticks
      <3>3. Span(a + 1) <= Span(most) /\ Span(most) < TickMod /\ Span(a + 1) = Span(a) + TickMs
        BY <2>1, <3>1, <3>2, Spans
      <3>4. Span(a + 1) \in Nat /\ Span(most) \in Nat /\ TickMod \in Nat
        BY <3>2, Spans, Ticks
      <3> QED
        BY <3>3, <3>4
    <2>6. (Ms(tick') - x.at) % TickMod = Span(a + 1)
      BY <2>2, <2>4, <2>5, MsLater
    <2>7. a + 1 <= Lag' + d
      BY <2>1, <2>2, <2>3
    <2> QED
      BY <1>2, <2>1, <2>2, <2>6, <2>7 DEF Exact, Age
  <1> QED
    BY <1>1, <1>2

LEMMA TickKeepsPower ==
  ASSUME PowerInvariant, Tick
  PROVE  PowerInvariant'
  <1>1. /\ UNCHANGED <<phase, n, deadline_start, last, samples, stats>>
        /\ taken' = Older(taken) /\ age' = Older(age)
    BY DEF Tick, taskVars
  <1>2. PowerTypeOK /\ Lag <= MostLag
    BY DEF PowerInvariant
  <1>3. tick' \in Stamp /\ Lag' <= MostLag'
    BY <1>2, TickLag
  <1>4. \A s \in Sensor : /\ taken[s] \in Nat \cup {Failed} /\ age[s] \in Nat \cup {Failed}
                          /\ taken'[s] = (IF taken[s] = Failed THEN Failed ELSE taken[s] + 1)
                          /\ age'[s] = (IF age[s] = Failed THEN Failed ELSE age[s] + 1)
                          /\ samples[s].at \in Stamp /\ stats[s].at \in Stamp
    BY <1>1, <1>2 DEF Older, PowerTypeOK
  <1>5. PowerTypeOK'
    <2>1. \A a \in Nat \cup {Failed} : (IF a = Failed THEN Failed ELSE a + 1) \in Nat \cup {Failed}
      BY DEF Failed
    <2>2. taken' \in [Sensor -> Nat \cup {Failed}] /\ age' \in [Sensor -> Nat \cup {Failed}]
      BY <1>1, <1>4, <2>1 DEF Older
    <2> QED
      BY <1>1, <1>2, <1>3, <2>2 DEF PowerTypeOK
  <1>6. Measured' = Measured /\ Measured \subseteq Sensor
    BY <1>1, <1>2, Ticks DEF Measured, PowerTypeOK, Sensor
  <1>7. \A s \in Measured : Exact(samples[s], taken[s], Lag)'
    <2> TAKE s \in Measured
    <2>1. PICK x, a : x = samples[s] /\ a = taken[s]
      OBVIOUS
    <2>2. /\ x.at \in Stamp /\ a \in Nat \cup {Failed} /\ Exact(x, a, Lag) /\ samples'[s] = x
          /\ taken'[s] = (IF a = Failed THEN Failed ELSE a + 1)
      BY <1>1, <1>4, <1>6, <2>1 DEF PowerInvariant
    <2>3. Lag + 0 = Lag /\ (Lag + 0)' = Lag'
      BY <1>2, TickLag, Late
    <2>4. Exact(x, a, Lag + 0)
      BY <2>2, <2>3
    <2>5. Exact(x, IF a = Failed THEN Failed ELSE a + 1, Lag + 0)'
      BY <1>2, <2>2, <2>4, TickExact
    <2> QED
      BY <2>2, <2>3, <2>5 DEF Exact
  <1>8. \A s \in Sensor : Exact(stats[s], age[s], Lag + IF phase = "sleep" THEN 0 ELSE Period)'
    <2> TAKE s \in Sensor
    <2>1. PICK x, a, d : x = stats[s] /\ a = age[s] /\ d = IF phase = "sleep" THEN 0 ELSE Period
      OBVIOUS
    <2>2. /\ x.at \in Stamp /\ a \in Nat \cup {Failed} /\ Exact(x, a, Lag + d) /\ stats'[s] = x
          /\ age'[s] = (IF a = Failed THEN Failed ELSE a + 1) /\ d \in {0, Period}
      BY <1>1, <1>4, <2>1 DEF PowerInvariant
    <2>3. Exact(x, IF a = Failed THEN Failed ELSE a + 1, Lag + d)'
      BY <1>2, <2>2, TickExact
    <2> QED
      BY <1>1, <2>1, <2>2, <2>3 DEF Exact
  <1> QED
    BY <1>1, <1>3, <1>5, <1>6, <1>7, <1>8 DEF PowerInvariant

\* The samples that are tracked stay so in a step without a tick.
LEMMA StillExact ==
  ASSUME UNCHANGED <<tick, last>>
  PROVE  /\ Lag' = Lag /\ \A t : Since(t)' = Since(t)
         /\ \A x, a, b : Exact(x, a, b) => Exact(x, a, b)'
  BY DEF Lag, Since, Exact, Age

LEMMA ChangeKeepsPower ==
  ASSUME PowerInvariant, Change
  PROVE  PowerInvariant'
  <1>1. /\ phase = "wait" /\ (Silent => Lag < MaxLag)
        /\ UNCHANGED <<tick, phase, n, deadline_start, last, samples, stats, taken, age>>
    BY DEF Change, taskVars, Lag
  <1>2. PowerTypeOK /\ Lag <= MostLag
    BY DEF PowerInvariant
  <1>3. Lag' = Lag /\ Since(deadline_start)' = Since(deadline_start) /\ Measured' = Measured
    BY <1>1 DEF Lag, Since, Measured
  <1>4. Lag' <= MostLag'
    <2>1. Lag \in Nat /\ n \in Sensor /\ Since(deadline_start) \in Nat
      BY <1>2, Late, Ticks DEF PowerTypeOK, Stamp
    <2>2. Waited' \in Nat
      BY <1>3, <2>1, Ticks DEF Waited
    <2>3. MostLag' = MaxLag + (Silence(n - 1) + Waited') /\ Silence(n - 1) \in Nat
      BY <1>1, <2>1, Ticks DEF MostLag
    <2>4. CASE Silent
      BY <1>1, <1>3, <2>1, <2>2, <2>3, <2>4, Ticks
    <2>5. CASE ~Silent
      <3>1. MostLag = MaxLag + (Silence(n - 1) + 0)
        BY <1>1, <2>5 DEF MostLag, Waited
      <3> QED
        BY <1>2, <1>3, <2>1, <2>2, <2>3, <3>1, Ticks
    <2> QED
      BY <2>4, <2>5
  <1>5. PowerTypeOK'
    BY <1>1, <1>2 DEF PowerTypeOK
  <1> QED
    BY <1>1, <1>3, <1>4, <1>5 DEF PowerInvariant, Exact, Age, Since

LEMMA NextSensorKeepsPower ==
  ASSUME PowerInvariant, NextSensor
  PROVE  PowerInvariant'
  <1>1. /\ phase = "sensor" /\ phase' = "wait" /\ deadline_start' = tick
        /\ samples' = [samples EXCEPT ![n] = NoSample]
        /\ UNCHANGED <<tick, health, n, last, stats, taken, age>>
    BY DEF NextSensor, Forget
  <1>2. PowerTypeOK /\ Lag <= MostLag
    BY DEF PowerInvariant
  <1>3. n \in Sensor /\ tick \in Stamp /\ Lag \in Nat
    BY <1>2, Late DEF PowerTypeOK
  <1>4. Lag' = Lag /\ Since(deadline_start)' = 0
    <2>1. (tick - tick) % TickMod = 0
      BY <1>3, Difference DEF Stamp
    <2> QED
      BY <1>1, <2>1 DEF Lag, Since
  <1>5. Waited' = 0
    BY <1>4, Ticks DEF Waited, Overdue
  <1>6. Lag' <= MostLag'
    <2>1. MostLag = MaxLag + Silence(n - 1) /\ MostLag' = MaxLag + (Silence(n - 1) + 0)
      BY <1>1, <1>5 DEF MostLag
    <2>2. Silence(n - 1) \in Nat
      BY <1>3, Ticks
    <2> QED
      BY <1>2, <1>4, <2>1, <2>2, Ticks
  <1>7. NoSample \in [valid : BOOLEAN, at : Stamp]
    BY Ticks DEF NoSample, Stamp
  <1>8. PowerTypeOK'
    BY <1>1, <1>2, <1>7 DEF PowerTypeOK
  <1>9. /\ Measured' = Measured /\ samples'[n] = NoSample
        /\ \A s \in Measured : s \in Sensor /\ samples'[s] = samples[s]
    <2>1. Measured = 1 .. n - 1 /\ Measured' = 1 .. n - 1
      BY <1>1 DEF Measured
    <2>2. \A s \in 1 .. n - 1 : s \in Sensor /\ s # n
      BY <1>3, Ticks DEF Sensor
    <2> QED
      BY <1>1, <1>2, <2>1, <2>2 DEF PowerTypeOK
  <1> QED
    BY <1>1, <1>4, <1>6, <1>8, <1>9 DEF PowerInvariant, Exact, Age, Since

\* A sensor has had its turn.
LEMMA TurnKeepsPower ==
  ASSUME PowerInvariant, phase = "wait", Done, UNCHANGED <<tick, last, stats, age>>,
         deadline_start' \in Stamp,
         NEW x \in [valid : BOOLEAN, at : Stamp], samples' = [samples EXCEPT ![n] = x],
         NEW a \in Nat \cup {Failed}, taken' = [taken EXCEPT ![n] = a],
         Exact(x, a, Lag)
  PROVE  PowerInvariant'
  <1>1. PowerTypeOK /\ Lag <= MostLag
    BY DEF PowerInvariant
  <1>2. n \in Sensor /\ Lag \in Nat /\ Lag' = Lag /\ Waited \in 0 .. Deadline
    BY <1>1, Late, StillExact DEF PowerTypeOK
  <1>3. \/ n = Sensors /\ n' = 1 /\ phase' = "publish"
        \/ n # Sensors /\ n' = n + 1 /\ phase' = "sensor"
    BY DEF Done
  <1>4. PowerTypeOK'
    <2>1. n' \in Sensor
      BY <1>2, <1>3, Ticks DEF Sensor
    <2>2. samples' \in [Sensor -> [valid : BOOLEAN, at : Stamp]]
      BY <1>1 DEF PowerTypeOK
    <2>3. taken' \in [Sensor -> Nat \cup {Failed}]
      BY <1>1 DEF PowerTypeOK
    <2> QED
      BY <1>1, <1>3, <2>1, <2>2, <2>3 DEF PowerTypeOK
  <1>5. Lag <= MaxLag + Silence(n)
    <2>1. MostLag = MaxLag + (Silence(n - 1) + Waited)
      BY DEF MostLag
    <2> QED
      BY <1>1, <1>2, <2>1, Ticks
  <1>6. Lag' <= MostLag'
    <2>1. CASE n = Sensors
      BY <1>2, <1>3, <1>5, <2>1, Ticks DEF MostLag
    <2>2. CASE n # Sensors
      <3>1. n' - 1 = n /\ phase' = "sensor"
        BY <1>2, <1>3, <2>2 DEF Sensor
      <3> QED
        BY <1>2, <1>5, <3>1 DEF MostLag
    <2> QED
      BY <2>1, <2>2
  <1>7. Measured' \subseteq Measured \cup {n} /\ Measured' \subseteq Sensor
    <2>1. CASE n = Sensors
      BY <1>2, <1>3, <2>1, Ticks DEF Measured, Sensor
    <2>2. CASE n # Sensors
      <3>1. Measured = 1 .. n - 1 /\ Measured' = 1 .. n' - 1 /\ n' = n + 1
        BY <1>3, <2>2 DEF Measured
      <3>2. n \in Nat /\ n < Sensors
        BY <1>2, <2>2, Ticks DEF Sensor
      <3>3. 1 .. n' - 1 = 1 .. n
        BY <3>1, <3>2
      <3>4. 1 .. n \subseteq (1 .. n - 1) \cup {n} /\ 1 .. n \subseteq Sensor
        BY <3>2, Ticks DEF Sensor
      <3> QED
        BY <3>1, <3>3, <3>4
    <2> QED
      BY <2>1, <2>2
  <1>8. \A s \in Measured' : Exact(samples[s], taken[s], Lag)'
    <2> TAKE s \in Measured'
    <2>1. CASE s = n
      <3>1. samples'[s] = x /\ taken'[s] = a
        BY <1>1, <1>2, <2>1 DEF PowerTypeOK
      <3> QED
        BY <1>2, <3>1 DEF Exact, Age, Since
    <2>2. CASE s # n
      <3>1. s \in Measured /\ samples'[s] = samples[s] /\ taken'[s] = taken[s]
        BY <1>1, <1>7, <2>2 DEF PowerTypeOK
      <3>2. Exact(samples[s], taken[s], Lag)
        BY <3>1 DEF PowerInvariant
      <3> QED
        BY <1>2, <3>1, <3>2 DEF Exact, Age, Since
    <2> QED
      BY <2>1, <2>2
  <1>9. \A s \in Sensor : Exact(stats[s], age[s], Lag + IF phase = "sleep" THEN 0 ELSE Period)'
    <2> TAKE s \in Sensor
    <2>1. Exact(stats[s], age[s], Lag + Period)
      BY DEF PowerInvariant
    <2>2. phase' # "sleep"
      BY <1>3
    <2> QED
      BY <1>2, <2>1, <2>2 DEF Exact, Age, Since
  <1> QED
    BY <1>3, <1>4, <1>6, <1>8, <1>9 DEF PowerInvariant

LEMMA FailsKeepsPower ==
  ASSUME PowerInvariant, Fails
  PROVE  PowerInvariant'
  <1>1. /\ phase = "wait" /\ Done /\ deadline_start' = 0 /\ taken' = [taken EXCEPT ![n] = Failed]
        /\ UNCHANGED <<tick, last, samples, stats, age>>
    BY DEF Fails
  <1>2. NoSample \in [valid : BOOLEAN, at : Stamp] /\ 0 \in Stamp /\ Exact(NoSample, Failed, Lag)
    BY Ticks DEF NoSample, Stamp, Exact
  <1>3. samples' = [samples EXCEPT ![n] = NoSample]
    BY <1>1 DEF PowerInvariant, PowerTypeOK
  <1>4. Failed \in Nat \cup {Failed}
    OBVIOUS
  <1> QED
    BY <1>1, <1>2, <1>3, <1>4, TurnKeepsPower

LEMMA PassesKeepsPower ==
  ASSUME PowerInvariant, Passes
  PROVE  PowerInvariant'
  <1>1. phase = "wait" /\ health[n] = "good" /\ UNCHANGED <<tick, health, last, stats, age>>
    BY DEF Passes
  <1>2. PowerTypeOK /\ Lag <= MostLag /\ samples[n] = NoSample
    BY <1>1 DEF PowerInvariant
  <1>3. /\ tick \in Stamp /\ n \in Sensor /\ Lag \in Nat
        /\ Ms(tick) \in Stamp /\ (Ms(tick) - Ms(tick)) % TickMod = 0
    <2>1. tick \in Stamp /\ n \in Sensor /\ Lag \in Nat
      BY <1>2, Late DEF PowerTypeOK
    <2>2. Ms(tick) \in Stamp
      BY <2>1, Ticks DEF Ms, Stamp
    <2> QED
      BY <2>1, <2>2, Difference DEF Stamp
  <1>4. 0 \in Stamp /\ 0 \in Nat \cup {Failed} /\ Failed \in Nat \cup {Failed} /\ 0 # Failed
    BY Ticks DEF Stamp, Failed
  <1>5. CASE todo' # << >>
    <2>1. deadline_start' = tick /\ UNCHANGED <<phase, n, samples, taken>>
      BY <1>5, Zenon DEF Passes
    <2>2. PowerTypeOK'
      BY <1>1, <1>2, <2>1 DEF PowerTypeOK
    <2>3. MostLag' = MostLag /\ Lag' = Lag
      <3>1. Waited = 0 /\ Waited' = 0
        BY <1>1, <2>1 DEF Waited, Silent
      <3> QED
        BY <1>1, <2>1, <3>1 DEF MostLag, Lag, Since
    <2> QED
      BY <1>1, <1>2, <2>1, <2>2, <2>3 DEF PowerInvariant, Exact, Age, Since, Measured
  <1>6. CASE todo' = << >> /\ ready[n]
    <2>1. /\ Done /\ deadline_start' = 0 /\ taken' = [taken EXCEPT ![n] = 0]
          /\ samples' = [samples EXCEPT ![n] = [valid |-> TRUE, at |-> Ms(tick)]]
      BY <1>6, Zenon DEF Passes
    <2>2. PICK x \in [valid : BOOLEAN, at : Stamp] : x = [valid |-> TRUE, at |-> Ms(tick)]
      BY <1>3
    <2>3. Exact(x, 0, Lag)
      BY <1>3, <1>4, <2>2, Spans DEF Exact, Age
    <2> QED
      BY <1>1, <1>4, <2>1, <2>2, <2>3, TurnKeepsPower
  <1>7. CASE todo' = << >> /\ ~ready[n]
    <2>1. Done /\ deadline_start' = 0 /\ taken' = [taken EXCEPT ![n] = Failed] /\ UNCHANGED samples
      BY <1>7, Zenon DEF Passes
    <2>2. NoSample \in [valid : BOOLEAN, at : Stamp] /\ Exact(NoSample, Failed, Lag)
      BY Ticks DEF NoSample, Stamp, Exact
    <2>3. samples' = [samples EXCEPT ![n] = NoSample]
      BY <1>2, <2>1 DEF PowerTypeOK
    <2> QED
      BY <1>1, <1>4, <2>1, <2>2, <2>3, TurnKeepsPower
  <1> QED
    BY <1>5, <1>6, <1>7

LEMMA PublishKeepsPower ==
  ASSUME PowerInvariant, telemetry_power
  PROVE  PowerInvariant'
  <1>1. /\ phase = "publish" /\ phase' = "sleep" /\ stats' = samples /\ age' = taken
        /\ UNCHANGED <<tick, n, deadline_start, last, samples, taken>>
    BY DEF telemetry_power
  <1>2. PowerTypeOK /\ Lag <= MostLag
    BY DEF PowerInvariant
  <1>3. PowerTypeOK'
    BY <1>1, <1>2 DEF PowerTypeOK
  <1>4. Lag' = Lag /\ MostLag' = MostLag /\ Measured = Sensor /\ Measured' = Sensor
    BY <1>1 DEF Lag, Since, MostLag, Measured
  <1>5. Lag + 0 = Lag
    BY <1>2, Late
  <1>6. \A s \in Sensor : Exact(samples[s], taken[s], Lag) /\ Exact(samples[s], taken[s], Lag)'
    BY <1>1, <1>4 DEF PowerInvariant, Exact, Age, Since
  <1> QED
    BY <1>1, <1>2, <1>3, <1>4, <1>5, <1>6 DEF PowerInvariant, Exact

LEMMA SleepKeepsPower ==
  ASSUME PowerInvariant, Sleep
  PROVE  PowerInvariant'
  <1>1. /\ phase = "sleep" /\ phase' = "sensor" /\ Lag >= Period /\ last' = (last + Period) % TickMod
        /\ UNCHANGED <<tick, n, deadline_start, samples, stats, taken, age>>
    BY DEF Sleep, Lag
  <1>2. PowerTypeOK /\ Lag <= MostLag /\ tick \in Stamp /\ last \in Stamp /\ n = 1
    BY <1>1 DEF PowerInvariant, PowerTypeOK
  <1>3. last' \in Stamp /\ Lag' = Lag - Period
    <2>1. (tick - last) % TickMod >= Period
      BY <1>1 DEF Lag, Since
    <2>2. PICK l : l = (last + Period) % TickMod /\ last' = l
      BY <1>1
    <2>3. l \in Stamp /\ (tick - l) % TickMod = ((tick - last) % TickMod) - Period
      BY <1>2, <2>1, <2>2, PeriodOn
    <2>4. Lag' = (tick - l) % TickMod /\ Lag = (tick - last) % TickMod
      BY <1>1, <2>2, Zenon DEF Lag, Since
    <2> QED
      BY <2>2, <2>3, <2>4
  <1>4. PowerTypeOK'
    BY <1>1, <1>2, <1>3 DEF PowerTypeOK
  <1>5. Lag \in Nat /\ Lag <= MaxLag + Silence(Sensors)
    BY <1>2, Late
  <1>6. Lag' <= MostLag'
    <2>1. MostLag' = MaxLag + Silence(0)
      BY <1>1, <1>2 DEF MostLag
    <2> QED
      BY <1>3, <1>5, <2>1, Ticks
  <1>7. Measured' = {}
    BY <1>1, <1>2 DEF Measured
  <1>8. \A s \in Sensor : Exact(stats[s], age[s], Lag + IF phase = "sleep" THEN 0 ELSE Period)'
    <2> TAKE s \in Sensor
    <2>1. Exact(stats[s], age[s], Lag + 0)
      BY <1>1 DEF PowerInvariant
    <2>2. Lag' + Period = Lag + 0
      BY <1>3, <1>5, Ticks
    <2> QED
      BY <1>1, <2>1, <2>2 DEF Exact, Age, Since
  <1> QED
    BY <1>1, <1>4, <1>6, <1>7, <1>8 DEF PowerInvariant

LEMMA PowerHolds == PowerSpec => []PowerInvariant
  <1>1. PowerInit => PowerInvariant
    <2> SUFFICES ASSUME PowerInit PROVE PowerInvariant
      OBVIOUS
    <2>1. /\ tick \in Stamp /\ last = tick /\ phase = "sensor" /\ n = 1 /\ deadline_start = 0
          /\ samples = [s \in Sensor |-> NoSample] /\ stats = samples
          /\ taken = [s \in Sensor |-> Failed] /\ age = taken
      BY DEF PowerInit, Stamp
    <2>2. NoSample \in [valid : BOOLEAN, at : Stamp] /\ 1 \in Sensor /\ 0 \in Stamp
      BY Ticks DEF NoSample, Stamp, Sensor
    <2>3. PowerTypeOK
      BY <2>1, <2>2 DEF PowerTypeOK
    <2>4. Lag = 0
      BY <2>1, Difference DEF Lag, Since, Stamp
    <2>5. Lag <= MostLag
      BY <2>1, <2>4, Ticks DEF MostLag
    <2>6. Measured = {}
      BY <2>1 DEF Measured
    <2>7. \A b : Exact(NoSample, Failed, b)
      BY DEF Exact, NoSample
    <2> QED
      BY <2>1, <2>3, <2>5, <2>6, <2>7 DEF PowerInvariant
  <1>2. ASSUME PowerInvariant, UNCHANGED powerVars
        PROVE  PowerInvariant'
    BY <1>2 DEF powerVars, taskVars, PowerInvariant, PowerTypeOK, Exact, Age, Measured, MostLag, Waited,
                Silent, Overdue, Lag, Since
  <1>3. PowerInvariant /\ [PowerNext]_powerVars => PowerInvariant'
    BY <1>2, TickKeepsPower, ChangeKeepsPower, NextSensorKeepsPower, FailsKeepsPower, PassesKeepsPower,
       PublishKeepsPower, SleepKeepsPower, Zenon DEF PowerNext, PowerTask
  <1> QED
    BY <1>1, <1>3, PTL DEF PowerSpec

\* For any sensors, periods and counter: a report shows a measurement exactly
\* when the last attempt made one at most Limit ago, with its true age, also
\* after the milliseconds wrapped (power_task's rounds are too close for them to
\* go round between two).
THEOREM ReportsTruthful == PowerSpec => []PowerTruthful
  <1>1. ASSUME PowerInvariant, NEW s \in Sensor
        PROVE  power_json(stats[s]) = IF age[s] # Failed /\ Span(age[s]) <= Limit
                                      THEN [valid |-> TRUE, age |-> Span(age[s])] ELSE Null
    <2>1. PICK d : Exact(stats[s], age[s], d) /\ age[s] \in Nat \cup {Failed} /\ Limit \in Nat
      BY <1>1, Ticks DEF PowerInvariant, PowerTypeOK
    <2>2. CASE age[s] = Failed
      BY <2>1, <2>2, Zenon DEF power_json, Exact
    <2>3. CASE age[s] # Failed
      <3>1. stats[s].valid /\ Age(stats[s]) = Span(age[s]) /\ Span(age[s]) \in Nat
        BY <2>1, <2>3, Spans DEF Exact
      <3>2. Age(stats[s]) > Limit <=> ~(Span(age[s]) <= Limit)
        BY <2>1, <3>1
      <3> QED
        BY <2>3, <3>1, <3>2, Zenon DEF power_json
    <2> QED
      BY <2>2, <2>3
  <1>2. PowerInvariant => PowerTruthful
    BY <1>1, Zenon DEF PowerTruthful, Span
  <1> QED
    BY <1>2, PowerHolds, PTL
=============================================================================
