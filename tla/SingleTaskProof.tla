--------------------------- MODULE SingleTaskProof ---------------------------
(***************************************************************************)
(* The boot loader, and the clock of a pool session: one task each, nothing  *)
(* else touches their state.                                                 *)
(*                                                                           *)
(* Bootloader keeps its memory invariants for every memory layout and every  *)
(* sequence of records.  The time-outs of StratumTimers are exact for every  *)
(* counter and all periods, as long as the longest period and two passes     *)
(* fit in the counter.                                                       *)
(***************************************************************************)
EXTENDS Bootloader, StratumTimers, TLAPS
-----------------------------------------------------------------------------
(* The boot loader.                                                         *)

\* What the stages of main know: an image that got past load has a valid end
\* record, one that got past the vector check has every required vector, and
\* nothing touches the live vectors before.
Stages ==
  /\ pc \in {"check", "install", "running"} => EntryValid(entry)
  /\ pc \in {"install", "running"} => Required \subseteq seen
  /\ pc \notin {"install", "running"} => live = {}
  /\ pc = "running" => live = Required

IInv == TypeOK /\ WritesInRam /\ Stages

\* A step that only moves on, or gives up, keeps the memory as it was.
LEMMA FailKeeps ==
  ASSUME IInv, Fail, pc \notin {"install", "running"}
  PROVE  IInv'
  BY DEF IInv, Fail, TypeOK, WritesInRam, Stages, EntryValid

\* Reset: nothing is written and nothing was read.
LEMMA InitInv == Init => IInv
  BY BootAssumption DEF Init, IInv, TypeOK, WritesInRam, Stages, Addresses

\* A record for the RAM: what is written lies in the RAM and within the new
\* bounds.
LEMMA RamRecordInv ==
  ASSUME IInv, NEW a \in Addresses, NEW n \in 0 .. MaxData, RamRecord(a, n)
  PROVE  IInv'
<1> USE DEF IInv
<1>1. /\ a \in Nat /\ n \in Nat /\ RamStart \in Nat /\ RamEnd \in Nat
      /\ a >= RamStart /\ a < RamEnd /\ a + n <= RamEnd
      /\ low \in RamStart .. RamEnd /\ high \in RamStart .. RamEnd
  BY BootAssumption DEF Addresses, RamRecord, ForRam, TypeOK
<1>2. /\ low' \in RamStart .. RamEnd /\ high' \in RamStart .. RamEnd
      /\ low' <= low /\ low' <= a /\ high' >= high /\ high' >= a + n
  BY <1>1 DEF RamRecord
<1>3. TypeOK'
  BY <1>1, <1>2 DEF TypeOK, RamRecord
<1>4. WritesInRam'
  <2>1. pc = "load" /\ ram \subseteq low .. high - 1 /\ ram' = ram \cup (a .. a + n - 1)
    BY DEF WritesInRam, RamRecord, MoreRecords
  <2>2. ASSUME NEW x \in ram' PROVE x \in low' .. high' - 1
    <3>1. x \in low .. high - 1 \/ x \in a .. a + n - 1
      BY <2>1, <2>2
    <3> QED
      BY <1>1, <1>2, <3>1
  <2>3. low' .. high' - 1 \subseteq RamStart .. RamEnd - 1
    <3>1. low' \in Int /\ high' \in Int /\ RamStart <= low' /\ high' <= RamEnd
      BY <1>1, <1>2
    <3>2. PICK l \in Int, h \in Int : l = low' /\ h = high'
      BY <3>1
    <3>3. RamStart \in Int /\ RamEnd \in Int /\ RamStart <= l /\ h <= RamEnd
      BY <1>1, <3>1, <3>2
    <3>4. l .. h - 1 \subseteq RamStart .. RamEnd - 1
      BY <3>3
    <3> QED
      BY <3>2, <3>4
  <2> QED
    BY <2>2, <2>3 DEF WritesInRam
<1>5. Stages'
  BY DEF Stages, RamRecord, MoreRecords
<1> QED
  BY <1>3, <1>4, <1>5

\* A record for the vectors goes to the buffer; the live vectors and the RAM
\* stay as they were.
LEMMA VectorRecordInv ==
  ASSUME IInv, NEW a \in Addresses, NEW n \in 0 .. MaxData, VectorRecord(a, n)
  PROVE  IInv'
<1> USE DEF IInv
<1>1. a .. a + n - 1 \subseteq 0 .. VectorSize - 1
  BY BootAssumption DEF Addresses, VectorRecord, ForVectors
<1>2. TypeOK'
  <2>1. seen' \subseteq 0 .. VectorSize - 1
    BY <1>1 DEF TypeOK, VectorRecord
  <2>2. records' \in Nat /\ dataRecords' \in Nat /\ UNCHANGED <<pc, low, high, live, entry>>
    BY DEF TypeOK, VectorRecord
  <2> QED
    BY <2>1, <2>2 DEF TypeOK
<1>3. WritesInRam'
  BY DEF WritesInRam, VectorRecord
<1>4. Stages'
  BY DEF Stages, VectorRecord, MoreRecords
<1> QED
  BY <1>2, <1>3, <1>4

\* A record whose read-back differs: what was stored of it lies in the RAM.
LEMMA VerifyFailsInv ==
  ASSUME IInv, NEW a \in Addresses, NEW n \in 0 .. MaxData, NEW k \in 0 .. MaxData - 1,
         RamVerifyFails(a, n, k)
  PROVE  IInv'
<1> USE DEF IInv
<1>1. a .. a + k \subseteq RamStart .. RamEnd - 1
  BY BootAssumption DEF Addresses, RamVerifyFails, ForRam
<1>2. TypeOK'
  BY DEF TypeOK, RamVerifyFails
<1>3. WritesInRam'
  BY <1>1 DEF WritesInRam, RamVerifyFails
<1>4. Stages'
  BY DEF Stages, RamVerifyFails, MoreRecords
<1> QED
  BY <1>2, <1>3, <1>4

\* Every record load can meet keeps the invariant.
LEMMA LoadInv == ASSUME IInv, LoadStep PROVE IInv'
<1>1. CASE ReadFailure
  BY <1>1, FailKeeps DEF ReadFailure
<1>2. CASE HeaderRecord
  BY <1>2 DEF HeaderRecord, IInv, TypeOK, WritesInRam, Stages, EntryValid
<1>3. ASSUME NEW n \in 0 .. MaxRecords, CountRecord(n) PROVE IInv'
  <2>1. CASE n = dataRecords
    <3>1. records' = records + 1 /\ UNCHANGED <<pc, dataRecords, low, high, seen, ram, live, entry>>
      BY <1>3, <2>1 DEF CountRecord
    <3> QED
      BY <3>1 DEF IInv, TypeOK, WritesInRam, Stages, EntryValid
  <2>2. CASE n # dataRecords
    BY <1>3, <2>2, FailKeeps DEF CountRecord, MoreRecords
  <2> QED
    BY <2>1, <2>2
<1>4. ASSUME NEW a \in Addresses, NEW n \in 0 .. MaxData, BadRange(a, n) PROVE IInv'
  BY <1>4, FailKeeps DEF BadRange, MoreRecords
<1>5. ASSUME NEW e \in Addresses, EndRecord(e) PROVE IInv'
  BY <1>5 DEF EndRecord, MoreRecords, IInv, TypeOK, WritesInRam, Stages, EntryValid
<1> QED
  BY <1>1, <1>2, <1>3, <1>4, <1>5, VectorRecordInv, RamRecordInv, VerifyFailsInv DEF LoadStep

\* The inductive step, one case for each step of main.
LEMMA NextInv == IInv /\ [Next]_vars => IInv'
<1> SUFFICES ASSUME IInv, [Next]_vars PROVE IInv'
  OBVIOUS
<1>1. CASE Calibrate \/ IdentifyFlash
  BY <1>1 DEF Calibrate, IdentifyFlash, IInv, TypeOK, WritesInRam, Stages, EntryValid
<1>2. CASE CalibrateFails \/ IdentifyFails
  BY <1>2, FailKeeps DEF CalibrateFails, IdentifyFails
<1>3. CASE LoadStep
  BY <1>3, LoadInv
<1>4. CASE CheckVectors
  BY <1>4 DEF CheckVectors, IInv, TypeOK, WritesInRam, Stages, EntryValid
<1>5. CASE InstallByte
  BY <1>5 DEF InstallByte, IInv, TypeOK, WritesInRam, Stages, EntryValid
<1>6. CASE Jump
  BY <1>6 DEF Jump, IInv, TypeOK, WritesInRam, Stages, EntryValid
<1>7. CASE UNCHANGED vars
  BY <1>7 DEF vars, IInv, TypeOK, WritesInRam, Stages, EntryValid
<1> QED
  BY <1>1, <1>2, <1>3, <1>4, <1>5, <1>6, <1>7 DEF Next

\* The stages of main and the memory of load satisfy the inductive invariant
\* in every state of every boot.
THEOREM BootInv == Spec => []IInv
<1> QED
  BY InitInv, NextInv, PTL DEF Spec

\* main touches the live vectors only after all checks (VectorsLast), for any
\* set of required vectors and any image.
THEOREM LiveVectorsLast == Spec => []VectorsLast
<1>1. IInv => VectorsLast
  BY DEF IInv, Stages, TypeOK, VectorsLast
<1> QED
  BY <1>1, BootInv, PTL

\* load stores data only in the HyperRAM and within the bounds it checks the
\* entry point against (WritesInRam), for any layout of the memory.
THEOREM LoadStaysInRam == Spec => []WritesInRam
<1>1. IInv => WritesInRam
  BY DEF IInv
<1> QED
  BY <1>1, BootInv, PTL

\* The jump is to an aligned address of the HyperRAM with every required vector
\* provided and installed (StartsComplete).
THEOREM ApplicationComplete == Spec => []StartsComplete
<1>1. IInv => StartsComplete
  BY BootAssumption DEF IInv, Stages, TypeOK, StartsComplete, EntryValid, Addresses
<1> QED
  BY <1>1, BootInv, PTL
-----------------------------------------------------------------------------
(* The time-outs.                                                           *)

\* A stamp of the tick counter, and the counter when now was read.
Stamp == 0 .. TickMod - 1
Lag == (tick - now) % TickMod
NowRead == {"break", "service", "shares"}

TimersTypeOK ==
  /\ loop \in NowRead \cup {"recv", "ended"}
  /\ tick \in Stamp /\ now \in Stamp /\ started \in Stamp /\ last \in Stamp
  /\ authorized \in BOOLEAN
  /\ Waiting \subseteq Slot /\ \A i \in Waiting : sent[i] \in Stamp
  /\ age \in [started : Nat, last : Nat, sent : [Slot -> Nat]]
  /\ pass \in 0 .. PassTicks

\* A stamp from before now was read: its unsigned age is its age a, and is not
\* past the period by more than the pass before and this one.
Tracked(stamp, a, period) ==
  /\ a = (tick - stamp) % TickMod
  /\ a <= period + PassTicks + pass
  /\ loop \in NowRead => a >= Lag

\* A session that has not ended.  The tests of Break hold until the pass is
\* over, and only a fresh submission is younger than now.
InTime ==
  /\ ended = Live
  /\ loop \in NowRead => Lag <= pass
  /\ loop \in {"recv", "break"} => fresh = {}
  /\ fresh \subseteq Waiting
  /\ Tracked(last, age.last, LineTicks)
  /\ ~authorized => Tracked(started, age.started, AuthTicks)
  /\ \A i \in Waiting \ fresh : Tracked(sent[i], age.sent[i], ShareTicks)
  /\ \A i \in fresh : age.sent[i] = (tick - sent[i]) % TickMod /\ age.sent[i] <= Lag
  /\ loop \in {"service", "shares"} =>
       /\ age.last <= LineTicks + Lag
       /\ ~authorized => age.started <= AuthTicks + Lag

TimersInvariant == TimersTypeOK /\ (loop # "ended" => InTime) /\ TimeoutsEarned

LEMMA Periods ==
  /\ TickMod \in Nat \ {0} /\ AuthTicks \in Nat /\ LineTicks \in Nat /\ ShareTicks \in Nat
  /\ PassTicks \in Nat \ {0}
  /\ AuthTicks <= LineTicks /\ ShareTicks <= LineTicks
  /\ LineTicks + 2 * PassTicks < TickMod
  BY TimersAssumption

\* The unsigned difference of two stamps.
LEMMA Difference ==
  ASSUME NEW t \in Stamp, NEW s \in Stamp
  PROVE  /\ (t - s) % TickMod = IF t >= s THEN t - s ELSE t - s + TickMod
         /\ (t - s) % TickMod \in Stamp
  <1>1. TickMod \in Nat \ {0} /\ t \in Nat /\ s \in Nat /\ t < TickMod /\ s < TickMod
    BY Periods DEF Stamp
  <1>2. CASE t >= s
    BY <1>1, <1>2 DEF Stamp
  <1>3. CASE ~(t >= s)
    BY <1>1, <1>3 DEF Stamp
  <1> QED
    BY <1>2, <1>3

\* It grows by one with every tick,
LEMMA OneLater ==
  ASSUME NEW t \in Stamp, NEW s \in Stamp, ((t - s) % TickMod) + 1 < TickMod
  PROVE  /\ (t + 1) % TickMod \in Stamp
         /\ (((t + 1) % TickMod) - s) % TickMod = ((t - s) % TickMod) + 1
  <1>1. TickMod \in Nat \ {0} /\ t \in Nat /\ s \in Nat /\ t < TickMod /\ s < TickMod
    BY Periods DEF Stamp
  <1>2. PICK u \in Stamp : u = (t + 1) % TickMod /\ u = IF t + 1 = TickMod THEN 0 ELSE t + 1
    BY <1>1 DEF Stamp
  <1>3. (u - s) % TickMod = IF u >= s THEN u - s ELSE u - s + TickMod
    BY Difference
  <1>4. (t - s) % TickMod = IF t >= s THEN t - s ELSE t - s + TickMod
    BY Difference
  <1>5. (u - s) % TickMod = ((t - s) % TickMod) + 1
    BY <1>1, <1>2, <1>3, <1>4
  <1> QED
    BY <1>2, <1>5

\* and for a third stamp between it splits.
LEMMA Between ==
  ASSUME NEW t \in Stamp, NEW n \in Stamp, NEW s \in Stamp,
         NEW a, a = (t - s) % TickMod, NEW l, l = (t - n) % TickMod
  PROVE  /\ a \in Nat /\ l \in Nat /\ l < TickMod
         /\ (n - s) % TickMod = IF a >= l THEN a - l ELSE a - l + TickMod
  <1>1. TickMod \in Nat \ {0} /\ t \in Nat /\ n \in Nat /\ s \in Nat
        /\ t < TickMod /\ n < TickMod /\ s < TickMod
    BY Periods DEF Stamp
  <1>2. /\ a = IF t >= s THEN t - s ELSE t - s + TickMod
        /\ l = IF t >= n THEN t - n ELSE t - n + TickMod
        /\ (n - s) % TickMod = IF n >= s THEN n - s ELSE n - s + TickMod
    BY Difference
  <1> QED
    BY <1>1, <1>2
-----------------------------------------------------------------------------
\* A tick makes a stamp one tick older.
LEMMA TickTracked ==
  ASSUME TimersTypeOK, InTime, Tick, NEW s \in Stamp, NEW a \in Nat, NEW p \in Nat,
         p <= LineTicks, Tracked(s, a, p)
  PROVE  Older(a) = a + 1 /\ Tracked(s, a + 1, p)'
  <1>1. /\ tick \in Stamp /\ pass \in Nat /\ pass < PassTicks /\ pass' = pass + 1
        /\ tick' = (tick + 1) % TickMod /\ UNCHANGED <<now, loop>> /\ now \in Stamp
    BY DEF Tick, TimersTypeOK
  <1>2. a = (tick - s) % TickMod /\ a <= p + PassTicks + pass
    BY DEF Tracked
  <1>3. a + 1 < TickMod /\ a < MaxAge
    BY <1>1, <1>2, Periods DEF MaxAge
  <1>4. a + 1 = (tick' - s) % TickMod
    BY <1>1, <1>2, <1>3, OneLater
  <1>5. a + 1 <= p + PassTicks + pass'
    BY <1>1, <1>2, Periods
  <1>6. ASSUME loop \in NowRead
        PROVE  a + 1 >= Lag'
    <2>1. Lag <= pass /\ Lag \in Stamp /\ a >= Lag
      BY <1>1, <1>6, Difference DEF InTime, Lag, Tracked
    <2>2. Lag + 1 < TickMod /\ Lag \in Nat
      BY <1>1, <2>1, Periods DEF Stamp
    <2>3. Lag' = Lag + 1
      BY <1>1, <2>2, OneLater DEF Lag
    <2> QED
      BY <2>1, <2>2, <2>3
  <1>7. Older(a) = a + 1
    BY <1>3 DEF Older
  <1> QED
    BY <1>1, <1>4, <1>5, <1>6, <1>7 DEF Tracked

LEMMA TickInTime ==
  ASSUME TimersTypeOK, InTime, Tick
  PROVE  TimersTypeOK' /\ InTime'
  <1>1. /\ tick \in Stamp /\ pass \in Nat /\ pass < PassTicks /\ pass' = pass + 1
        /\ tick' = (tick + 1) % TickMod /\ now \in Stamp
        /\ UNCHANGED <<loop, now, started, last, authorized, sent, fresh, ended>>
        /\ age' = [started |-> IF authorized THEN 0 ELSE Older(age.started),
                   last |-> Older(age.last),
                   sent |-> [i \in Slot |-> IF i \in Waiting THEN Older(age.sent[i]) ELSE 0]]
    BY DEF Tick, TimersTypeOK
  <1>2. /\ age.last \in Nat /\ age.started \in Nat /\ \A i \in Slot : age.sent[i] \in Nat
        /\ \A a \in Nat : Older(a) \in Nat
    BY Periods DEF TimersTypeOK, Older, MaxAge
  <1>3. age'.last = Older(age.last) /\ age'.started = (IF authorized THEN 0 ELSE Older(age.started))
        /\ \A i \in Waiting : i \in Slot /\ age'.sent[i] = Older(age.sent[i])
    BY <1>1 DEF TimersTypeOK
  <1>4. TimersTypeOK'
    <2>1. age' \in [started : Nat, last : Nat, sent : [Slot -> Nat]]
      BY <1>1, <1>2
    <2>2. tick' \in Stamp
      BY <1>1, Periods DEF Stamp
    <2>3. pass' \in 0 .. PassTicks
      BY <1>1, Periods
    <2> QED
      BY <1>1, <2>1, <2>2, <2>3 DEF TimersTypeOK, Waiting
  <1>5. Tracked(last, age.last, LineTicks)' /\ age'.last = age.last + 1
    <2>1. last \in Stamp /\ LineTicks \in Nat /\ LineTicks <= LineTicks /\ Tracked(last, age.last, LineTicks)
      BY Periods DEF TimersTypeOK, InTime
    <2>2. PICK s \in Stamp, a \in Nat : s = last /\ a = age.last
      BY <1>2, <2>1
    <2>3. Older(a) = a + 1 /\ Tracked(s, a + 1, LineTicks)'
      BY <2>1, <2>2, TickTracked
    <2> QED
      BY <1>1, <1>3, <2>2, <2>3 DEF Tracked
  <1>6. ASSUME ~authorized
        PROVE  Tracked(started, age.started, AuthTicks)' /\ age'.started = age.started + 1
    <2>1. started \in Stamp /\ AuthTicks \in Nat /\ AuthTicks <= LineTicks
          /\ Tracked(started, age.started, AuthTicks)
      BY <1>6, Periods DEF TimersTypeOK, InTime
    <2>2. PICK s \in Stamp, a \in Nat : s = started /\ a = age.started
      BY <1>2, <2>1
    <2>3. Older(a) = a + 1 /\ Tracked(s, a + 1, AuthTicks)'
      BY <2>1, <2>2, TickTracked
    <2> QED
      BY <1>1, <1>3, <1>6, <2>2, <2>3 DEF Tracked
  <1>7. ASSUME NEW i \in Waiting \ fresh
        PROVE  Tracked(sent[i], age.sent[i], ShareTicks)'
    <2>1. sent[i] \in Stamp /\ ShareTicks \in Nat /\ ShareTicks <= LineTicks /\ age.sent[i] \in Nat
          /\ Tracked(sent[i], age.sent[i], ShareTicks)
      BY Periods DEF TimersTypeOK, InTime
    <2>2. PICK s \in Stamp, a \in Nat : s = sent[i] /\ a = age.sent[i]
      BY <2>1
    <2>3. Older(a) = a + 1 /\ Tracked(s, a + 1, ShareTicks)'
      BY <2>1, <2>2, TickTracked
    <2> QED
      BY <1>1, <1>3, <2>2, <2>3 DEF Tracked
  <1>8. ASSUME loop \in NowRead
        PROVE  Lag' = Lag + 1 /\ Lag \in Nat /\ Lag <= pass
    <2>1. Lag <= pass /\ Lag \in Stamp
      BY <1>1, <1>8, Difference DEF InTime, Lag
    <2>2. Lag + 1 < TickMod /\ Lag \in Nat
      BY <1>1, <2>1, Periods DEF Stamp
    <2> QED
      BY <1>1, <2>1, <2>2, OneLater DEF Lag
  <1>9. ASSUME NEW i \in fresh
        PROVE  age'.sent[i] = (tick' - sent'[i]) % TickMod /\ age'.sent[i] <= Lag'
    <2>1. i \in Waiting /\ loop \in NowRead /\ sent[i] \in Stamp /\ age.sent[i] \in Nat
          /\ age.sent[i] = (tick - sent[i]) % TickMod /\ age.sent[i] <= Lag
      <3>1. i \in Waiting /\ loop # "recv"
        BY DEF InTime
      <3>2. loop # "ended"
        BY DEF Tick
      <3> QED
        BY <3>1, <3>2 DEF InTime, TimersTypeOK
    <2>2. age.sent[i] + 1 < TickMod /\ age.sent[i] < MaxAge
      BY <1>1, <1>8, <2>1, Periods DEF MaxAge
    <2>3. age'.sent[i] = age.sent[i] + 1
      BY <1>3, <2>1, <2>2 DEF Older
    <2>4. (tick' - sent[i]) % TickMod = age.sent[i] + 1
      BY <1>1, <2>1, <2>2, OneLater
    <2> QED
      BY <1>1, <1>8, <2>1, <2>3, <2>4
  <1>10. loop' \in {"service", "shares"} =>
           /\ age'.last <= LineTicks + Lag'
           /\ ~authorized' => age'.started <= AuthTicks + Lag'
    <2> SUFFICES ASSUME loop \in {"service", "shares"}
                 PROVE  /\ age'.last <= LineTicks + Lag'
                        /\ ~authorized' => age'.started <= AuthTicks + Lag'
      BY <1>1
    <2>1. Lag' = Lag + 1 /\ Lag \in Nat
      BY <1>8 DEF NowRead
    <2>2. age.last <= LineTicks + Lag /\ (~authorized => age.started <= AuthTicks + Lag)
      BY DEF InTime
    <2> QED
      BY <1>1, <1>2, <1>5, <1>6, <2>1, <2>2, Periods
  <1>11. loop' \in NowRead => Lag' <= pass'
    BY <1>1, <1>8
  <1> QED
    BY <1>1, <1>4, <1>5, <1>6, <1>7, <1>9, <1>10, <1>11 DEF InTime, Waiting

\* A line: the stamp last is new, and a submission may be answered.
LEMMA LineInTime ==
  ASSUME TimersTypeOK, InTime, Line
  PROVE  TimersTypeOK' /\ InTime'
  <1>1. /\ loop = "recv" /\ last' = tick /\ age' = [age EXCEPT !.last = 0]
        /\ authorized' \in {authorized, TRUE}
        /\ DOMAIN sent' \subseteq DOMAIN sent /\ \A j \in DOMAIN sent' : sent'[j] = sent[j]
        /\ UNCHANGED <<loop, tick, now, started, pass, fresh, ended>>
    BY DEF Line, Waiting
  <1>2. fresh = {}
    BY <1>1 DEF InTime
  <1>3. /\ age'.last = 0 /\ age'.started = age.started /\ age'.sent = age.sent
        /\ tick \in Stamp /\ pass \in Nat /\ loop' \notin NowRead
    BY <1>1 DEF TimersTypeOK, NowRead
  <1>4. TimersTypeOK'
    BY <1>1 DEF TimersTypeOK, Waiting
  <1>5. Tracked(last, age.last, LineTicks)'
    <2>1. (tick - tick) % TickMod = 0
      BY <1>3, Difference DEF Stamp
    <2>2. 0 <= LineTicks + PassTicks + pass
      BY <1>3, Periods
    <2> QED
      BY <1>1, <1>3, <2>1, <2>2 DEF Tracked
  <1>6. ~authorized' => Tracked(started, age.started, AuthTicks)'
    <2>1. ~authorized' => ~authorized
      BY <1>1, Zenon
    <2>2. Tracked(started, age.started, AuthTicks) => Tracked(started, age.started, AuthTicks)'
      BY <1>1, <1>3 DEF Tracked
    <2> QED
      BY <2>1, <2>2, Zenon DEF InTime
  <1>7. \A i \in Waiting' : Tracked(sent[i], age.sent[i], ShareTicks)'
    BY <1>1, <1>2, <1>3 DEF InTime, Tracked, Waiting
  <1> QED
    BY <1>1, <1>2, <1>3, <1>4, <1>5, <1>6, <1>7 DEF InTime

\* now is read: no stamp is younger.
LEMMA ReadNowInTime ==
  ASSUME TimersTypeOK, InTime, ReadNow
  PROVE  TimersTypeOK' /\ InTime'
  <1>1. /\ loop = "recv" /\ loop' = "break" /\ now' = tick
        /\ UNCHANGED <<tick, started, last, authorized, sent, age, pass, fresh, ended>>
    BY DEF ReadNow
  <1>2. tick \in Stamp /\ pass \in Nat /\ fresh = {}
    BY <1>1 DEF TimersTypeOK, InTime
  <1>3. Lag' = 0
    BY <1>1, <1>2, Difference DEF Lag, Stamp
  <1>4. TimersTypeOK'
    BY <1>1 DEF TimersTypeOK, Waiting, NowRead
  <1>5. ASSUME NEW s \in Stamp, NEW a, NEW p, Tracked(s, a, p)
        PROVE  Tracked(s, a, p)'
    <2>1. a \in Nat
      BY <1>2, <1>5, Difference DEF Tracked, Stamp
    <2> QED
      BY <1>1, <1>3, <1>5, <2>1 DEF Tracked
  <1>6. Tracked(last, age.last, LineTicks)'
    BY <1>1, <1>5 DEF InTime, TimersTypeOK, Tracked
  <1>7. ~authorized' => Tracked(started, age.started, AuthTicks)'
    BY <1>1, <1>5 DEF InTime, TimersTypeOK, Tracked
  <1>8. \A i \in Waiting' : Tracked(sent[i], age.sent[i], ShareTicks)'
    BY <1>1, <1>2, <1>5 DEF InTime, TimersTypeOK, Tracked, Waiting
  <1> QED
    BY <1>1, <1>2, <1>3, <1>4, <1>6, <1>7, <1>8 DEF InTime

\* What the test of a period finds for a stamp that is not younger than now.
LEMMA OverdueTracked ==
  ASSUME TimersTypeOK, NEW s \in Stamp, NEW a, NEW p \in Nat, Tracked(s, a, p), loop \in NowRead
  PROVE  Overdue(s, p) <=> a > p + Lag
  <1>1. a = (tick - s) % TickMod /\ a >= Lag /\ Lag = (tick - now) % TickMod
        /\ tick \in Stamp /\ now \in Stamp
    BY DEF Tracked, TimersTypeOK, Lag
  <1>2. a \in Nat /\ Lag \in Nat /\ (now - s) % TickMod = a - Lag
    BY <1>1, Between
  <1> QED
    BY <1>2 DEF Overdue

\* The tests of the two long periods.
LEMMA BreakInTime ==
  ASSUME TimersTypeOK, InTime, Break
  PROVE  TimersInvariant'
  <1>1. loop = "break" /\ loop \in NowRead /\ fresh = {} /\ loop' \in {"ended", "service"}
        /\ UNCHANGED <<tick, now, started, last, authorized, sent, age, pass, fresh>>
    BY DEF Break, End, NowRead, InTime
  <1>2. TimersTypeOK'
    BY <1>1 DEF TimersTypeOK, Waiting, NowRead
  <1>3. Lag \in Nat
    BY Difference DEF Lag, TimersTypeOK, Stamp
  <1>4. Overdue(last, LineTicks) <=> age.last > LineTicks + Lag
    BY <1>1, OverdueTracked, Periods DEF InTime, TimersTypeOK
  <1>5. ~authorized => (Overdue(started, AuthTicks) <=> age.started > AuthTicks + Lag)
    BY <1>1, OverdueTracked, Periods DEF InTime, TimersTypeOK
  <1>6. age.last \in Nat /\ age.started \in Nat
    BY DEF TimersTypeOK
  <1>7. CASE loop' = "ended"
    <2>1. \/ ended' = [why |-> "bad", shares |-> {}]
          \/ ~authorized /\ Overdue(started, AuthTicks) /\ ended' = [why |-> "authorization", shares |-> {}]
          \/ Overdue(last, LineTicks) /\ ended' = [why |-> "silence", shares |-> {}]
      BY <1>7 DEF Break, End
    <2>2. Overdue(last, LineTicks) => age.last > LineTicks
      BY <1>3, <1>4, <1>6, Periods
    <2>3. ~authorized /\ Overdue(started, AuthTicks) => age.started > AuthTicks
      BY <1>3, <1>5, <1>6, Periods
    <2>4. TimeoutsEarned'
      BY <1>1, <2>1, <2>2, <2>3 DEF TimeoutsEarned
    <2> QED
      BY <1>2, <1>7, <2>4 DEF TimersInvariant
  <1>8. CASE loop' = "service"
    <2>1. /\ authorized \/ ~Overdue(started, AuthTicks)
          /\ ~Overdue(last, LineTicks) /\ UNCHANGED ended
      BY <1>8 DEF Break, End
    <2>2. age.last <= LineTicks + Lag /\ (~authorized => age.started <= AuthTicks + Lag)
      BY <1>3, <1>4, <1>5, <1>6, <2>1, Periods
    <2>3. InTime'
      BY <1>1, <1>8, <2>1, <2>2 DEF InTime, Tracked, Lag, Waiting, NowRead
    <2>4. TimeoutsEarned'
      BY <2>3 DEF InTime, Live, TimeoutsEarned
    <2> QED
      BY <1>2, <2>3, <2>4 DEF TimersInvariant
  <1> QED
    BY <1>1, <1>7, <1>8

\* A submission is stamped: it is younger than now, or as old.
LEMMA SubmitInTime ==
  ASSUME TimersTypeOK, InTime, NEW i \in Slot, Submit(i)
  PROVE  TimersTypeOK' /\ InTime'
  <1>1. /\ loop = "service" /\ i \notin Waiting /\ fresh' = fresh \cup {i}
        /\ sent' = [j \in Waiting \cup {i} |-> IF j = i THEN tick ELSE sent[j]]
        /\ age' = [age EXCEPT !.sent[i] = 0]
        /\ UNCHANGED <<loop, tick, now, started, last, authorized, pass, ended>>
    BY DEF Submit
  <1>2. /\ Waiting' = Waiting \cup {i} /\ sent'[i] = tick
        /\ \A j \in Waiting : j # i /\ sent'[j] = sent[j]
    BY <1>1 DEF Waiting
  <1>3. /\ age' \in [started : Nat, last : Nat, sent : [Slot -> Nat]]
        /\ age'.last = age.last /\ age'.started = age.started /\ age'.sent[i] = 0
        /\ \A j \in Slot \ {i} : age'.sent[j] = age.sent[j]
    BY <1>1 DEF TimersTypeOK
  <1>4. TimersTypeOK'
    BY <1>1, <1>2, <1>3 DEF TimersTypeOK
  <1>5. tick \in Stamp /\ now \in Stamp /\ Waiting \subseteq Slot /\ fresh \subseteq Waiting
    BY DEF TimersTypeOK, InTime
  <1>6. (tick - tick) % TickMod = 0 /\ Lag \in Nat /\ Lag' = Lag
    BY <1>1, <1>5, Difference DEF Lag, Stamp
  <1>7. \A j \in Waiting \ fresh : Tracked(sent[j], age.sent[j], ShareTicks)'
    BY <1>1, <1>2, <1>3, <1>5 DEF InTime, Tracked, Lag
  <1>8. \A j \in fresh : age'.sent[j] = (tick' - sent'[j]) % TickMod /\ age'.sent[j] <= Lag'
    BY <1>1, <1>2, <1>3, <1>5, <1>6 DEF InTime
  <1>9. age'.sent[i] = (tick' - sent'[i]) % TickMod /\ age'.sent[i] <= Lag'
    BY <1>1, <1>2, <1>3, <1>6
  <1>10. Tracked(last, age.last, LineTicks)' /\ (~authorized' => Tracked(started, age.started, AuthTicks)')
    BY <1>1, <1>3 DEF InTime, Tracked, Lag
  <1>11. fresh' \subseteq Waiting' /\ Waiting' \ fresh' \subseteq Waiting \ fresh
    BY <1>1, <1>2, <1>5
  <1> QED
    BY <1>1, <1>3, <1>4, <1>6, <1>7, <1>8, <1>9, <1>10, <1>11 DEF InTime

\* The test of the submissions.
LEMMA SharesInTime ==
  ASSUME TimersTypeOK, InTime, Shares
  PROVE  TimersInvariant'
  <1> DEFINE late == {i \in Waiting : Overdue(sent[i], ShareTicks)}
  <1>1. /\ loop = "shares" /\ loop \in NowRead
        /\ IF late # {} THEN End("shares", late) ELSE loop' = "recv" /\ UNCHANGED ended
        /\ pass' = 0 /\ fresh' = (IF loop' = "recv" THEN {} ELSE fresh)
        /\ UNCHANGED <<tick, now, started, last, authorized, sent, age>>
    BY DEF Shares, NowRead
  <1>2. loop' \in {"recv", "ended"} /\ pass' \in 0 .. PassTicks
    BY <1>1, Periods DEF End
  <1>3. TimersTypeOK'
    BY <1>1, <1>2 DEF TimersTypeOK, Waiting
  <1>4. /\ Lag \in Nat /\ Lag <= PassTicks /\ tick \in Stamp /\ now \in Stamp
        /\ age.last \in Nat /\ age.started \in Nat
        /\ \A i \in Waiting : i \in Slot /\ sent[i] \in Stamp /\ age.sent[i] \in Nat
    <2>1. /\ tick \in Stamp /\ now \in Stamp /\ Lag <= pass /\ pass \in 0 .. PassTicks
          /\ age.last \in Nat /\ age.started \in Nat
          /\ \A i \in Waiting : i \in Slot /\ sent[i] \in Stamp /\ age.sent[i] \in Nat
      BY <1>1 DEF TimersTypeOK, InTime
    <2>2. Lag \in Nat
      BY <2>1, Difference DEF Lag, Stamp
    <2> QED
      BY <2>1, <2>2, Periods
  <1>5. \A i \in Waiting \ fresh : i \in late <=> age.sent[i] > ShareTicks + Lag
    BY <1>1, <1>4, OverdueTracked, Periods DEF InTime
  <1>6. CASE late # {}
    <2>1. loop' = "ended" /\ ended' = [why |-> "shares", shares |-> late] /\ fresh' = fresh
      BY <1>1, <1>6 DEF End
    <2>2. ASSUME NEW i \in late
          PROVE  age.sent[i] > ShareTicks \/ (i \in fresh /\ now # sent[i])
      <3>1. CASE i \in fresh
        <4>1. i \in Waiting /\ sent[i] \in Stamp /\ (now - sent[i]) % TickMod > ShareTicks
          BY <1>4 DEF Overdue
        <4>2. CASE now = sent[i]
          <5>1. (now - sent[i]) % TickMod = 0
            <6>1. \A n \in Stamp : (n - n) % TickMod = 0
              BY Difference DEF Stamp
            <6> QED
              BY <1>4, <4>2, <6>1
          <5> QED
            BY <4>1, <5>1, Periods
        <4>3. CASE now # sent[i]
          BY <3>1, <4>3
        <4> QED
          BY <4>2, <4>3
      <3>2. CASE i \notin fresh
        <4>1. age.sent[i] > ShareTicks + Lag /\ age.sent[i] \in Nat
          BY <1>4, <1>5, <3>2
        <4> QED
          BY <1>4, <4>1, Periods
      <3> QED
        BY <3>1, <3>2
    <2>3. \A i \in ended'.shares : age'.sent[i] > ShareTicks \/ (i \in fresh' /\ now' # sent'[i])
      <3> HIDE DEF late
      <3> QED
        BY <1>1, <2>1, <2>2
    <2>4. TimeoutsEarned'
      <3> HIDE DEF late
      <3> QED
        BY <2>1, <2>3 DEF TimeoutsEarned
    <2> QED
      BY <1>3, <2>1, <2>4 DEF TimersInvariant
  <1>7. CASE late = {}
    <2>1. loop' = "recv" /\ UNCHANGED ended /\ fresh' = {} /\ pass' = 0
      BY <1>1, <1>7
    <2>2. /\ age.last <= LineTicks + PassTicks + 0
          /\ ~authorized => age.started <= AuthTicks + PassTicks + 0
      <3>1. age.last <= LineTicks + Lag /\ (~authorized => age.started <= AuthTicks + Lag)
        BY <1>1 DEF InTime
      <3> QED
        BY <1>4, <3>1, Periods
    <2>3. ASSUME NEW i \in Waiting
          PROVE  /\ age.sent[i] = (tick - sent[i]) % TickMod
                 /\ age.sent[i] <= ShareTicks + PassTicks + 0
      <3>1. CASE i \in fresh
        <4>1. age.sent[i] = (tick - sent[i]) % TickMod /\ age.sent[i] <= Lag
          BY <3>1 DEF InTime
        <4> QED
          BY <1>4, <4>1, Periods
      <3>2. CASE i \notin fresh
        <4>1. age.sent[i] = (tick - sent[i]) % TickMod
          BY <3>2 DEF InTime, Tracked
        <4>2. ~(age.sent[i] > ShareTicks + Lag) /\ age.sent[i] \in Nat
          BY <1>4, <1>5, <1>7, <3>2
        <4> QED
          BY <1>4, <4>1, <4>2, Periods
      <3> QED
        BY <3>1, <3>2
    <2>4. Tracked(last, age.last, LineTicks)' /\ (~authorized' => Tracked(started, age.started, AuthTicks)')
      BY <1>1, <2>1, <2>2 DEF InTime, Tracked, NowRead
    <2>5. \A i \in Waiting : Tracked(sent[i], age.sent[i], ShareTicks)'
      BY <1>1, <2>1, <2>3 DEF Tracked, NowRead
    <2>6. InTime'
      BY <1>1, <2>1, <2>4, <2>5 DEF InTime, NowRead, Waiting
    <2>7. TimeoutsEarned'
      BY <2>6 DEF InTime, Live, TimeoutsEarned
    <2> QED
      BY <1>3, <2>6, <2>7 DEF TimersInvariant
  <1> QED
    BY <1>6, <1>7

\* A session begins.
Begin ==
  /\ loop = "recv" /\ tick \in Stamp /\ now = tick /\ started = tick /\ last = tick
  /\ authorized = FALSE /\ sent = << >> /\ age = NoAge /\ pass = 0 /\ fresh = {} /\ ended = Live

LEMMA BeginInTime == Begin => TimersInvariant
  <1> SUFFICES ASSUME Begin PROVE TimersInvariant
    OBVIOUS
  <1>1. Waiting = {}
    BY DEF Begin, Waiting
  <1>2. TimersTypeOK
    <2>1. age \in [started : Nat, last : Nat, sent : [Slot -> Nat]] /\ pass \in 0 .. PassTicks
      BY Periods DEF Begin, NoAge
    <2> QED
      BY <1>1, <2>1 DEF Begin, TimersTypeOK
  <1>3. (tick - tick) % TickMod = 0
    BY Difference DEF Begin, Stamp
  <1>4. Tracked(last, age.last, LineTicks) /\ Tracked(started, age.started, AuthTicks)
    BY <1>3, Periods DEF Begin, Tracked, NoAge, NowRead
  <1>5. InTime
    BY <1>1, <1>4 DEF Begin, InTime, NowRead
  <1>6. TimeoutsEarned
    BY DEF Begin, TimeoutsEarned, Live
  <1> QED
    BY <1>2, <1>5, <1>6 DEF TimersInvariant

LEMMA TimersStep ==
  ASSUME TimersInvariant, [TimersNext]_timerVars
  PROVE  TimersInvariant'
  <1>1. ASSUME TimersTypeOK', InTime'
        PROVE  TimersInvariant'
    BY <1>1 DEF TimersInvariant, InTime, Live, TimeoutsEarned
  <1>2. TimersTypeOK /\ (loop # "ended" => InTime)
    BY DEF TimersInvariant
  <1>3. CASE Tick \/ Line \/ ReadNow \/ \E i \in Slot : Submit(i)
    <2>1. loop # "ended"
      BY <1>3 DEF Tick, Line, ReadNow, Submit
    <2> QED
      BY <1>1, <1>2, <1>3, <2>1, TickInTime, LineInTime, ReadNowInTime, SubmitInTime, Zenon
  <1>4. CASE Break \/ Shares
    <2>1. loop # "ended"
      BY <1>4 DEF Break, Shares
    <2> QED
      BY <1>2, <1>4, <2>1, BreakInTime, SharesInTime, Zenon
  <1>5. CASE Served
    <2>1. /\ loop = "service" /\ InTime
          /\ UNCHANGED <<tick, now, started, last, authorized, sent, age, pass, fresh>>
      BY <1>2, <1>5 DEF Served
    <2>2. CASE loop' = "shares" /\ UNCHANGED ended
      <3>1. TimersTypeOK'
        BY <1>2, <2>1, <2>2 DEF TimersTypeOK, Waiting, NowRead
      <3>2. InTime'
        BY <2>1, <2>2 DEF InTime, Tracked, Lag, Waiting, NowRead
      <3> QED
        BY <1>1, <3>1, <3>2
    <2>3. CASE End("bad", {})
      <3>1. TimersTypeOK' /\ loop' = "ended"
        BY <1>2, <2>1, <2>3 DEF TimersTypeOK, Waiting, NowRead, End
      <3>2. TimeoutsEarned'
        BY <2>3 DEF End, TimeoutsEarned
      <3> QED
        BY <3>1, <3>2 DEF TimersInvariant
    <2> QED
      BY <1>5, <2>2, <2>3 DEF Served
  <1>6. CASE Reconnect
    <2>1. Begin'
      BY <1>6 DEF Reconnect, Begin, Stamp
    <2>2. Begin' => TimersInvariant'
      BY BeginInTime, PTL
    <2> QED
      BY <2>1, <2>2
  <1>7. CASE UNCHANGED timerVars
    BY <1>7 DEF timerVars, TimersInvariant, TimersTypeOK, InTime, Tracked, Lag, Waiting, TimeoutsEarned
  <1> QED
    BY <1>3, <1>4, <1>5, <1>6, <1>7, Zenon DEF TimersNext

LEMMA TimersHold == TimersSpec => []TimersInvariant
  <1>1. TimersInit => TimersInvariant
    BY BeginInTime DEF TimersInit, Begin, Stamp
  <1> QED
    BY <1>1, TimersStep, PTL DEF TimersSpec

\* For any periods, counter and number of submissions: no time-out of
\* stratum_task ends a session before its period is over, wherever the counter
\* wraps, but for a submission younger than now.
THEOREM NoTimeoutEarly == TimersSpec => []TimeoutsEarned
  <1>1. TimersInvariant => TimeoutsEarned
    BY DEF TimersInvariant
  <1> QED
    BY <1>1, TimersHold, PTL

\* For any periods, counter and number of submissions: no session of
\* stratum_task outlives a time-out by more than two passes of its loop.
THEOREM NoTimeoutMissed == TimersSpec => []SessionBounded
  <1>1. ASSUME TimersInvariant, loop # "ended"
        PROVE  /\ age.last <= LineTicks + 2 * PassTicks
               /\ ~authorized => age.started <= AuthTicks + 2 * PassTicks
               /\ \A i \in Waiting : age.sent[i] <= ShareTicks + 2 * PassTicks
    <2>1. TimersTypeOK /\ InTime
      BY <1>1 DEF TimersInvariant
    <2>2. /\ pass \in 0 .. PassTicks /\ tick \in Stamp /\ now \in Stamp
          /\ age.last \in Nat /\ age.started \in Nat
          /\ \A i \in Waiting : i \in Slot /\ age.sent[i] \in Nat
      BY <2>1 DEF TimersTypeOK
    <2>3. /\ age.last <= LineTicks + PassTicks + pass
          /\ ~authorized => age.started <= AuthTicks + PassTicks + pass
          /\ \A i \in Waiting \ fresh : age.sent[i] <= ShareTicks + PassTicks + pass
      BY <2>1 DEF InTime, Tracked
    <2>4. \A i \in fresh : i \in Waiting /\ age.sent[i] <= Lag /\ Lag <= pass /\ Lag \in Nat
      <3>1. \A i \in fresh : i \in Waiting /\ age.sent[i] <= Lag /\ loop \in NowRead
        BY <1>1, <2>1 DEF InTime, TimersTypeOK
      <3>2. Lag \in Nat
        BY <2>2, Difference DEF Lag, Stamp
      <3> QED
        BY <2>1, <3>1, <3>2 DEF InTime
    <2>5. \A i \in Waiting : age.sent[i] <= ShareTicks + 2 * PassTicks
      <3> TAKE i \in Waiting
      <3>1. CASE i \in fresh
        BY <2>2, <2>4, <3>1, Periods
      <3>2. CASE i \notin fresh
        BY <2>2, <2>3, <3>2, Periods
      <3> QED
        BY <3>1, <3>2
    <2> QED
      BY <2>2, <2>3, <2>5, Periods
  <1>2. TimersInvariant => SessionBounded
    BY <1>1, Zenon DEF SessionBounded
  <1> QED
    BY <1>2, TimersHold, PTL
=============================================================================
