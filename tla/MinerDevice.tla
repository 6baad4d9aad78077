----------------------------- MODULE MinerDevice -----------------------------
(***************************************************************************)
(* The FPGA miner (rtl/bitcoin_miner_axi.sv) as the firmware sees it through *)
(* its registers: a job register set, the engines that scan a nonce range,   *)
(* the pipeline from an engine to the result FIFO, the FIFO with the result  *)
(* register at its head, and the STATUS bits nonce_done and overflow.  Clock *)
(* cycles are abstracted: what the firmware may observe between two of its   *)
(* register accesses is any number of steps of DeviceNext.                   *)
(***************************************************************************)
EXTENDS Integers, Sequences

CONSTANTS MaxHits,    \* bound: qualifying nonces in one nonce range
          FifoDepth,  \* results the clusters and the result register hold
          NoHeader    \* contents of the job registers after reset

ASSUME DeviceAssumption == MaxHits \in Nat /\ FifoDepth \in Nat \ {0}

VARIABLES engine,     \* "scan" while the engines hash (running_q), else "idle"
          core,       \* "busy" while a SHA core still finishes an abandoned block
          regs,       \* the header and target in the job registers
          work,       \* the header and range the engines latched at START
          left,       \* qualifying nonces the engines may still meet
          inflight,   \* results between an engine and its FIFO (stage1, stage2)
          fifo,       \* results in the FIFO, the result register first
          overflow,   \* overflow_q
          done        \* nonce_done_q

deviceVars == <<engine, core, regs, work, left, inflight, fifo, overflow, done>>

DeviceInit ==
  /\ engine = "idle"
  /\ core = "idle"
  /\ regs = NoHeader
  /\ work = [header |-> NoHeader, range |-> 0]
  /\ left = 0
  /\ inflight = <<>>
  /\ fifo = <<>>
  /\ overflow = FALSE
  /\ done = FALSE

\* A result is identified by what was hashed and which of its hits it is.
Result == [header |-> work.header, range |-> work.range, hit |-> left]

\* ST_COMPARE meets the target: the nonce leaves the engine.
Find ==
  /\ engine = "scan"
  /\ left > 0
  /\ inflight' = Append(inflight, Result)
  /\ left' = left - 1
  /\ UNCHANGED <<engine, core, regs, work, fifo, overflow, done>>

\* A result reaches the FIFO, or finds it full or a neighbour of its cluster
\* hit in the same cycle: then it is dropped and overflow_q is set.
Deliver ==
  /\ inflight # <<>>
  /\ inflight' = Tail(inflight)
  /\ \/ /\ Len(fifo) < FifoDepth
        /\ fifo' = Append(fifo, Head(inflight))
        /\ UNCHANGED overflow
     \/ /\ overflow' = TRUE
        /\ UNCHANGED fifo
  /\ UNCHANGED <<engine, core, regs, work, left, done>>

\* Faulty variant: nonce_done is set only if no result is on its way.
FinishQuiet ==
  /\ engine = "scan"
  /\ engine' = "idle"
  /\ left' = 0
  /\ done' = (inflight = <<>>)
  /\ UNCHANGED <<core, regs, work, inflight, fifo, overflow>>

\* The last nonce of the range has been compared.  Results of the last
\* nonces may still be in the pipeline.
Finish ==
  /\ engine = "scan"
  /\ engine' = "idle"
  /\ left' = 0
  /\ done' = TRUE
  /\ UNCHANGED <<core, regs, work, inflight, fifo, overflow>>

\* The core of a stopped engine ends the compression it was in.
CoreDrains ==
  /\ core = "busy"
  /\ core' = "idle"
  /\ UNCHANGED <<engine, regs, work, left, inflight, fifo, overflow, done>>

DeviceNext == Find \/ Deliver \/ Finish \/ CoreDrains
-----------------------------------------------------------------------------
(* Register writes, as parts of the firmware's actions.                     *)

\* The results that have not been read.
Unread == {fifo[i] : i \in DOMAIN fifo} \cup {inflight[i] : i \in DOMAIN inflight}

\* CONTROL = STOP: the engines go idle in the state they are in, the FIFO and
\* its pipeline are cleared.  The FIFO's clear is registered, so one of its
\* results, or one about to enter it, may still move to the result register;
\* and a core that was hashing goes on.
WriteStop ==
  /\ engine' = "idle"
  /\ core' = IF engine = "scan" THEN "busy" ELSE core
  /\ left' = 0
  /\ inflight' = <<>>
  /\ fifo' \in {<<>>} \cup {<<r>> : r \in Unread}
  /\ done' = TRUE
  /\ UNCHANGED <<regs, work, overflow>>

\* CONTROL = CLEAR with the engines idle: the result register is cleared, but
\* while the FIFO's own clear is on its way a result that waited behind it may
\* take its place.
AfterClear(f) == {<<>>} \cup {<<f[i]>> : i \in 2 .. Len(f)}

\* RESULT_STATUS bit 0 acknowledges the result register.
AfterAck(f) == IF f = <<>> THEN f ELSE Tail(f)

WriteAck ==
  /\ fifo' = AfterAck(fifo)
  /\ UNCHANGED <<engine, core, regs, work, left, inflight, overflow, done>>

\* CLEAR, and then the acknowledgement of result and overflow.
WriteClear ==
  /\ \E f \in AfterClear(fifo) : fifo' = AfterAck(f)
  /\ overflow' = FALSE /\ done' = FALSE
  /\ UNCHANGED <<engine, core, regs, work, left, inflight>>

\* CONTROL = START with the registers holding header h and nonce range r.
\* Engines that are still scanning ignore it.  A core that is still busy
\* ignores its start and hands its old digest to the new scan: the results
\* belong to no header.
WriteStart(h, r) ==
  /\ regs' = h
  /\ engine' = "scan"
  /\ IF engine = "scan" THEN UNCHANGED <<work, left>>
     ELSE /\ work' = [header |-> IF core = "busy" THEN NoHeader ELSE h, range |-> r]
          /\ left' = MaxHits
  /\ core' = "idle"
  /\ inflight' = <<>>
  /\ fifo' = <<>>
  /\ overflow' = FALSE
  /\ done' = FALSE
=============================================================================
