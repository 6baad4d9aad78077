--------------------------- MODULE MinerCoreDevice ---------------------------
(***************************************************************************)
(* MinerCore beside MinerDevice: that the Stratum task, which was verified   *)
(* against the device, may rely on the clocked logic.  The device is made to *)
(* follow: after a cycle of the core it takes, one by one, the steps that    *)
(* the cycle stands for, and the core waits for it.  It must always have     *)
(* such a step, and whatever register the firmware reads must then show what *)
(* the device shows.                                                         *)
(*                                                                           *)
(* The device finds and delivers results without a name, so only their       *)
(* number counts.  A result is delivered when the firmware can see it in the *)
(* result register, or behind it, and dropped when it can see the flag.      *)
(* Between STOP and the end of its delay the firmware reads nothing: the     *)
(* device takes STOP at the end.                                             *)
(***************************************************************************)
EXTENDS MinerCore

VARIABLES engine, core, regs, work, left, inflight, fifo, overflow, done,  \* the device
          owed      \* the register write that the device has still to take
deviceVars == <<engine, core, regs, work, left, inflight, fifo, overflow, done>>

Device == INSTANCE MinerDevice
            WITH MaxHits <- Count, FifoDepth <- Cardinality(Clusters) * Depth + 1, NoHeader <- None

BothInit == Init /\ Device!DeviceInit /\ owed = "none"
-----------------------------------------------------------------------------
(* What the device has still to do.                                         *)

Serving == fw \in {"poll", "nonce", "ack", "status", "empty"} /\ owed = "none"

\* Results in the result register and in the FIFOs; one that is being popped is
\* in both.
Held == 1 + MapThenSumSet(LAMBDA c : Len(clus[c].queue) - IF DoPop(c) THEN 1 ELSE 0, Clusters)

Acknowledged == Cardinality(read) - IF fw = "ack" THEN 1 ELSE 0

FindDue == Serving /\ Count - left < Cardinality(found)
DeliverDue == Serving /\ result # None /\ Len(fifo) < Held
DropDue ==
  /\ Serving /\ "overflow" \in flags
  /\ Len(inflight) + Len(fifo) + Acknowledged > Cardinality(found) - Cardinality(dropped)
FinishDue == Serving /\ "running" \notin flags /\ engine = "scan"
StopDue == owed = "stop" /\ gap = 0 /\ Drained

Behind ==
  \/ FindDue \/ DeliverDue \/ DropDue \/ FinishDue \/ StopDue
  \/ core = "busy" \/ owed \in {"start", "ack", "clear"}

DeviceStep ==
  \/ FindDue /\ Device!Find /\ UNCHANGED owed
  \/ DeliverDue /\ Device!Deliver /\ fifo' # fifo /\ UNCHANGED owed
  \/ DropDue /\ Device!Deliver /\ fifo' = fifo /\ UNCHANGED owed
  \/ FinishDue /\ ~FindDue /\ Device!Finish /\ UNCHANGED owed
  \/ StopDue /\ Device!WriteStop /\ (fifo' = <<>> <=> result = None) /\ owed' = "none"
  \/ Device!CoreDrains /\ UNCHANGED owed
  \/ owed = "start" /\ engine = "idle" /\ Device!WriteStart(job, 0) /\ owed' = "none"
  \/ owed = "ack" /\ Device!WriteAck /\ owed' = "none"
  \/ owed = "clear" /\ core = "idle" /\ Device!WriteClear /\ owed' = "none"

CoreStep ==
  \/ /\ Wait \/ WriteClear \/ ReadResultStatus \/ ReadNonce \/ ReadDone \/ ReadEmpty \/ WriteStopClear
     /\ UNCHANGED owed
  \/ WriteStart /\ owed' = "start"
  \/ WriteAck /\ owed' = "ack"
  \/ WriteStop /\ owed' = "stop"
  \/ WriteStopAck /\ owed' = "clear"

BothNext ==
  \/ ~Behind /\ CoreStep /\ UNCHANGED deviceVars
  \/ Behind /\ DeviceStep /\ UNCHANGED vars

\* The clock does not stop.
BothSpec == BothInit /\ [][BothNext]_<<vars, deviceVars, owed>> /\ WF_<<vars, deviceVars, owed>>(BothNext)
-----------------------------------------------------------------------------
\* The device of MinerDevice can do whatever the core does, and when the
\* firmware makes an access (stratum.c:139-172) the two show the same: a result
\* and its header, nonce_done, overflow; and when RESULT_STATUS is read after
\* nonce_done no result is on its way any more.
DeviceAgrees ==
  /\ Behind => ENABLED DeviceStep
  /\ ~Behind /\ gap = 0 /\ Serving =>
       /\ fw \in {"poll", "empty"} => (result = None <=> fifo = <<>>)
       /\ fw = "nonce" => fifo # <<>> /\ Head(fifo).header = result.id.job
       /\ fw \in {"poll", "status"} => ("done" \in flags <=> done)
       /\ fw \in {"poll", "status"} => ("overflow" \in flags <=> overflow)
       /\ fw = "empty" => inflight = <<>>
=============================================================================
