---------------------------- MODULE NetworkReceive ----------------------------
(***************************************************************************)
(* The Ethernet interface (software/application/NetworkInterface.c): the     *)
(* receive task with its interrupt, the two receive buffers of the           *)
(* EthernetLite core, which fills them in turn, and output, which the IP     *)
(* task calls.  Network buffers are named by Buf; the IP stack takes them    *)
(* from the pool, returns them and hands them to output as it likes.         *)
(*                                                                           *)
(* A frame is only what bounded_receive makes of it: "valid" or "refused".   *)
(* The core, the driver call XEmacLite_Recv and the stack are outside the    *)
(* repository and modelled from their use.                                   *)
(***************************************************************************)
EXTENDS Integers, FiniteSets

CONSTANTS Buf,        \* ipconfigNUM_NETWORK_BUFFER_DESCRIPTORS descriptors
          NoBuf,      \* the null descriptor
          QueueLen,   \* ipconfigEVENT_QUEUE_LENGTH
          TxTicks     \* pdMS_TO_TICKS(20)

ASSUME BufAssumption == NoBuf \notin Buf

Frame == {"valid", "refused"}

VARIABLES rx,        \* what each receive buffer of the core holds, or "empty"
          hwNext,    \* the receive buffer the core fills next
          swNext,    \* mac.NextRxBufferToUse
          irq, notified,
          pc, held, base, frame,   \* the receive task
          free, queued, stack,     \* pool, event queue, buffers of the IP stack
          tx         \* the buffer in output, whether to release it, ticks left
mac == <<rx, hwNext, swNext>>
pool == <<free, queued, stack>>
task == <<pc, held, base, frame>>
vars == <<mac, irq, notified, task, pool, tx>>

Side == {0, 1}
Idle == [buf |-> NoBuf, release |-> "no", left |-> 0]

Init ==
  /\ rx = [s \in Side |-> "empty"] /\ hwNext = 0 /\ swNext = 0
  /\ irq = FALSE /\ notified = FALSE
  /\ pc = "wait" /\ held = NoBuf /\ base = 0 /\ frame = "valid"
  /\ free = Buf /\ queued = {} /\ stack = {}
  /\ tx = Idle
-----------------------------------------------------------------------------
(* The core and its interrupt.                                              *)

\* A frame arrives.  The core waits for its next buffer; a frame that finds it
\* full is lost.
Arrive(f) ==
  /\ rx[hwNext] = "empty"
  /\ rx' = [rx EXCEPT ![hwNext] = f]
  /\ hwNext' = 1 - hwNext
  /\ irq' = TRUE
  /\ UNCHANGED <<swNext, notified, task, pool, tx>>

receive_irq ==
  /\ irq
  /\ irq' = FALSE /\ notified' = TRUE
  /\ UNCHANGED <<mac, task, pool, tx>>
-----------------------------------------------------------------------------
(* receive_task.                                                            *)

\* ulTaskNotifyTake returns: notified, or after 100 ms.
Wake ==
  /\ pc = "wait"
  /\ notified' = FALSE
  /\ pc' = "get"
  /\ UNCHANGED <<mac, irq, held, base, frame, pool, tx>>

\* pxGetNetworkBufferWithDescriptor with no wait: null when the pool is empty,
\* and the frame goes to the discard buffer.
GetBuffer ==
  /\ pc = "get"
  /\ IF free = {} THEN held' = NoBuf /\ UNCHANGED free
                  ELSE \E b \in free : held' = b /\ free' = free \ {b}
  /\ pc' = "next"
  /\ UNCHANGED <<mac, irq, notified, base, frame, queued, stack, tx>>

\* bounded_receive reads the status of the buffer the driver expects, and of
\* the other one when that is empty.
SelectNext ==
  /\ pc = "next"
  /\ base' = swNext
  /\ pc' = (IF rx[swNext] # "empty" THEN "check" ELSE "other")
  /\ UNCHANGED <<mac, irq, notified, held, frame, pool, tx>>

\* Faulty variant: the buffer is forgotten when nothing was received.
GiveBackNever == UNCHANGED free

\* vReleaseNetworkBufferAndDescriptor, if there is a buffer.
GiveBack == free' = free \cup ({held} \ {NoBuf})

\* Neither buffer is full: the buffer is released and the task waits again.
SelectOther ==
  /\ pc = "other"
  /\ base' = 1 - base
  /\ IF rx[1 - base] # "empty"
     THEN pc' = "check" /\ UNCHANGED <<held, free>>
     ELSE pc' = "wait" /\ GiveBack /\ held' = NoBuf
  /\ UNCHANGED <<mac, irq, notified, frame, queued, stack, tx>>

\* Faulty variant: a refused frame is left in its buffer.
ClearNothing(s) == UNCHANGED rx

\* XEmacLite_SetRxStatus without the done bit.
Clear(s) == rx' = [rx EXCEPT ![s] = "empty"]

\* The type and the length of the frame in base: a refused frame is cleared,
\* the buffer released, and the next frame looked for.
Check ==
  /\ pc = "check"
  /\ IF rx[base] = "valid"
     THEN pc' = "copy" /\ UNCHANGED <<rx, held, free>>
     ELSE pc' = "get" /\ Clear(base) /\ GiveBack /\ held' = NoBuf
  /\ UNCHANGED <<hwNext, swNext, irq, notified, base, frame, queued, stack, tx>>

\* The receive buffer XEmacLite_Recv takes: it looks for itself.
Chosen == IF rx[swNext] # "empty" THEN swNext ELSE 1 - swNext

\* XEmacLite_Recv copies that frame, clears its buffer and moves on when it was
\* the expected one.
Copy ==
  /\ pc = "copy"
  /\ frame' = rx[Chosen]
  /\ Clear(Chosen)
  /\ swNext' = 1 - Chosen
  /\ pc' = (IF held = NoBuf THEN "get" ELSE "hand")
  /\ UNCHANGED <<hwNext, irq, notified, held, base, pool, tx>>

\* The buffer goes to the IP task, unless the length, the endpoint or a full
\* queue forbids it: then it is released.
Hand ==
  /\ pc = "hand"
  /\ \/ /\ Cardinality(queued) < QueueLen
        /\ queued' = queued \cup {held} /\ UNCHANGED free
     \/ GiveBack /\ UNCHANGED queued
  /\ held' = NoBuf /\ pc' = "get"
  /\ UNCHANGED <<mac, irq, notified, base, frame, stack, tx>>
-----------------------------------------------------------------------------
(* The IP stack, and output, which runs in its task and blocks it.           *)

\* The IP task reads its event queue; it and the tasks of the application, which
\* go on while output waits, take buffers from the pool and return others than
\* the one in output.
StackTakes(b) ==
  /\ \/ /\ tx = Idle /\ b \in queued
        /\ queued' = queued \ {b} /\ stack' = stack \cup {b} /\ UNCHANGED free
     \/ b \in free /\ free' = free \ {b} /\ stack' = stack \cup {b} /\ UNCHANGED queued
     \/ /\ b \in stack \ {tx.buf}
        /\ stack' = stack \ {b} /\ free' = free \cup {b} /\ UNCHANGED queued
  /\ UNCHANGED <<mac, irq, notified, task, tx>>

CallOutput(b, release) ==
  /\ tx = Idle /\ b \in stack
  /\ tx' = [buf |-> b, release |-> release, left |-> TxTicks]
  /\ UNCHANGED <<mac, irq, notified, task, pool>>

\* No transmit buffer is available: one tick passes.
OutputWaits ==
  /\ tx # Idle /\ tx.left > 0
  /\ tx' = [buf |-> tx.buf, release |-> tx.release, left |-> tx.left - 1]
  /\ UNCHANGED <<mac, irq, notified, task, pool>>

ToRelease == IF tx.release = "yes" THEN {tx.buf} ELSE {}

\* A transmit buffer is available, or the time is up: the buffer is released if
\* the caller asked for it, whether it was sent or not.
OutputReturns ==
  /\ tx # Idle
  /\ free' = free \cup ToRelease
  /\ stack' = (IF tx.release = "yes" THEN stack \ {tx.buf} ELSE stack)
  /\ tx' = Idle
  /\ UNCHANGED <<mac, irq, notified, task, queued>>

Receive ==
  Wake \/ GetBuffer \/ SelectNext \/ SelectOther \/ Check \/ Copy \/ Hand

Next ==
  \/ \E f \in Frame : Arrive(f)
  \/ receive_irq
  \/ Receive
  \/ \E b \in Buf : StackTakes(b) \/ \E r \in {"yes", "no"} : CallOutput(b, r)
  \/ OutputWaits \/ OutputReturns

\* The receive task runs whenever it can (priority 5, and the IP task above it
\* waits for events).
Spec == Init /\ [][Next]_vars /\ WF_vars(Receive)
-----------------------------------------------------------------------------
(* Properties.                                                              *)

\* A buffer descriptor is in exactly one place: in the pool, with the receive
\* task, in the event queue, or with the IP stack.  No path of receive_task,
\* bounded_receive or output loses one or releases one twice
\* (NetworkInterface.c:58-66, 91).
BuffersConserved ==
  /\ free \cup queued \cup stack \cup ({held} \ {NoBuf}) = Buf
  /\ free \cap queued = {} /\ free \cap stack = {} /\ queued \cap stack = {}
  /\ held \notin free \cup queued \cup stack

\* The strengthening of BuffersConserved that is inductive: when the receive
\* task waits or has just discarded it holds nothing, and output works on a
\* buffer of the stack.
BufferInvariant ==
  /\ BuffersConserved
  /\ pc \in {"wait", "get"} => held = NoBuf
  /\ pc = "hand" => held # NoBuf
  /\ tx # Idle => tx.buf \in stack

\* Every frame leaves its receive buffer, with an empty pool and after any mix
\* of valid and refused frames, although a refused frame leaves the driver and
\* the core out of step (NetworkInterface.c:31-52).
FramesServed == \A s \in Side : rx[s] # "empty" ~> rx[s] = "empty"

\* The comment at NetworkInterface.c:42-43: a frame is validated before it is
\* given to XEmacLite_Recv.
OnlyValidCopied == pc = "hand" => frame = "valid"
=============================================================================
