------------------------------ MODULE MinerCore ------------------------------
(***************************************************************************)
(* The miner's clocked logic (rtl/bitcoin_miner_axi.sv with its engines      *)
(* rtl/bitcoin_hash_engine.sv and rtl/bitcoin_result_cluster_fifo.sv), one   *)
(* step per clock cycle, and the order of register accesses the firmware     *)
(* uses (stratum.c: stop, start_range, service_results).  A variable is the  *)
(* value of the registers in the current cycle.                              *)
(*                                                                           *)
(* A nonce is identified with the job and range it belongs to; a digest with *)
(* the nonce whose header went into the compression.  The eight cycles of    *)
(* ST_COMPARE are the last of them.  MinerDevice is this logic as the        *)
(* Stratum task may rely on it.                                              *)
(***************************************************************************)
EXTENDS Integers, Sequences, FiniteSets, FiniteSetsExt

CONSTANTS NumEngines,   \* NUM_ENGINES
          ClusterSize,  \* CLUSTER_SIZE
          Depth,        \* CLUSTER_FIFO_DEPTH
          Count,        \* nonces of a range (nonce_count_q)
          Latency,      \* cycles a compression may take
          Gap,          \* least number of cycles between two register accesses
          MaxJobs,      \* bound: jobs and ranges started
          None

ASSUME CoreAssumption ==
  /\ NumEngines \in Nat \ {0, 1}  \* with one engine nonce_done precedes its start
  /\ {ClusterSize, Depth, MaxJobs} \subseteq Nat \ {0}
  /\ Gap \in Nat \ {0, 1}         \* an access takes a cycle in each stage of the bus
  /\ Count \in Nat
  /\ Latency \subseteq Nat \ {0}
  /\ LET nonces == [job : Nat, nonce : Int, engine : Nat]
     IN  None \notin [id : nonces, of : nonces]

VARIABLES pulse,    \* start_pulse_q, stop_pulse_q, clear_results_q that are high
          start,    \* engine_start_q: the engines whose start is high
          load,     \* cycles of the launch sequence still to come, 0 in LOAD_IDLE
          flags,    \* running_q, nonce_done_q and overflow_q
          result,   \* result_nonce_q while result_valid_q, else None
          pop,      \* cluster_pop_q: the clusters whose pop is high
          eng,      \* per engine: the registers of bitcoin_hash_engine
          clus      \* per cluster: the registers of bitcoin_result_cluster_fifo
hardware == <<pulse, start, load, flags, result, pop, eng, clus>>

VARIABLES fw,       \* the firmware's next register access
          gap,      \* cycles until it may be made
          job,      \* number of the work in the job registers
          found,    \* history: results of the current work the engines produced
          read,     \* history: results of the current work the firmware read
          dropped,  \* history: results of the current work that did not fit
          scanned   \* history: nonces of the current work that were compared
firmware == <<fw, gap, job>>
history == <<found, read, dropped, scanned>>

vars == <<hardware, firmware, history>>

Engines == 0 .. NumEngines - 1
Clusters == 0 .. (NumEngines + ClusterSize - 1) \div ClusterSize - 1
InCluster(c) == {e \in Engines : e \div ClusterSize = c}

\* engine_work_count: how many nonces of the range engine e scans; and the
\* nonce it is at when left of them remain (nonce_start_q is 0).
LaneCount(e) == IF Count > e THEN (Count - 1 - e) \div NumEngines + 1 ELSE 0
LaneNonce(e, left) == e + (LaneCount(e) - left) * NumEngines

\* The launch sequence: PREP, DECODE, START for each engine, after a division
\* (32 cycles, here one) when there are three lanes.
LaunchCycles == 3 * NumEngines + IF NumEngines = 3 THEN 1 ELSE 0
Launches(e) == load = 3 * (NumEngines - 1 - e) + 1

IdleEngine == [state |-> "idle", work |-> 0, left |-> 0, coreStart |-> FALSE, core |-> 0,
               coreDone |-> FALSE, input |-> None, digest |-> None, second |-> FALSE,
               done |-> FALSE, valid |-> None]
EmptyCluster == [clear |-> FALSE, stage1 |-> {}, overflow1 |-> FALSE, stage2 |-> None,
                 overflow2 |-> FALSE, queue |-> <<>>, overflow |-> FALSE]

Init ==
  /\ pulse = {} /\ start = {} /\ load = 0
  /\ flags = {}
  /\ result = None
  /\ pop = {}
  /\ eng = [e \in Engines |-> IdleEngine]
  /\ clus = [c \in Clusters |-> EmptyCluster]
  /\ fw = "clear" /\ gap = 0 /\ job = 0
  /\ found = {} /\ read = {} /\ dropped = {} /\ scanned = {}
-----------------------------------------------------------------------------
(* The engine and its SHA core.                                             *)

NonceOf(r, e) == [job |-> r.work, nonce |-> LaneNonce(e, r.left), engine |-> e]

\* sha256_core_iterative: a start is taken only when idle; done is a pulse.
CoreNext(r, e, latency) ==
  IF r.coreStart /\ r.core = 0
  THEN [r EXCEPT !.coreStart = FALSE, !.core = latency, !.coreDone = FALSE,
                 !.input = IF r.second THEN r.digest ELSE NonceOf(r, e)]
  ELSE [r EXCEPT !.coreStart = FALSE,
                 !.core = IF r.core > 0 THEN r.core - 1 ELSE 0,
                 !.coreDone = (r.core = 1)]

\* bitcoin_hash_engine: the next registers from the present ones r and from n,
\* which has the core's next registers.  hit: the digest meets the target.
EngineNext(r, n, e, hit) ==
  LET m == [n EXCEPT !.done = FALSE, !.valid = None]
  IN  IF "stop" \in pulse
      THEN [m EXCEPT !.state = "idle", !.done = (r.state # "idle")]
      ELSE CASE r.state = "idle" /\ e \in start /\ LaneCount(e) > 0 ->
                  [m EXCEPT !.state = "launch", !.work = job, !.left = LaneCount(e),
                            !.second = FALSE, !.digest = None]
             [] r.state = "launch" ->
                  [m EXCEPT !.coreStart = TRUE, !.state = IF r.second THEN "pass2" ELSE "pass1"]
             [] r.state = "pass1" /\ r.coreDone ->
                  [m EXCEPT !.digest = r.input, !.second = TRUE, !.state = "launch"]
             [] r.state = "pass2" /\ r.coreDone ->
                  [m EXCEPT !.digest = r.input, !.state = "compare"]
             [] r.state = "compare" ->
                  [m EXCEPT !.state = "check",
                            !.valid = IF hit THEN [id |-> NonceOf(r, e), of |-> r.digest] ELSE None]
             [] r.state = "check" /\ r.left <= 1 ->
                  [m EXCEPT !.done = TRUE, !.state = "idle"]
             [] r.state = "check" /\ r.left > 1 ->
                  [m EXCEPT !.left = r.left - 1, !.second = FALSE, !.state = "launch"]
             [] OTHER -> m

Busy(e) == eng[e].state # "idle" \/ eng[e].core > 0

\* The histories are about the work in the job registers.
Current(nonces) == {n \in nonces : n.job = job'}

\* All engines, with their cores, in one cycle.
EnginesNext ==
  LET comparing == {e \in Engines : eng[e].state = "compare" /\ "stop" \notin pulse}
      starting == {e \in Engines : eng[e].coreStart /\ eng[e].core = 0}
  IN  \E hits \in SUBSET comparing, slow \in [starting -> Latency] :
        /\ eng' = [e \in Engines |->
                     EngineNext(eng[e], CoreNext(eng[e], e, IF e \in starting THEN slow[e] ELSE 0),
                                e, e \in hits)]
        /\ found' = Current(found \cup {NonceOf(eng[e], e) : e \in hits})
        /\ scanned' = Current(scanned \cup {NonceOf(eng[e], e) : e \in comparing})
-----------------------------------------------------------------------------
(* The result FIFO of a cluster.                                            *)

\* The engine with the lowest index wins stage 2.
Winner(rs) == CHOOSE r \in rs : \A s \in rs : r.id.engine <= s.id.engine

DoPop(c) == c \in pop /\ clus[c].queue # <<>>
DoPush(c) == clus[c].stage2 # None /\ (Len(clus[c].queue) < Depth \/ DoPop(c))

\* Faulty variant: two results in one cycle are not an overflow.
NotCrowded(results) == FALSE

Crowded(results) == Cardinality(results) > 1

\* clear_i is registered, so the FIFO empties a cycle later.
ClusterNext(c) ==
  LET r == clus[c]
      arrived == {eng[e].valid : e \in InCluster(c)} \ {None}
      kept == IF DoPop(c) THEN Tail(r.queue) ELSE r.queue
  IN  IF r.clear
      THEN [EmptyCluster EXCEPT !.clear = (pulse # {})]
      ELSE [clear     |-> pulse # {},
            stage1    |-> arrived,
            overflow1 |-> Crowded(arrived),
            stage2    |-> IF r.stage1 = {} THEN None ELSE Winner(r.stage1),
            overflow2 |-> r.overflow1 \/ Crowded(r.stage1),
            queue     |-> IF DoPush(c) THEN Append(kept, r.stage2) ELSE kept,
            overflow  |-> r.overflow \/ (r.stage2 # None /\ ~DoPush(c)) \/ r.overflow2]

\* History: the results that the FIFO loses in this cycle.
Lost(c) ==
  IF clus[c].clear THEN {}
  ELSE (IF clus[c].stage1 = {} THEN {} ELSE clus[c].stage1 \ {Winner(clus[c].stage1)})
         \cup (IF clus[c].stage2 # None /\ ~DoPush(c) THEN {clus[c].stage2} ELSE {})

ClustersNext ==
  /\ clus' = [c \in Clusters |-> ClusterNext(c)]
  /\ dropped' = Current(dropped \cup {r.id : r \in UNION {Lost(c) : c \in Clusters}})
-----------------------------------------------------------------------------
(* The register block.  w is the set of control bits written in this cycle:  *)
(* START, STOP and CLEAR of CONTROL, ACK and ACKOVERFLOW of RESULT_STATUS.   *)

Starts(w) == "START" \in w /\ load = 0

\* The launch sequence, which STOP ends.
LoadNext(w) ==
  /\ load' = IF "STOP" \in w THEN 0
             ELSE IF Starts(w) THEN LaunchCycles
             ELSE IF load > 0 THEN load - 1 ELSE 0
  /\ start' = {e \in Engines : Launches(e) /\ LaneCount(e) > 0 /\ "STOP" \notin w}

PulsesNext(w) ==
  pulse' = (IF Starts(w) THEN {"start"} ELSE {}) \cup (IF "STOP" \in w THEN {"stop"} ELSE {})
             \cup (IF "CLEAR" \in w THEN {"clear"} ELSE {})

\* Faulty variant: only engines that finish in the same cycle complete the range.
CompleteTogether ==
  /\ "running" \in flags /\ load = 0 /\ "start" \notin pulse
  /\ \A e \in Engines : eng[e].done

\* The range is complete: nothing is being launched and no engine is busy, or
\* all of them report done at once.
Complete ==
  /\ "running" \in flags /\ load = 0 /\ "start" \notin pulse
  /\ (\A e \in Engines : ~Busy(e)) \/ (\A e \in Engines : eng[e].done)

\* Completion and overflow have the last word over a write in the same cycle.
FlagsNext(w) ==
  flags' = {f \in {"running", "done", "overflow"} :
     CASE f = "running" -> ~Complete /\ "STOP" \notin w /\ (Starts(w) \/ f \in flags)
       [] f = "done" -> \/ Complete
                        \/ "CLEAR" \notin w /\ ("STOP" \in w \/ (~Starts(w) /\ f \in flags))
       [] OTHER -> \/ \E c \in Clusters : clus[c].overflow
                   \/ f \in flags /\ ~Starts(w) /\ w \cap {"CLEAR", "ACKOVERFLOW"} = {}}

\* The result register takes the head of the first FIFO that has one.
ResultNext(w) ==
  LET hit == {c \in Clusters : clus[c].queue # <<>>}
  IN  IF result = None /\ hit # {}
      THEN result' = Head(clus[Min(hit)].queue) /\ pop' = {Min(hit)}
      ELSE /\ result' = IF Starts(w) \/ w \cap {"CLEAR", "ACK"} # {} THEN None ELSE result
           /\ pop' = {}

\* One cycle of s_axi_aclk.
Clock(w) ==
  /\ LoadNext(w) /\ PulsesNext(w) /\ FlagsNext(w) /\ ResultNext(w)
  /\ EnginesNext /\ ClustersNext
-----------------------------------------------------------------------------
(* The firmware's accesses.  Two of them are at least Gap cycles apart: the   *)
(* bus has one in flight, which takes a cycle in each of its stages.          *)

\* A cycle without an access.
Wait ==
  /\ gap' = IF gap > 0 THEN gap - 1 ELSE 0
  /\ UNCHANGED <<fw, job, read>>
  /\ Clock({})

\* An access that writes the control bits w; the firmware goes on with label.
Access(w, label) ==
  /\ gap = 0
  /\ gap' = Gap - 1
  /\ fw' = label
  /\ Clock(w)

\* start_range: CLEAR, the registers of the next work, START.
WriteClear ==
  /\ fw \in {"clear", "nextrange"}
  /\ job < MaxJobs
  /\ job' = job + 1
  /\ read' = {}
  /\ Access({"CLEAR"}, "start")

WriteStart ==
  /\ fw = "start"
  /\ UNCHANGED <<job, read>>
  /\ Access({"START"}, "poll")

\* service_results: results are read until RESULT_STATUS shows none ...
ReadResultStatus ==
  /\ fw = "poll"
  /\ UNCHANGED <<job, read>>
  /\ Access({}, IF result # None THEN "nonce" ELSE "status")

ReadNonce ==
  /\ fw = "nonce"
  /\ UNCHANGED job
  /\ read' = read \cup {result.id}
  /\ Access({}, "ack")

\* ... or 16 have been read.
WriteAck ==
  /\ fw = "ack"
  /\ UNCHANGED <<job, read>>
  /\ \E label \in {"poll", "status"} : Access({"ACK"}, label)

\* Faulty variant: the result register is not read again after done.
ReadDoneAlone ==
  /\ fw = "status"
  /\ UNCHANGED <<job, read>>
  /\ Access({}, IF "done" \in flags THEN "nextrange" ELSE "poll")

\* The range is over if STATUS shows done and then RESULT_STATUS no result.
ReadDone ==
  /\ fw = "status"
  /\ UNCHANGED <<job, read>>
  /\ Access({}, IF "done" \in flags THEN "empty" ELSE "poll")

ReadEmpty ==
  /\ fw = "empty"
  /\ UNCHANGED <<job, read>>
  /\ Access({}, IF result # None THEN "poll" ELSE "nextrange")

\* stop: STOP, a delay that outlasts a compression, CLEAR, then both bits of
\* RESULT_STATUS.
WriteStop ==
  /\ fw \in {"poll", "clear"}
  /\ UNCHANGED <<job, read>>
  /\ Access({"STOP"}, "delay")

\* Faulty variant: no delay.
DrainedAtOnce == TRUE

\* vTaskDelay(1) outlasts the compression a stopped engine was in.
Drained == pulse = {} /\ \A e \in Engines : eng[e].core = 0 /\ ~eng[e].coreStart

WriteStopClear ==
  /\ fw = "delay"
  /\ Drained
  /\ UNCHANGED <<job, read>>
  /\ Access({"CLEAR"}, "stopack")

WriteStopAck ==
  /\ fw = "stopack"
  /\ UNCHANGED <<job, read>>
  /\ Access({"ACK", "ACKOVERFLOW"}, "clear")

Next ==
  \/ Wait \/ WriteClear \/ WriteStart
  \/ ReadResultStatus \/ ReadNonce \/ WriteAck \/ ReadDone \/ ReadEmpty
  \/ WriteStop \/ WriteStopClear \/ WriteStopAck

\* The clock does not stop.
Spec == Init /\ [][Next]_vars /\ WF_vars(Next)
-----------------------------------------------------------------------------
(* Properties.                                                              *)

\* stop, drain, clear precedes every replacement job (stratum.c:2-3): a nonce
\* that the firmware is about to read is of the current work, its digest is of
\* that very nonce, and it has not been read before.
ResultIsCurrent ==
  fw = "nonce" => /\ result # None
                  /\ result.id.job = job
                  /\ result.of = result.id
                  /\ result.id \notin read

\* nonce_done followed by an empty result register means what the firmware takes
\* it for when it starts the next range: every nonce of this one was hashed and
\* compared, by the one engine it is assigned to, and no result is still in the
\* pipeline for start_range to clear (bitcoin_miner_axi.sv:613-618,
\* stratum.c:169-172).
RangeComplete ==
  fw = "nextrange" =>
    /\ {n.nonce : n \in scanned} = 0 .. Count - 1
    /\ Cardinality(scanned) = Count
    /\ found \subseteq read \cup dropped

\* A result that the hardware loses is reported: overflow is in the register
\* or on its way there until the firmware clears it.
LossFlagged ==
  fw \in {"poll", "nonce", "ack", "status", "empty", "nextrange"} /\ dropped # {} =>
    \/ "overflow" \in flags
    \/ \E c \in Clusters : clus[c].overflow \/ clus[c].overflow2

\* A search that is started ends (bitcoin_miner_axi.sv:613-618).
SearchEnds == "running" \in flags ~> "running" \notin flags
=============================================================================
