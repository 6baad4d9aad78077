----------------------------- MODULE HashEngine -----------------------------
(***************************************************************************)
(* One hash engine of the miner: rtl/bitcoin_hash_engine.sv with             *)
(* rtl/bitcoin_sha256_core.sv and rtl/sha256_core_iterative.sv below it.     *)
(* A step is a clock edge.  The core computes a round in five phases, or in  *)
(* four when it is built with the DSP adders (hybrid); the two passes of the *)
(* double hash share it.  The additions are the same modulo 2^32 in DSP      *)
(* slices and in fabric.                                                     *)
(*                                                                           *)
(* The wrapper around the engines starts one only when it is idle            *)
(* (MinerCore); it may stop it in any cycle.                                 *)
(***************************************************************************)
EXTENDS Sha256

CONSTANTS Work,        \* instances of SearchWork: header, target, range of nonces
          NONCE_STRIDE,
          Stops        \* bound: how often the engine is stopped

VARIABLES hybrid,      \* how the core was built
          work,        \* the work registers the engine took over
          eng, core,   \* the registers of the engine and of the core
          found,       \* nonces reported for this work
          hashes,      \* pulses of hash_complete_o for this work
          stopped, stops
vars == <<hybrid, work, eng, core, found, hashes, stopped, stops>>

\* Datapath registers have no reset: they are loaded before they are used.
CoreReset ==
  [busy |-> FALSE, done |-> FALSE, round |-> 0, phase |-> 0,
   w |-> [i \in 0 .. 15 |-> Zero], h |-> InitialState, v |-> InitialState, digest |-> InitialState,
   t1a |-> Zero, t1b |-> Zero, t1c |-> Zero, t1ab |-> Zero, t1 |-> Zero, t2 |-> Zero,
   ws1 |-> Zero, wm7 |-> Zero, ws0 |-> Zero, wm16 |-> Zero,
   wab |-> Zero, wcd |-> Zero, wnew |-> Zero]

EngineReset ==
  [state |-> "IDLE", launch |-> "IDLE", start |-> FALSE, first |-> TRUE,
   nonce |-> Zero, remaining |-> 0, digest |-> [i \in 1 .. 8 |-> Zero],
   idx |-> 0, lt |-> FALSE, gt |-> FALSE,
   done |-> FALSE, valid |-> FALSE, result |-> Zero]
-----------------------------------------------------------------------------
(* The compression core.                                                    *)

CoreLoad(c, block, h) ==
  [c EXCEPT !.w = [i \in 0 .. 15 |-> block[i + 1]], !.h = h, !.v = h,
            !.round = 0, !.phase = 0, !.busy = TRUE, !.done = FALSE]

\* The message word two rounds back, in the circular memory.
Recent(c) == c.w[(c.round + 14) % 16]

Phase0(c) ==
  [c EXCEPT !.t1a  = c.v[8] ++ BigSigma1(c.v[5]),
            !.t1b  = Ch(c.v[5], c.v[6], c.v[7]) ++ k_sha256[c.round + 1],
            !.t1c  = c.w[c.round % 16],
            !.t2   = BigSigma0(c.v[1]) ++ Maj(c.v[1], c.v[2], c.v[3]),
            !.ws1  = SmallSigma1(Recent(c)),
            !.wm7  = c.w[(c.round + 9) % 16],
            !.ws0  = SmallSigma0(c.w[(c.round + 1) % 16]),
            !.wm16 = c.w[c.round % 16],
            !.phase = 1]

Phase1(c) ==
  [c EXCEPT !.wab = c.ws1 ++ c.wm7, !.wcd = c.ws0 ++ c.wm16, !.phase = 2,
            !.t1ab = IF hybrid THEN c.t1a ++ c.t1b ELSE @]

Phase2(c) ==
  [c EXCEPT !.wnew = c.wab ++ c.wcd, !.phase = 3,
            !.t1 = IF hybrid THEN c.t1ab ++ (IF c.round < 16 THEN c.t1c ELSE c.wab ++ c.wcd) ELSE @]

Phase3(c) ==
  [c EXCEPT !.t1 = c.t1a ++ c.t1b ++ (IF c.round < 16 THEN c.t1c ELSE c.wnew), !.phase = 4]

\* The last phase of a round: the working variables move on, the new message
\* word replaces the oldest, and after the last round the digest is complete.
EndRound(c) ==
  LET v == <<c.t1 ++ c.t2, c.v[1], c.v[2], c.v[3], c.v[4] ++ c.t1, c.v[5], c.v[6], c.v[7]>>
      last == c.round = Rounds - 1
  IN  [c EXCEPT !.w[c.round % 16] = IF c.round >= 16 THEN c.wnew ELSE @,
                !.v = v,
                !.digest = IF last THEN [i \in 1 .. 8 |-> c.h[i] ++ v[i]] ELSE @,
                !.busy = ~last, !.done = last, !.phase = 0,
                !.round = IF last THEN @ ELSE @ + 1]

CoreStep(c, start, block, h) ==
  IF ~c.busy THEN IF start THEN CoreLoad(c, block, h) ELSE [c EXCEPT !.done = FALSE]
  ELSE CASE c.phase = 0 -> Phase0(c)
         [] c.phase = 1 -> Phase1(c)
         [] c.phase = 2 -> Phase2(c)
         [] c.phase = 3 /\ ~hybrid -> Phase3(c)
         [] OTHER -> EndRound(c)
-----------------------------------------------------------------------------
(* The two blocks of the double hash.                                       *)

One == <<\h8000, 0>>

Block ==
  IF eng.first
  THEN SubSeq(work.tail, 1, 3) \o <<eng.nonce, One>> \o [i \in 1 .. 10 |-> Zero] \o << <<0, \h280>> >>
  ELSE eng.digest \o <<One>> \o [i \in 1 .. 6 |-> Zero] \o << <<0, \h100>> >>

ChainingState == IF eng.first THEN work.midstate ELSE InitialState
-----------------------------------------------------------------------------
(* The engine.                                                              *)

Launch(e, first, state) == [e EXCEPT !.first = first, !.launch = state, !.state = "LAUNCH"]

\* Word i of the digest read as a little-endian number, from the top.
BitcoinDigest(i) == bitcoin_swap32(eng.digest[8 - i])
Below(x, y) == x[1] < y[1] \/ (x[1] = y[1] /\ x[2] < y[2])

\* The comparison of the last word, with the flags of the seven before it.
Meets == eng.lt \/ (~eng.gt /\ ~Below(work.target[8], BitcoinDigest(7)))

Compare(e) ==
  LET i == eng.idx
      open == ~eng.lt /\ ~eng.gt
  IN  [e EXCEPT !.lt = @ \/ (open /\ Below(BitcoinDigest(i), work.target[i + 1])),
                !.gt = @ \/ (open /\ Below(work.target[i + 1], BitcoinDigest(i))),
                !.idx = IF i = 7 THEN @ ELSE i + 1,
                !.valid = i = 7 /\ Meets,
                !.result = IF i = 7 /\ Meets THEN eng.nonce ELSE @,
                !.state = IF i = 7 THEN "CHECK" ELSE @]

\* The next nonce, or the end of the range.
Advance(e) ==
  IF eng.remaining <= 1 THEN [e EXCEPT !.done = TRUE, !.state = "IDLE"]
  ELSE Launch([e EXCEPT !.remaining = @ - 1, !.nonce = @ ++ <<0, NONCE_STRIDE>>], TRUE, "PASS1")

EngineStep ==
  LET e == [eng EXCEPT !.start = FALSE, !.done = FALSE, !.valid = FALSE]
  IN  CASE eng.state = "IDLE" -> e
        [] eng.state = "LAUNCH" -> [e EXCEPT !.start = TRUE, !.state = eng.launch]
        [] eng.state = "PASS1" ->
             IF core.done THEN Launch([e EXCEPT !.digest = core.digest], FALSE, "PASS2") ELSE e
        [] eng.state = "PASS2" ->
             IF core.done
             THEN [e EXCEPT !.digest = core.digest, !.idx = 0, !.lt = FALSE, !.gt = FALSE, !.state = "COMPARE"]
             ELSE e
        [] eng.state = "COMPARE" -> Compare(e)
        [] OTHER -> Advance(e)

\* Faulty variant: the engine is idle as soon as it was stopped, although the
\* core still works on the old block.
BusyEngineOnly == eng.state # "IDLE"

\* busy_o
Busy == eng.state # "IDLE" \/ core.busy

hash_complete == eng.state = "PASS2" /\ core.done
-----------------------------------------------------------------------------
(* Clock edges; the core and the engine always step together.               *)

CoreEdge == core' = CoreStep(core, eng.start, Block, ChainingState)

Watch ==
  /\ found' = found \cup (IF eng.valid THEN {eng.result} ELSE {})
  /\ hashes' = hashes + (IF hash_complete THEN 1 ELSE 0)

Nonces(nonce, count) ==
  LET nth[i \in 1 .. count] == IF i = 1 THEN nonce ELSE nth[i - 1] ++ <<0, NONCE_STRIDE>>
  IN  {nth[i] : i \in 1 .. count}

\* What the firmware writes to the work registers for a header (build_header),
\* and the nonces of the range it would accept when it hashes the header itself.
SearchWork(header, target, nonce, count) ==
  [midstate |-> bitcoin_header_midstate(header), tail |-> bitcoin_header_tail_words(header),
   target |-> target, nonce |-> nonce, count |-> count,
   accepted |-> {n \in Nonces(nonce, count) : Accepts(header, n, target)}]

NoWork == [midstate |-> << >>, tail |-> << >>, target |-> << >>, nonce |-> Zero, count |-> 0, accepted |-> {}]

Init ==
  /\ hybrid \in BOOLEAN
  /\ work = NoWork
  /\ eng = EngineReset /\ core = CoreReset
  /\ found = {} /\ hashes = 0
  /\ stopped = FALSE /\ stops = 0

\* start_i with new work; count 0 would leave the engine idle.
Start(w) ==
  /\ ~Busy
  /\ work' = w
  /\ eng' = Launch([EngineReset EXCEPT !.nonce = w.nonce, !.remaining = w.count, !.result = eng.result],
                   TRUE, "PASS1")
  /\ CoreEdge
  /\ found' = {} /\ hashes' = 0
  /\ stopped' = FALSE
  /\ UNCHANGED <<hybrid, stops>>

\* A cycle with neither start nor stop.
Run ==
  /\ Busy \/ eng.done
  /\ eng' = EngineStep /\ CoreEdge /\ Watch
  /\ UNCHANGED <<hybrid, work, stopped, stops>>

\* stop_i: the engine is idle at once, the core runs on to the end of its block.
Stop ==
  /\ stops < Stops
  /\ eng.state # "IDLE"
  /\ eng' = [eng EXCEPT !.start = FALSE, !.valid = FALSE, !.state = "IDLE", !.done = TRUE]
  /\ CoreEdge /\ Watch
  /\ stopped' = TRUE /\ stops' = stops + 1
  /\ UNCHANGED <<hybrid, work>>

Next == Run \/ Stop \/ \E w \in Work : Start(w)

Spec == Init /\ [][Next]_vars
-----------------------------------------------------------------------------
(* Properties.                                                              *)

\* The engine reports exactly the nonces the firmware accepts when it hashes
\* the header itself (stratum.c:143-151): none that it would refuse, whatever
\* was stopped before, and all of them when the range ends; and it counts one
\* hash per nonce.
ResultsExact ==
  /\ found \subseteq work.accepted
  /\ eng.done /\ ~stopped => found = work.accepted /\ hashes = work.count
=============================================================================
