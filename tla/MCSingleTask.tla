---------------------------- MODULE MCSingleTask ----------------------------
(***************************************************************************)
(* The code that shares no state with another task, one part in each         *)
(* behaviour; only the tick counter moves beside it:                         *)
(*   boot    the boot loader, with two required vector bytes of three, a gap *)
(*           between the vectors and the RAM, and an address past its end;   *)
(*   record  srec_parse on lines of records and on lines typed at random;    *)
(*   stream  sha256_update and sha256_final on messages cut into pieces;     *)
(*   target  bitcoin_target on all short texts, with small limbs and limits. *)
(*   timers  the time-outs of a pool session, from every tick of the counter, *)
(*           with passes of up to two ticks.                                 *)
(* The state of the other parts stays as it was.                             *)
(***************************************************************************)
EXTENDS Bootloader, StratumTimers, Sequences

VARIABLES part   \* the part this behaviour is about

VARIABLES record, type, line
recordVars == <<record, type, line>>

VARIABLES ctx, hashed
streamVars == <<ctx, hashed>>

VARIABLE text

Record == INSTANCE RecordCheck WITH Radix <- 3, MaxCount <- 4, MaxData <- 3

Stream == INSTANCE StreamCheck WITH
            MaxLen <- 200, Piece <- {0, 1, 31, 32, 55, 56, 63, 64, 65, 130}

Target == INSTANCE TargetCheck WITH
            LimbBits <- 4, Limbs <- 6, OutLimbs <- 3, TopLimb <- 2, TopValue <- 12,
            MaxLen <- 6, MaxDigits <- 3, MaxExponent <- 3,
            Char <- {"0", "1", "7", ".", "e", "-"}, TextLen <- 7

MCInit ==
  /\ part \in {"boot", "record", "stream", "target", "timers"}
  /\ Init /\ Stream!Init /\ Target!Init /\ TimersInit
  /\ part # "timers" => tick = 0
  /\ IF part = "record" THEN Record!Init
     ELSE record = Record!Error /\ type = 1 /\ line = << >>

MCNext ==
  \/ part = "boot" /\ Next /\ UNCHANGED <<part, recordVars, streamVars, text, timerVars>>
  \/ part = "record" /\ Record!Type /\ UNCHANGED <<vars, part, streamVars, text, timerVars>>
  \/ part = "stream" /\ Stream!Next /\ UNCHANGED <<vars, part, recordVars, text, timerVars>>
  \/ part = "target" /\ Target!Next /\ UNCHANGED <<vars, part, recordVars, streamVars, timerVars>>
  \/ part = "timers" /\ TimersNext /\ UNCHANGED <<vars, part, recordVars, streamVars, text>>

MCSpec == MCInit /\ [][MCNext]_<<vars, part, recordVars, streamVars, text, timerVars>>

\* A line is taken exactly when it is the line of the record it is taken for
\* (srec.c:13-36; RecordCheck).
ParsesRecords == part = "record" => Record!ParsesRecords

\* A message is hashed as its padded blocks, however it comes in pieces
\* (sha256_sw.c:118-165; StreamCheck).
StreamIsPadded == part = "stream" => Stream!StreamIsPadded

\* The target of a difficulty is the floor of the exact quotient, and only what
\* is no usable number is refused (bitcoin.c:36-37; TargetCheck).
TargetIsFloor == part = "target" => Target!TargetIsFloor
=============================================================================
