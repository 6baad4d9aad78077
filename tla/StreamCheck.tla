---------------------------- MODULE StreamCheck -----------------------------
(***************************************************************************)
(* Model checking of ShaStream: a message of known bytes is fed in pieces of *)
(* every size.  The compression function only records its blocks, so that    *)
(* the final state shows exactly what was hashed.                            *)
(***************************************************************************)
EXTENDS Integers, Sequences

CONSTANTS MaxLen, Piece   \* bounds: message length, sizes of the pieces

Record(blocks, block) == blocks \o block

INSTANCE ShaStream WITH State <- Seq(0 .. 255), Compress <- Record

VARIABLES ctx, hashed     \* the context; the blocks once sha256_final was called
vars == <<ctx, hashed>>

Message(n) == [i \in 1 .. n |-> (i - 1) % 256]

Init == ctx = sha256_init(<< >>) /\ hashed = << >>

Feed(n) ==
  /\ hashed = << >>
  /\ ctx.len + n <= MaxLen
  /\ ctx' = sha256_update[ctx, SubSeq(Message(ctx.len + n), ctx.len + 1, ctx.len + n)]
  /\ UNCHANGED hashed

Finish ==
  /\ hashed = << >>
  /\ hashed' = sha256_final[ctx]
  /\ UNCHANGED ctx

Next == Finish \/ \E n \in Piece : Feed(n)

Spec == Init /\ [][Next]_vars
-----------------------------------------------------------------------------
\* However a message is cut into pieces, the blocks that sha256_update and
\* sha256_final compress are the message, one byte 0x80, the least number of
\* zeros that completes a block, and the bit count (sha256_sw.c:118-165).
StreamIsPadded ==
  hashed # << >> =>
    /\ Len(hashed) % 64 = 0
    /\ Len(hashed) - ctx.len \in 9 .. 72
    /\ \A i \in 1 .. Len(hashed) :
         hashed[i] = CASE i <= ctx.len -> (i - 1) % 256
                       [] i = ctx.len + 1 -> 128
                       [] i = Len(hashed) - 1 -> (8 * ctx.len) \div 256
                       [] i = Len(hashed) -> (8 * ctx.len) % 256
                       [] OTHER -> 0
=============================================================================
