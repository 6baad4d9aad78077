------------------------------ MODULE ShaStream ------------------------------
(***************************************************************************)
(* The streaming interface of software/common/sha256_sw.c over any           *)
(* compression function: messages come in pieces of any size, are gathered   *)
(* in a buffer of 64 bytes and padded at the end.  The buffer is the         *)
(* sequence of its first buffer_len bytes.                                   *)
(***************************************************************************)
EXTENDS Integers, Sequences

CONSTANTS State,            \* values of the eight words h
          Compress(_, _)    \* sha256_compress: the state and a block

Byte == 0 .. 255
Context == [h : State, len : Nat, buffer : Seq(Byte)]

sha256_init(h) == [h |-> h, len |-> 0, buffer |-> << >>]

sha256_update[ctx \in Context, data \in Seq(Byte)] ==
  IF data = << >> THEN ctx
  ELSE LET room == 64 - Len(ctx.buffer)
           take == IF Len(data) < room THEN Len(data) ELSE room
           b == ctx.buffer \o SubSeq(data, 1, take)
       IN  sha256_update[[h      |-> IF Len(b) = 64 THEN Compress(ctx.h, b) ELSE ctx.h,
                          len    |-> ctx.len + take,
                          buffer |-> IF Len(b) = 64 THEN << >> ELSE b],
                         SubSeq(data, take + 1, Len(data))]

Zeros(n) == [i \in 1 .. n |-> 0]

\* The bit count, 64 bits big-endian, of a message shorter than 2^21 bytes.
LengthBytes(len) == Zeros(5) \o <<len \div 2^13, (len \div 2^5) % 256, (len * 8) % 256>>

\* Faulty variant: 57 bytes are taken to leave room for the count.
RoomForCountOffByOne(n) == n <= 57

\* Whether the count fits in a buffer of n bytes.
RoomForCount(n) == n <= 56

sha256_final[ctx \in Context] ==
  LET b == Append(ctx.buffer, \h80)
      h == IF RoomForCount(Len(b)) THEN ctx.h ELSE Compress(ctx.h, b \o Zeros(64 - Len(b)))
      rest == IF RoomForCount(Len(b)) THEN b ELSE << >>
  IN  Compress(h, rest \o Zeros(56 - Len(rest)) \o LengthBytes(ctx.len))
=============================================================================
