------------------------------- MODULE Sha256 -------------------------------
(***************************************************************************)
(* The software SHA-256 (software/common/sha256_sw.c) and what bitcoin.c and *)
(* stratum.c build on it: the double hash, the block header and the test of  *)
(* a nonce.  A 32-bit word is a pair of 16-bit halves <<high, low>>, since   *)
(* TLC's integers are 32-bit signed; bytes are numbers below 256.            *)
(***************************************************************************)
EXTENDS Integers, Sequences, SequencesExt

CONSTANT Rounds   \* 64, the last index of the schedule and of the round loop

k_sha256 == <<
  <<\h428a, \h2f98>>, <<\h7137, \h4491>>, <<\hb5c0, \hfbcf>>, <<\he9b5, \hdba5>>,
  <<\h3956, \hc25b>>, <<\h59f1, \h11f1>>, <<\h923f, \h82a4>>, <<\hab1c, \h5ed5>>,
  <<\hd807, \haa98>>, <<\h1283, \h5b01>>, <<\h2431, \h85be>>, <<\h550c, \h7dc3>>,
  <<\h72be, \h5d74>>, <<\h80de, \hb1fe>>, <<\h9bdc, \h06a7>>, <<\hc19b, \hf174>>,
  <<\he49b, \h69c1>>, <<\hefbe, \h4786>>, <<\h0fc1, \h9dc6>>, <<\h240c, \ha1cc>>,
  <<\h2de9, \h2c6f>>, <<\h4a74, \h84aa>>, <<\h5cb0, \ha9dc>>, <<\h76f9, \h88da>>,
  <<\h983e, \h5152>>, <<\ha831, \hc66d>>, <<\hb003, \h27c8>>, <<\hbf59, \h7fc7>>,
  <<\hc6e0, \h0bf3>>, <<\hd5a7, \h9147>>, <<\h06ca, \h6351>>, <<\h1429, \h2967>>,
  <<\h27b7, \h0a85>>, <<\h2e1b, \h2138>>, <<\h4d2c, \h6dfc>>, <<\h5338, \h0d13>>,
  <<\h650a, \h7354>>, <<\h766a, \h0abb>>, <<\h81c2, \hc92e>>, <<\h9272, \h2c85>>,
  <<\ha2bf, \he8a1>>, <<\ha81a, \h664b>>, <<\hc24b, \h8b70>>, <<\hc76c, \h51a3>>,
  <<\hd192, \he819>>, <<\hd699, \h0624>>, <<\hf40e, \h3585>>, <<\h106a, \ha070>>,
  <<\h19a4, \hc116>>, <<\h1e37, \h6c08>>, <<\h2748, \h774c>>, <<\h34b0, \hbcb5>>,
  <<\h391c, \h0cb3>>, <<\h4ed8, \haa4a>>, <<\h5b9c, \hca4f>>, <<\h682e, \h6ff3>>,
  <<\h748f, \h82ee>>, <<\h78a5, \h636f>>, <<\h84c8, \h7814>>, <<\h8cc7, \h0208>>,
  <<\h90be, \hfffa>>, <<\ha450, \h6ceb>>, <<\hbef9, \ha3f7>>, <<\hc671, \h78f2>>>>

InitialState == <<
  <<\h6a09, \he667>>, <<\hbb67, \hae85>>, <<\h3c6e, \hf372>>, <<\ha54f, \hf53a>>,
  <<\h510e, \h527f>>, <<\h9b05, \h688c>>, <<\h1f83, \hd9ab>>, <<\h5be0, \hcd19>>>>

Word == (0 .. 2^16 - 1) \X (0 .. 2^16 - 1)
Zero == <<0, 0>>
-----------------------------------------------------------------------------
(* Words.                                                                   *)

x ++ y ==
  LET low == x[2] + y[2] IN <<(x[1] + y[1] + low \div 2^16) % 2^16, low % 2^16>>

shr(x, n) == <<x[1] \div 2^n, x[2] \div 2^n + (x[1] % 2^n) * 2^(16 - n)>>

rotr32(x, n) ==
  LET y == IF n < 16 THEN x ELSE <<x[2], x[1]>>
      k == n % 16
  IN  <<y[1] \div 2^k + (y[2] % 2^k) * 2^(16 - k),
        y[2] \div 2^k + (y[1] % 2^k) * 2^(16 - k)>>

\* The word whose bits are Op of the bits of x, y and z.
BitByBit(Op(_, _, _), x, y, z) ==
  LET Bit(w, i) == (w \div 2^i) % 2
      Half(a, b, c) ==
        LET top[n \in 0 .. 16] == IF n = 16 THEN 0
                                  ELSE 2 * top[n + 1] + Op(Bit(a, n), Bit(b, n), Bit(c, n))
        IN  top[0]
  IN  <<Half(x[1], y[1], z[1]), Half(x[2], y[2], z[2])>>

Xor(x, y, z) == BitByBit(LAMBDA a, b, c : (a + b + c) % 2, x, y, z)
Ch(x, y, z)  == BitByBit(LAMBDA a, b, c : IF a = 1 THEN b ELSE c, x, y, z)
Maj(x, y, z) == BitByBit(LAMBDA a, b, c : (a + b + c) \div 2, x, y, z)

BigSigma0(x)   == Xor(rotr32(x, 2), rotr32(x, 13), rotr32(x, 22))
BigSigma1(x)   == Xor(rotr32(x, 6), rotr32(x, 11), rotr32(x, 25))
SmallSigma0(x) == Xor(rotr32(x, 7), rotr32(x, 18), shr(x, 3))
SmallSigma1(x) == Xor(rotr32(x, 17), rotr32(x, 19), shr(x, 10))

load_be32(bytes, at) == <<256 * bytes[at + 1] + bytes[at + 2], 256 * bytes[at + 3] + bytes[at + 4]>>
store_be32(x) == <<x[1] \div 256, x[1] % 256, x[2] \div 256, x[2] % 256>>
bitcoin_swap32(x) == load_be32(Reverse(store_be32(x)), 0)
-----------------------------------------------------------------------------
(* The compression function; w[i] of the code is Schedule(block)[i + 1].    *)

Schedule(block) ==
  LET extend[w \in Seq(Word)] ==
        LET i == Len(w)
        IN  IF i >= Rounds THEN w
            ELSE extend[Append(w, w[i - 15] ++ SmallSigma0(w[i - 14]) ++ w[i - 6] ++ SmallSigma1(w[i - 1]))]
  IN  extend[[j \in 1 .. 16 |-> load_be32(block, 4 * (j - 1))]]

\* One round on the working variables <<a, b, c, d, e, f, g, h>>.
Round(v, k, w) ==
  LET temp1 == v[8] ++ BigSigma1(v[5]) ++ Ch(v[5], v[6], v[7]) ++ k ++ w
      temp2 == BigSigma0(v[1]) ++ Maj(v[1], v[2], v[3])
  IN  <<temp1 ++ temp2, v[1], v[2], v[3], v[4] ++ temp1, v[5], v[6], v[7]>>

sha256_compress[state \in Seq(Word), block \in Seq(0 .. 255)] ==
  LET add[w \in Seq(Word)] ==
        LET run[i \in 0 .. Rounds, v \in Seq(Word)] ==
              IF i = Rounds THEN [j \in 1 .. 8 |-> state[j] ++ v[j]]
              ELSE run[i + 1, Round(v, k_sha256[i + 1], w[i + 1])]
        IN  run[0, state]
  IN  add[Schedule(block)]
-----------------------------------------------------------------------------
(* Messages, with the streaming interface over this compression function.   *)

State == Seq(Word)
Compress(state, block) == sha256_compress[state, block]

INSTANCE ShaStream

\* The digest of a sequence of pieces, as bytes.
Digest(pieces) ==
  LET Update(ctx, data) == sha256_update[ctx, data]
      Bytes[h \in State] == FlattenSeq([i \in 1 .. 8 |-> store_be32(h[i])])
  IN  Bytes[sha256_final[FoldLeft(Update, sha256_init(InitialState), pieces)]]

sha256d(pieces) == Digest(<<Digest(pieces)>>)
-----------------------------------------------------------------------------
(* Headers.                                                                 *)

\* Without the nonce, which is left zero: four bytes reversed, or each group
\* of four for prev (prev[i^3]).
bitcoin_build_header(job) ==
  LET root == FoldLeft(LAMBDA r, branch : sha256d(<<r \o branch>>),
                       sha256d(<<job.coin1, job.extra1, job.extra2, job.coin2>>), job.branches)
      prev == FlattenSeq([i \in 1 .. 8 |-> Reverse(SubSeq(job.prev, 4 * i - 3, 4 * i))])
  IN  Reverse(job.version) \o prev \o root \o Reverse(job.time) \o Reverse(job.bits) \o Zeros(4)

bitcoin_header_midstate(header) ==
  sha256_update[sha256_init(InitialState), SubSeq(header, 1, 64)].h

bitcoin_header_tail_words(header) == [i \in 1 .. 4 |-> load_be32(header, 60 + 4 * i)]

\* service_results: the header with the nonce, hashed and compared with the
\* target from the most significant byte, which is the last of the digest.
Accepts(header, nonce, target) ==
  LET digest == sha256d(<<SubSeq(header, 1, 76) \o store_be32(nonce)>>)
      limit == FlattenSeq([i \in 1 .. 8 |-> store_be32(target[i])])
      differ == {i \in 1 .. 32 : digest[33 - i] # limit[i]}
  IN  differ = {} \/ LET i == CHOOSE i \in differ : \A j \in differ : i <= j
                     IN  digest[33 - i] < limit[i]
=============================================================================
