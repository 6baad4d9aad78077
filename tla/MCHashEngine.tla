---------------------------- MODULE MCHashEngine ----------------------------
(***************************************************************************)
(* The engine on the genesis block: the header is built from the job a pool  *)
(* would send (the coinbase is cut where the extranonces would be), the      *)
(* engine searches around the known nonce and is stopped in any cycle.       *)
(***************************************************************************)
EXTENDS HashEngine

Coinbase1 == <<
    1, 0, 0, 0, 1, 0, 0, 0, 0, 0, 0, 0, 0, 0, 0, 0, 0, 0, 0, 0, 0, 0, 0, 0, 0, 0, 0, 0, 0,
    0, 0, 0, 0, 0, 0, 0, 0, 255, 255, 255, 255, 77, 4, 255, 255, 0, 29, 1, 4, 69, 84, 104,
    101, 32, 84, 105, 109, 101, 115, 32>>
Coinbase2 == <<
    47, 50, 48, 48, 57, 32, 67, 104, 97, 110, 99, 101, 108, 108, 111, 114, 32, 111, 110,
    32, 98, 114, 105, 110, 107, 32, 111, 102, 32, 115, 101, 99, 111, 110, 100, 32, 98, 97,
    105, 108, 111, 117, 116, 32, 102, 111, 114, 32, 98, 97, 110, 107, 115, 255, 255, 255,
    255, 1, 0, 242, 5, 42, 1, 0, 0, 0, 67, 65, 4, 103, 138, 253, 176, 254, 85, 72, 39, 25,
    103, 241, 166, 113, 48, 183, 16, 92, 214, 168, 40, 224, 57, 9, 166, 121, 98, 224, 234,
    31, 97, 222, 182, 73, 246, 188, 63, 76, 239, 56, 196, 243, 85, 4, 229, 30, 193, 18,
    222, 92, 56, 77, 247, 186, 11, 141, 87, 138, 76, 112, 43, 107, 241, 29, 95, 172, 0, 0,
    0, 0>>

Job ==
  [version |-> <<0, 0, 0, 1>>, prev |-> Zeros(32), time |-> <<73, 95, 171, 41>>,
   bits |-> <<29, 0, 255, 255>>, branches |-> << >>,
   coin1 |-> Coinbase1, extra1 |-> <<48, 51>>, extra2 |-> <<47, 74, 97, 110>>, coin2 |-> Coinbase2]

Header == bitcoin_build_header(Job)

DifficultyOne == <<Zero, <<\hffff, 0>>, Zero, Zero, Zero, Zero, Zero, Zero>>
GenesisHash ==
  <<<<\h0000, \h0000>>, <<\h0019, \hd668>>, <<\h9c08, \h5ae1>>, <<\h6583, \h1e93>>,
    <<\h4ff7, \h63ae>>, <<\h46a2, \ha6c1>>, <<\h72b3, \hf1b6>>, <<\h0a8c, \he26f>>>>
JustBelow ==
  <<<<\h0000, \h0000>>, <<\h0019, \hd668>>, <<\h9c08, \h5ae1>>, <<\h6583, \h1e93>>,
    <<\h4ff7, \h63ae>>, <<\h46a2, \ha6c1>>, <<\h72b3, \hf1b6>>, <<\h0a8c, \he26e>>>>

Search(target, nonce, count) == SearchWork(Header, target, nonce, count)

\* A nonce that fails and, a stride later, the known one; the known one against its
\* own hash, and against one less.
GenesisWork ==
  {Search(DifficultyOne, <<\h1dac, \h2b79>>, 2), Search(GenesisHash, <<\h1dac, \h2b7c>>, 1),
   Search(JustBelow, <<\h1dac, \h2b7c>>, 1)}

=============================================================================
