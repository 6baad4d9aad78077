--------------------------- MODULE MCSettingsStore ---------------------------
(* The settings store with two pages per record and a sequence counter that *)
(* wraps after four saves.                                                  *)
EXTENDS SettingsStore

\* The wrap arithmetic of the model is arithmetic modulo SeqMod.
ASSUME SeqArithmetic ==
  /\ \A n \in 0 .. SeqMod - 1 : NextSeq(n) = (n + 1) % SeqMod
  /\ \A a, b \in 0 .. SeqMod - 1 : SeqDiff(a, b) = (b - a) % SeqMod
=============================================================================
