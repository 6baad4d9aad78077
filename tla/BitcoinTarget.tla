---------------------------- MODULE BitcoinTarget ----------------------------
(***************************************************************************)
(* bitcoin_target of software/common/bitcoin.c: a decimal difficulty, as the *)
(* pool wrote it, becomes the 256-bit target floor(T1 / D), where T1 is the  *)
(* target of difficulty one.  The text is parsed and divided with big        *)
(* numbers: little-endian sequences of Limbs limbs of LimbBits bits.  The    *)
(* sizes are constants so that TLC can go through all texts of some length.  *)
(***************************************************************************)
EXTENDS Integers, Sequences

CONSTANTS LimbBits, Limbs,      \* 32, 32
          OutLimbs,             \* 8
          TopLimb, TopValue,    \* numerator[6] = 0xffff0000
          MaxLen, MaxDigits, MaxExponent   \* 80, 64, 128

Base == 2^LimbBits
Zero == [i \in 1 .. Limbs |-> 0]
Failed == << >>

Digits == <<"0", "1", "2", "3", "4", "5", "6", "7", "8", "9">>
IsDigit(c) == \E i \in 1 .. 10 : Digits[i] = c
DigitValue(c) == (CHOOSE i \in 1 .. 10 : Digits[i] = c) - 1
-----------------------------------------------------------------------------
(* Big numbers.                                                             *)

\* a * 10 + add, limb by limb with a carry; Failed when it does not fit.
multiply10(a, add) ==
  LET go[done \in Seq(Nat), carry \in Nat] ==
        IF Len(done) = Limbs THEN IF carry # 0 THEN Failed ELSE done
        ELSE LET t == carry + 10 * a[Len(done) + 1]
             IN  go[Append(done, t % Base), t \div Base]
  IN  go[<< >>, add]

\* compare(a, b) >= 0: the highest limb that differs decides.
NotLess(a, b) ==
  LET differ == {i \in 1 .. Limbs : a[i] # b[i]}
  IN  differ = {} \/ \E i \in differ : a[i] > b[i] /\ \A j \in differ : j <= i

\* Faulty variant: the borrow of the limb below is not compared.
BorrowsAlone(limb, sub, borrow) == IF limb < sub THEN 1 ELSE 0

Borrows(limb, sub, borrow) == IF limb < sub + borrow THEN 1 ELSE 0

subtract(a, b) ==
  LET go[done \in Seq(Nat), borrow \in Nat] ==
        IF Len(done) = Limbs THEN done
        ELSE LET i == Len(done) + 1
             IN  go[Append(done, (a[i] - b[i] - borrow) % Base), Borrows(a[i], b[i], borrow)]
  IN  go[<< >>, 0]

\* a shifted left by one, with a new lowest bit.
ShiftIn(a, bit) ==
  LET go[done \in Seq(Nat), carry \in Nat] ==
        IF Len(done) = Limbs THEN done
        ELSE LET t == 2 * a[Len(done) + 1] + carry
             IN  go[Append(done, t % Base), t \div Base]
  IN  go[<< >>, bit]

Bit(a, bit) == (a[bit \div LimbBits + 1] \div 2^(bit % LimbBits)) % 2

\* a * 10^n, or Failed.
RECURSIVE Scale(_, _)
Scale(a, n) == IF n <= 0 \/ a = Failed THEN a ELSE Scale(multiply10(a, 0), n - 1)
-----------------------------------------------------------------------------
(* The text.                                                                *)

\* The digits and the point, up to the end or an e; p is the next character.
RECURSIVE Mantissa(_, _)
Mantissa(s, m) ==
  IF ~m.ok \/ m.p > Len(s) \/ s[m.p] \in {"e", "E"} THEN m
  ELSE LET c == s[m.p]
           n == [m EXCEPT !.p = @ + 1]
       IN  Mantissa(s,
             IF c = "." THEN [n EXCEPT !.ok = ~m.point /\ m.digits > 0, !.point = TRUE]
             ELSE IF ~IsDigit(c) \/ m.digits = MaxDigits THEN [n EXCEPT !.ok = FALSE]
             ELSE LET d == multiply10(m.value, DigitValue(c))
                  IN  [n EXCEPT !.digits = @ + 1, !.fractional = IF m.point THEN @ + 1 ELSE @,
                                !.nonzero = @ \/ c # "0", !.value = d, !.ok = d # Failed])

\* The digits of the exponent from p on, after value; -1 when they are refused.
RECURSIVE Exponent(_, _, _)
Exponent(s, p, value) ==
  IF p > Len(s) THEN value
  ELSE IF ~IsDigit(s[p]) \/ value > MaxExponent THEN -1
  ELSE Exponent(s, p + 1, 10 * value + DigitValue(s[p]))

\* The restoring division, bit by bit; out has its highest limb first.
Divide(numerator, denominator) ==
  LET go[bit \in Int, remainder \in Seq(Nat), out \in Seq(Nat), overflow \in BOOLEAN] ==
        IF bit < 0 THEN IF overflow THEN [i \in 1 .. OutLimbs |-> Base - 1] ELSE out
        ELSE LET r == ShiftIn(remainder, Bit(numerator, bit))
                 high == bit >= OutLimbs * LimbBits
             IN  IF ~NotLess(r, denominator) THEN go[bit - 1, r, out, overflow]
                 ELSE IF high THEN go[bit - 1, subtract(r, denominator), out, TRUE]
                 ELSE go[bit - 1, subtract(r, denominator),
                         [out EXCEPT ![OutLimbs - bit \div LimbBits] = @ + 2^(bit % LimbBits)], overflow]
  IN  go[Limbs * LimbBits - 1, Zero, [i \in 1 .. OutLimbs |-> 0], FALSE]

Total(exponent, fractional) == exponent - fractional

bitcoin_target(s) ==
  LET m == Mantissa(s, [p |-> 1, digits |-> 0, fractional |-> 0, point |-> FALSE,
                        nonzero |-> FALSE, value |-> Zero, ok |-> TRUE])
      signed == m.p < Len(s) /\ s[m.p + 1] \in {"+", "-"}
      start == m.p + (IF signed THEN 2 ELSE 1)
      magnitude == IF m.p > Len(s) THEN 0 ELSE IF start > Len(s) THEN -1 ELSE Exponent(s, start, 0)
      exponent == Total(IF signed /\ s[m.p + 1] = "-" THEN -magnitude ELSE magnitude, m.fractional)
      denominator == Scale(m.value, exponent)
      numerator == Scale([Zero EXCEPT ![TopLimb] = TopValue], -exponent)
  IN  IF \/ s = << >> \/ Len(s) > MaxLen
         \/ ~m.ok \/ ~m.nonzero \/ (m.point /\ m.fractional = 0)
         \/ magnitude = -1 \/ exponent > MaxExponent \/ exponent < -MaxExponent
         \/ denominator = Failed \/ numerator = Failed
      THEN Failed
      ELSE Divide(numerator, denominator)
=============================================================================
