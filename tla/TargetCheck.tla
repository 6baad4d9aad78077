---------------------------- MODULE TargetCheck -----------------------------
(***************************************************************************)
(* Model checking of BitcoinTarget: every text over Char up to TextLen       *)
(* characters, with small limbs and limits.  The reference reads the text as *)
(* a whole and divides integers.                                             *)
(***************************************************************************)
EXTENDS BitcoinTarget, FiniteSetsExt

CONSTANTS Char, TextLen   \* bounds

VARIABLE text
Init == text = << >>
Next == Len(text) < TextLen /\ \E c \in Char : text' = Append(text, c)
Spec == Init /\ [][Next]_text
-----------------------------------------------------------------------------
\* The number that a sequence of digits stands for.
Number(s) ==
  LET n[i \in 0 .. Len(s)] == IF i = 0 THEN 0 ELSE 10 * n[i - 1] + DigitValue(s[i]) IN n[Len(s)]
AllDigits(s) == \A i \in 1 .. Len(s) : IsDigit(s[i])

\* The ways to read a text as a difficulty: whole digits, digits after the
\* point, and the exponent; at most one.
Readings(s) ==
  LET At(c) == {i \in 1 .. Len(s) : s[i] \in c}
      e == Min(At({"e", "E"}) \cup {Len(s) + 1})
      dot == Min({i \in At({"."}) : i < e} \cup {e})
      sign == IF e < Len(s) /\ s[e + 1] \in {"+", "-"} THEN 1 ELSE 0
      whole == SubSeq(s, 1, dot - 1)
      part == SubSeq(s, dot + 1, e - 1)
      power == SubSeq(s, e + 1 + sign, Len(s))
  IN  IF /\ AllDigits(whole \o part \o power) /\ whole # << >>
         /\ dot < e => part # << >>
         /\ e <= Len(s) => power # << >>
      THEN {[digits |-> whole \o part,
             exponent |-> (IF sign = 1 /\ s[e + 1] = "-" THEN -Number(power) ELSE Number(power)) - Len(part)]}
      ELSE {}

Value(out) ==
  LET v[i \in 0 .. OutLimbs] == IF i = 0 THEN 0 ELSE Base * v[i - 1] + out[i] IN v[OutLimbs]

One == TopValue * Base^(TopLimb - 1)

\* The comment at bitcoin.c:36-37: the target is exactly the floor of the
\* difficulty-one target divided by the difficulty, or all ones when that does
\* not fit; and a text is refused only when it is no positive decimal number
\* or exceeds the limits on length, digits and exponent.
TargetIsFloor ==
  LET out == bitcoin_target(text)
      usable == {r \in Readings(text) : /\ Len(text) <= MaxLen /\ Len(r.digits) <= MaxDigits
                                        /\ Number(r.digits) > 0
                                        /\ r.exponent \in -MaxExponent .. MaxExponent}
  IN  /\ out = Failed <=> usable = {}
      /\ \A r \in usable :
           LET up == IF r.exponent < 0 THEN 10^(-r.exponent) ELSE 1
               down == IF r.exponent > 0 THEN 10^r.exponent ELSE 1
               floor == (One * up) \div (Number(r.digits) * down)
           IN  Value(out) = Min({floor, Base^OutLimbs - 1})
=============================================================================
