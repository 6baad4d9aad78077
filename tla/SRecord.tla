------------------------------- MODULE SRecord -------------------------------
(***************************************************************************)
(* srec_parse (software/common/srec.c): one line of an S-record file, the    *)
(* letter S, a type digit and pairs of hex digits: the count of the bytes    *)
(* that follow, the address, the data and the checksum.                      *)
(*                                                                           *)
(* The digits have the radix Radix, a byte is below Radix^2 and the checksum *)
(* is that of such bytes: 16 in the code, less here.                         *)
(***************************************************************************)
EXTENDS Integers, Sequences, SequencesExt

CONSTANT Radix   \* more than 1

ByteEnd == Radix * Radix
Digit == 0 .. Radix - 1     \* the characters that are digits
NotDigit == Radix           \* any other

hex(c) == IF c \in Digit THEN c ELSE -1

\* The value of two characters of the line, from position p on.
byte(line, p) ==
  IF hex(line[p]) < 0 \/ hex(line[p + 1]) < 0 THEN -1 ELSE hex(line[p]) * Radix + hex(line[p + 1])

Error == [type |-> -1, address |-> 0, data |-> << >>]

\* naddr: the bytes of an address, 0 for a type that is no type.
AddressBytes(type) ==
  CASE type \in {0, 1, 5, 9} -> 2
    [] type \in {2, 6, 8} -> 3
    [] type \in {3, 7} -> 4
    [] OTHER -> 0

\* Faulty variant: the line may go on after the checksum.
LengthAtLeast(size, count) == size >= 4 + 2 * count

LengthFits(size, count) == size = 4 + 2 * count

\* The line as the code gets it: what follows S is the type character and then
\* the characters of the pairs, so a position there is two less than in line.
srec_parse(type, line) ==
  LET size == 2 + Len(line)
      naddr == AddressBytes(type)
      count == byte(line, 1)
      value == [i \in 1 .. count |-> byte(line, 1 + 2 * i)]
      sum == FoldLeft(LAMBDA a, b : a + b, count, value)
  IN  IF \/ size < 4 \/ naddr = 0
         \/ count < naddr + 1 \/ ~LengthFits(size, count)
         \/ (type >= 5 /\ count # naddr + 1)
         \/ \E i \in 1 .. count : value[i] < 0
         \/ sum % ByteEnd # ByteEnd - 1
      THEN Error
      ELSE [type |-> type,
            address |-> FoldLeft(LAMBDA a, b : a * ByteEnd + b, 0, SubSeq(value, 1, naddr)),
            data |-> SubSeq(value, naddr + 1, count - 1)]
-----------------------------------------------------------------------------
(* The format the other way round: the line of a record.                    *)

Pair(b) == <<b \div Radix, b % Radix>>
BytesOf(n, v) == [i \in 1 .. n |-> (v \div ByteEnd^(n - i)) % ByteEnd]

Line(r) ==
  LET counted == BytesOf(AddressBytes(r.type), r.address) \o r.data
      summed == <<Len(counted) + 1>> \o counted
      check == (ByteEnd - 1 - FoldLeft(LAMBDA a, b : a + b, 0, summed)) % ByteEnd
  IN  FlattenSeq([i \in 1 .. Len(summed) + 1 |-> Pair(Append(summed, check)[i])])
=============================================================================
