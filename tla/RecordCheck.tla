---------------------------- MODULE RecordCheck -----------------------------
(* Two kinds of lines: the lines of records (type, address and data chosen, *)
(* then written), and lines typed pair by pair, with characters that are no *)
(* digits and a last character without its partner.                         *)
EXTENDS SRecord

CONSTANTS MaxCount,  \* bound: the byte count of a line that is typed on
          MaxData    \* bound: the data bytes of a record that is written

VARIABLES record,    \* the record that was written, or Error
          type, line

Types == {t \in 0 .. 9 : AddressBytes(t) # 0}
EdgeAddresses(a) == {0, 1, ByteEnd - 1, ByteEnd^a - 1, ByteEnd^(a - 1)}   \* addresses to write

Write ==
  \E t \in Types : \E a \in EdgeAddresses(AddressBytes(t)), n \in 0 .. IF t < 5 THEN MaxData ELSE 0 :
    \E d \in [1 .. n -> 0 .. ByteEnd - 1] :
      /\ record = [type |-> t, address |-> a, data |-> d]
      /\ type = t /\ line = Line(record)

\* The types typed: two of data, one that is none, one without data.
Init == Write \/ (record = Error /\ type \in {1, 2, 4, 5} /\ line = << >>)

Pairs == {<<a, b>> : a, b \in Digit} \cup {<<NotDigit, 0>>, <<0, NotDigit>>}

\* Typing goes on to one pair past the count.
Type ==
  /\ record = Error
  /\ Len(line) % 2 = 0
  /\ Len(line) >= 2 => byte(line, 1) <= MaxCount /\ Len(line) < 4 + 2 * byte(line, 1)
  /\ \E p \in Pairs \cup {<<0>>} : line' = line \o p
  /\ UNCHANGED <<record, type>>

Spec == Init /\ [][Type]_<<record, type, line>>

\* The line of a record is taken for that record, and a line is taken only when
\* it is the line of the record it is taken for: a missing or extra digit, a
\* wrong count or checksum, and data in a record that has none are all refused
\* (srec.c:13-36).
ParsesRecords ==
  LET r == srec_parse(type, line)
  IN  IF record # Error THEN r = record ELSE r # Error => line = Line(r)
=============================================================================
