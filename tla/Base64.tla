------------------------------- MODULE Base64 -------------------------------
(***************************************************************************)
(* Binary_data: base64 in lines.  A character of the alphabet is its index *)
(* in it; data are bytes.                                                  *)
(***************************************************************************)
EXTENDS Naturals, Sequences, SequencesExt

CONSTANT chars_in_line

ASSUME LineAssumption == chars_in_line \in Nat \ {0}

Byte == 0 .. 255

Pad == 64
NewLine == 65

(* The length of what is there, its line ends included, is what is counted. *)
add_base64_char(base64, idx) ==
  (IF base64 # <<>> /\ Len(base64) % chars_in_line = 0 THEN Append(base64, NewLine) ELSE base64)
  \o <<idx>>

(* Three bytes in four characters; what is missing is taken as 0. *)
sextets(a, b, c) ==
  <<a \div 4, (a % 4) * 16 + b \div 16, (b % 16) * 4 + c \div 64, c % 64>>

encode(data) ==
  LET byte(i) == IF i <= Len(data) THEN data[i] ELSE 0
      chars == FlattenSeq([g \in 1 .. (Len(data) + 2) \div 3 |->
                 sextets(byte(3 * g - 2), byte(3 * g - 1), byte(3 * g))])
      missing == (3 - (Len(data) % 3)) % 3
  IN  FoldLeft(add_base64_char, <<>>, SubSeq(chars, 1, Len(chars) - missing))
      \o [i \in 1 .. missing |-> Pad]

Malformed == <<256>>

decode_four(four) ==
  LET bytes == <<four[1] * 4 + four[2] \div 16,
                 (four[2] % 16) * 16 + four[3] \div 4,
                 (four[3] % 4) * 64 + four[4]>>
  IN  IF four[1] = Pad \/ four[2] = Pad THEN Malformed
      ELSE IF four[3] = Pad THEN SubSeq(bytes, 1, 1)
      ELSE IF four[4] = Pad THEN SubSeq(bytes, 1, 2)
      ELSE bytes

(* Mutant: line ends are not left out. *)
decode_all(base64) ==
  LET parts == [g \in 1 .. Len(base64) \div 4 |-> decode_four(SubSeq(base64, 4 * g - 3, 4 * g))]
  IN  IF Len(base64) % 4 # 0 \/ \E g \in DOMAIN parts : parts[g] = Malformed
      THEN Malformed
      ELSE FlattenSeq(parts)

(* Every four characters for themselves, blanks left out. *)
decode(base64) ==
  LET chars == FlattenSeq([i \in DOMAIN base64 |->
                 IF base64[i] = NewLine THEN <<>> ELSE <<base64[i]>>])
      parts == [g \in 1 .. Len(chars) \div 4 |-> decode_four(SubSeq(chars, 4 * g - 3, 4 * g))]
  IN  IF Len(chars) % 4 # 0 \/ \E g \in DOMAIN parts : parts[g] = Malformed
      THEN Malformed
      ELSE FlattenSeq(parts)
=============================================================================
