------------------------------ MODULE NineBit -------------------------------
(***************************************************************************)
(* The services run on a machine whose bytes have nine bits, and talk to   *)
(* the world in them; scripts/legitbbs/legitbbs-poller.py packs nine bits  *)
(* per character into the bytes of a socket, and unpacks them.  So does    *)
(* scripts/rubix/availability, which reads a line otherwise.  Texts are    *)
(* sequences of character codes, data are sequences of bytes.              *)
(***************************************************************************)
EXTENDS Integers, Sequences, SequencesExt

NewLine == 10

Bits(n, width) == [i \in 1 .. width |-> (n \div 2^(width - i)) % 2]
Value(bits) ==
  LET upTo[i \in 0 .. Len(bits)] == IF i = 0 THEN 0 ELSE 2 * upTo[i - 1] + bits[i]
  IN  upTo[Len(bits)]

Bytes(bits) ==
  LET full == bits \o [i \in 1 .. (-Len(bits)) % 8 |-> 0]
  IN  [i \in 1 .. Len(full) \div 8 |-> Value(SubSeq(full, 8 * i - 7, 8 * i))]

(* Nine bits a character, and zeros up to a whole byte.                    *)
Data_8_to_9(text) == Bytes(FlattenSeq([i \in DOMAIN text |-> Bits(text[i], 9)]))

(* Mutant: the newline is not counted.                                     *)
BitsToEatBefore(count) == 8 - (((count - 1) * 9 + 8) % 8)
(* The bits that are skipped after the newline that is the count-th        *)
(* character of its line: never none.                                      *)
BitsToEat(count) == 8 - ((count * 9 + 8) % 8)

(* One turn of the loop: the first of nine bits is ignored, and so are      *)
(* fewer than nine at the end.  Behind a newline the padding of its line   *)
(* is skipped; checked says whether a line that ends with a byte is known  *)
(* to have none.                                                           *)
Read(bits, checked, l) ==
  LET char == Value(SubSeq(bits, l.at + 2, l.at + 9))
      eaten == IF char # NewLine \/ (checked /\ (l.at + 9) % 8 = 0) THEN 0
               ELSE BitsToEat(l.count + 1)
  IN  IF l.at + 9 > Len(bits) THEN l
      ELSE [text |-> Append(l.text, char), at |-> l.at + 9 + eaten,
            count |-> IF eaten > 0 THEN 0 ELSE l.count + 1]

BitsOf(data) == FlattenSeq([i \in DOMAIN data |-> Bits(data[i], 8)])
Unpacked(data, checked) ==
  LET bits == BitsOf(data)
      turns[i \in 0 .. Len(bits) \div 9] ==
        IF i = 0 THEN [text |-> <<>>, at |-> 0, count |-> 0] ELSE Read(bits, checked, turns[i - 1])
  IN  turns[Len(bits) \div 9].text

Data_9_to_8(data) == Unpacked(data, FALSE)
(* That of scripts/rubix/availability.                                     *)
Data_9_to_8_New(data) == Unpacked(data, TRUE)

Mentions(text, word) ==
  \E i \in 0 .. Len(text) - Len(word) : SubSeq(text, i + 1, i + Len(word)) = word
=============================================================================
