------------------------------ MODULE Clemency ------------------------------
(***************************************************************************)
(* scripts/rubix/cLEMENCy.py: the assembler of the programs that the       *)
(* availability check of rubix has the service run.  Each of its functions *)
(* is one instruction: it puts a string of bits together from constants    *)
(* and from its arguments, and returns it in hexadecimal.  Here an         *)
(* instruction is its layout, and one operator assembles them all.         *)
(*                                                                         *)
(* Strings of bits are sequences, for they are longer than TLC's integers. *)
(* Python's bin of a negative number keeps a letter b behind the prefix    *)
(* that the code cuts off; it is LetterB here.                             *)
(***************************************************************************)
EXTENDS Integers, Sequences, SequencesExt

LetterB == 2

----------------------------------------------------------------------------
(* The parts of an instruction.                                            *)

Fixed(width, value) == [kind |-> "fixed", name |-> "", width |-> width, value |-> value]
Field(kind, name, width) == [kind |-> kind, name |-> name, width |-> width, value |-> 0]

Unsigned(name, width) == Field("unsigned", name, width)
Signed(name, width)   == Field("signed", name, width)
(* A name that the function never binds.                                   *)
Unbound(name, width)  == Field("unbound", name, width)

Condition      == Field("condition", "Condition", 4)
Register(name) == Unsigned(name, 5)   \* R00 .. R28, ST, RA and PC are 0 .. 31
UpdateFlags    == Unsigned("UF", 1)

(* The layouts that instructions share.                                    *)

ThreeRegisters(op, tail) ==
  <<Fixed(7, op), Register("rA"), Register("rB"), Register("rC"), Fixed(4, tail), UpdateFlags>>
(* Mutant: the two bits behind the immediate are not those of the          *)
(* instruction.                                                            *)
WithImmediateUntold(op, tail) ==
  <<Fixed(7, op), Register("rA"), Register("rB"), Signed("Immediate", 7), Fixed(2, 0), UpdateFlags>>
WithImmediate(op, tail) ==
  <<Fixed(7, op), Register("rA"), Register("rB"), Signed("Immediate", 7), Fixed(2, tail), UpdateFlags>>
WithUnsigned(op, tail) ==
  <<Fixed(7, op), Register("rA"), Register("rB"), Unsigned("Immediate", 7), Fixed(2, tail), UpdateFlags>>
TwoRegisters(op, tail) ==
  <<Fixed(9, op), Register("rA"), Register("rB"), Fixed(7, tail), UpdateFlags>>
MoveImmediate(op) == <<Fixed(5, op), Register("rA"), Signed("Immediate", 17)>>

Branch(op)  == <<Fixed(6, op), Condition, Signed("Offset", 17)>>
Calling(op) == <<Fixed(6, op), Condition, Unsigned("Offset", 17)>>
ToRegister(op, width, tail) == <<Fixed(6, op), Condition, Register("rA"), Fixed(width, tail)>>
Far(op, name) == <<Fixed(9, op), Unsigned(name, 27)>>

Compare(op) == <<Fixed(8, op), Register("rA"), Register("rB")>>
CompareImmediate(op) == <<Fixed(8, op), Register("rA"), Signed("Immediate", 14)>>

Memory(op, count, offset) ==
  <<Fixed(7, op), Register("rA"), Register("rB"), count, Unsigned("AdjustRb", 2), offset, Fixed(3, 0)>>
(* The parameter is called RegisterCount.                                  *)
Load(op)  == Memory(op, Unbound("RegCount", 5), Signed("MemoryOffset", 27))
Store(op) == Memory(op, Unsigned("RegCount", 5), Unsigned("MemOffset", 27))
Transfer(op) ==
  <<Fixed(7, op), Register("rA"), Register("rB"), Register("rC"), Fixed(5, 0)>>
SetProtection(op) ==
  <<Fixed(7, op), Register("rA"), Register("rB"), Fixed(1, 1), Unsigned("MemoryFlags", 2), Fixed(7, 0)>>
ReadProtection(op) == <<Fixed(7, op), Register("rA"), Register("rB"), Fixed(10, 0)>>

Convert(op) == <<Fixed(9, op), Register("rA"), Register("rB"), Fixed(8, 0)>>
Extend(op)  == <<Fixed(12, op), Register("rA"), Register("rB"), Fixed(5, 0)>>
Random(op, tail) == <<Fixed(9, op), Register("rA"), Fixed(12, tail), UpdateFlags>>
Flags(op)   == <<Fixed(12, op), Register("rA"), Fixed(1, 0)>>
Plain(width, op) == <<Fixed(width, op)>>

----------------------------------------------------------------------------
(* The instructions, by the names of their functions.                      *)

InstructionsA ==
  [AD |-> ThreeRegisters(\b0000000, \b0000),
   ADC |-> ThreeRegisters(\b0100000, \b0000),
   ADCI |-> WithImmediate(\b0100000, \b01),
   ADCIM |-> WithImmediate(\b0100010, \b01),
   ADCM |-> ThreeRegisters(\b0100010, \b0000),
   ADF |-> ThreeRegisters(\b0000001, \b0000),
   ADFM |-> ThreeRegisters(\b0000011, \b0000),
   ADI |-> WithImmediate(\b0000000, \b01),
   ADIM |-> WithImmediate(\b0000010, \b01),
   ADM |-> ThreeRegisters(\b0000010, \b0000),
   AN |-> ThreeRegisters(\b0010100, \b0000),
   ANI |-> WithImmediate(\b0010100, \b01),
   ANM |-> ThreeRegisters(\b0010110, \b0000)]

InstructionsBC ==
  [B |-> Branch(\b110000),
   BF |-> TwoRegisters(\b101001100, \b1000000),
   BFM |-> TwoRegisters(\b101001110, \b1000000),
   BR |-> ToRegister(\b110010, 4, \b0000),
   BRA |-> Far(\b111000100, "Location"),
   BRR |-> Far(\b111000000, "Offset"),
   C |-> Calling(\b110101),
   CAA |-> Far(\b111001100, "Location"),
   CAR |-> Far(\b111001000, "Offset"),
   CM |-> Compare(\b10111000),
   CMF |-> Compare(\b10111010),
   CMFM |-> Compare(\b10111110),
   CMI |-> CompareImmediate(\b10111001),
   CMIM |-> CompareImmediate(\b10111101),
   CMM |-> Compare(\b10111100),
   CR |-> ToRegister(\b110111, 3, \b000)]

InstructionsDE ==
  [DBRK |-> Plain(17, \b11111111111111111),
   DI |-> Flags(\b101000000101),
   DMT |-> Transfer(\b0110100),
   DV |-> ThreeRegisters(\b0001100, \b0000),
   DVF |-> ThreeRegisters(\b0001101, \b0000),
   DVFM |-> ThreeRegisters(\b0001111, \b0000),
   DVI |-> WithImmediate(\b0001100, \b01),
   DVIM |-> WithImmediate(\b0001110, \b01),
   DVIS |-> WithImmediate(\b0001100, \b11),
   DVISM |-> WithImmediate(\b0001110, \b11),
   DVM |-> ThreeRegisters(\b0001110, \b0000),
   DVS |-> ThreeRegisters(\b0001100, \b0010),
   DVSM |-> ThreeRegisters(\b0001110, \b0010),
   EI |-> Flags(\b101000000100)]

InstructionsFtoL ==
  [FTI |-> Convert(\b101000101),
   FTIM |-> Convert(\b101000111),
   HT |-> Plain(18, \b101000000011000000),
   IR |-> Plain(18, \b101000000001000000),
   ITF |-> Convert(\b101000100),
   ITFM |-> Convert(\b101000110),
   LDS |-> Load(\b1010100),
   LDT |-> Load(\b1010110),
   LDW |-> Load(\b1010101)]

InstructionsMD ==
  [MD |-> ThreeRegisters(\b0010000, \b0000),
   MDF |-> ThreeRegisters(\b0010001, \b0000),
   MDFM |-> ThreeRegisters(\b0010011, \b0000),
   MDI |-> WithImmediate(\b0010000, \b01),
   MDIM |-> WithImmediate(\b0010010, \b01),
   MDIS |-> WithImmediate(\b0010000, \b11),
   MDISM |-> WithImmediate(\b0010010, \b11),
   MDM |-> ThreeRegisters(\b0010010, \b0000),
   MDS |-> ThreeRegisters(\b0010000, \b0010),
   MDSM |-> ThreeRegisters(\b0010010, \b0010)]

InstructionsMHtoMU ==
  [MH |-> MoveImmediate(\b10001),
   ML |-> MoveImmediate(\b10010),
   MS |-> MoveImmediate(\b10011),
   MU |-> ThreeRegisters(\b0001000, \b0000),
   MUF |-> ThreeRegisters(\b0001001, \b0000),
   MUFM |-> ThreeRegisters(\b0001011, \b0000),
   MUI |-> WithImmediate(\b0001000, \b01),
   MIUM |-> WithImmediate(\b0001010, \b01),
   MUIS |-> WithUnsigned(\b0001000, \b11),
   MUISM |-> WithImmediate(\b0001010, \b11),
   MUM |-> ThreeRegisters(\b0001010, \b0000),
   MUS |-> ThreeRegisters(\b0001000, \b0010),
   MUSM |-> ThreeRegisters(\b0001010, \b0010)]

InstructionsNO ==
  [NG |-> TwoRegisters(\b101001100, \b0000000),
   NGF |-> TwoRegisters(\b101001101, \b0000000),
   NGFM |-> TwoRegisters(\b101001111, \b0000000),
   NGM |-> TwoRegisters(\b101001110, \b0000000),
   NT |-> TwoRegisters(\b101001100, \b0100000),
   NTM |-> TwoRegisters(\b101001110, \b0100000),
   OR |-> ThreeRegisters(\b0011000, \b0000),
   ORI |-> WithImmediate(\b0011000, \b01),
   ORM |-> ThreeRegisters(\b0011010, \b0000)]

InstructionsR ==
  [RE |-> Plain(18, \b101000000000000000),
   RF |-> Flags(\b101000001100),
   RL |-> ThreeRegisters(\b0110000, \b0000),
   RLI |-> WithImmediate(\b1000000, \b00),
   RLIM |-> WithImmediate(\b1000010, \b00),
   RLM |-> ThreeRegisters(\b0110010, \b0000),
   RMP |-> ReadProtection(\b1010010),
   RND |-> Random(\b101001100, \b000001100000),
   RNDM |-> Random(\b101001110, \b000001100000),
   RR |-> ThreeRegisters(\b0110001, \b0000),
   RRI |-> WithImmediate(\b1000001, \b00),
   RRIM |-> WithImmediate(\b1000011, \b00),
   RRM |-> ThreeRegisters(\b0110011, \b0000)]

InstructionsSAtoSBI ==
  [SA |-> ThreeRegisters(\b0101101, \b0000),
   SAI |-> WithImmediate(\b0111101, \b00),
   SAIM |-> WithImmediate(\b0111111, \b00),
   SAM |-> ThreeRegisters(\b0101111, \b0000),
   SB |-> ThreeRegisters(\b0000100, \b0000),
   SBC |-> ThreeRegisters(\b0100100, \b0000),
   SBCI |-> WithImmediate(\b0100100, \b01),
   SBCIM |-> WithImmediate(\b0100110, \b01),
   SBCM |-> ThreeRegisters(\b0100110, \b0000),
   SBF |-> ThreeRegisters(\b0000101, \b0000),
   SBFM |-> ThreeRegisters(\b0000111, \b0000),
   SBI |-> WithImmediate(\b0000100, \b01)]

InstructionsSBIMtoSRIM ==
  [SBIM |-> WithImmediate(\b0000110, \b01),
   SBM |-> ThreeRegisters(\b0000110, \b0000),
   SES |-> Extend(\b101000000111),
   SEW |-> Extend(\b101000001000),
   SF |-> Flags(\b101000001011),
   SL |-> ThreeRegisters(\b0101000, \b0000),
   SLI |-> WithImmediate(\b0111000, \b00),
   SLIM |-> WithImmediate(\b0111010, \b00),
   SLM |-> ThreeRegisters(\b0101010, \b0000),
   SMP |-> SetProtection(\b1010010),
   SR |-> ThreeRegisters(\b0101001, \b0000),
   SRI |-> WithImmediate(\b0111001, \b00),
   SRIM |-> WithImmediate(\b0111011, \b00)]

InstructionsSRMtoZEW ==
  [SRM |-> ThreeRegisters(\b0101011, \b0000),
   STS |-> Store(\b1011000),
   STT |-> Store(\b1011010),
   STW |-> Store(\b1011001),
   WT |-> Plain(18, \b101000000010000000),
   XR |-> ThreeRegisters(\b0011100, \b0000),
   XRI |-> WithImmediate(\b0011100, \b01),
   XRM |-> ThreeRegisters(\b0011110, \b0000),
   ZES |-> Extend(\b101000001001),
   ZEW |-> Extend(\b101000001010)]


(* @@ of the TLC module, of which the provers have no definition.          *)
Over(f, g) == [x \in (DOMAIN f) \cup DOMAIN g |-> IF x \in DOMAIN f THEN f[x] ELSE g[x]]

Instructions ==
  Over(InstructionsA, Over(InstructionsBC, Over(InstructionsDE, Over(InstructionsFtoL,
  Over(InstructionsMD, Over(InstructionsMHtoMU, Over(InstructionsNO, Over(InstructionsR,
  Over(InstructionsSAtoSBI, Over(InstructionsSBIMtoSRIM, InstructionsSRMtoZEW))))))))))

(* The conditions of a branch, by the names of their constants.            *)
Conditions ==
  [N |-> 0, E |-> 1, L |-> 2, LE |-> 3, G |-> 4, GE |-> 5, NO |-> 6, O |-> 7,
   NS |-> 8, S |-> 9, SL |-> 10, SLE |-> 11, SG |-> 12, SGE |-> 13, ALWAYS |-> 15]

(* The function that is defined later under the name of a constant takes   *)
(* its place: a condition of that name is no number any more.              *)
Shadowed(condition) == condition \in DOMAIN Instructions

----------------------------------------------------------------------------
(* Assembling.                                                             *)

BitLength(n) == CHOOSE k \in 1 .. 30 : n < 2^k /\ (k = 1 \/ n >= 2^(k - 1))
Digits(n) == LET k == BitLength(n) IN [i \in 1 .. k |-> (n \div 2^(k - i)) % 2]

(* bin(n)[2:]: of "-0b11" it leaves "b11".                                 *)
Bin(n) == IF n < 0 THEN <<LetterB>> \o Digits(-n) ELSE Digits(n)

Zeros(n) == [i \in 1 .. n |-> 0]
LastOf(s, width) == IF Len(s) <= width THEN s ELSE SubSeq(s, Len(s) - width + 1, Len(s))

Padded(n, width) == LastOf(Zeros(width) \o Bin(n), width)
(* The negative number is made positive and 2^width taken from it, so that *)
(* what is cut to the width is as long only down to half of -2^width.      *)
Complement(n, width) == LastOf(Bin(-n - 2^width), width)

PartBits(part, args) ==
  CASE part.kind = "fixed"     -> Padded(part.value, part.width)
    [] part.kind = "condition" -> Padded(Conditions[args.Condition], part.width)
    [] part.kind = "unsigned"  -> Padded(args[part.name], part.width)
    [] part.kind = "signed"    -> IF args[part.name] < 0
                                  THEN Complement(args[part.name], part.width)
                                  ELSE Padded(args[part.name], part.width)

Code(hex) == [result |-> "code", hex |-> hex]
(* The text that the caller takes for code, and an exception.              *)
Message == [result |-> "message", hex |-> <<>>]
Raises  == [result |-> "raises", hex |-> <<>>]

(* int(chunk, 2) takes "0b01", and no other string with a letter.          *)
Readable(chunk) ==
  \/ \A i \in DOMAIN chunk : chunk[i] # LetterB
  \/ Len(chunk) > 2 /\ chunk[1] = 0 /\ chunk[2] = LetterB
Number(chunk) ==
  LET upTo[i \in 0 .. Len(chunk)] ==
        CASE i = 0                      -> 0
          [] i > 0 /\ chunk[i] = LetterB -> upTo[i - 1]
          [] OTHER                        -> 2 * upTo[i - 1] + chunk[i]
  IN  upTo[Len(chunk)]

(* What does not divide by four bits goes into the first digit.            *)
Chunks(bits) ==
  LET first == Len(bits) % 4
  IN  <<SubSeq(bits, 1, first)>>
        \o [i \in 1 .. Len(bits) \div 4 |-> SubSeq(bits, first + 4 * i - 3, first + 4 * i)]

(* Mutant: a length that is no number of words is refused.                 *)
Bin2HexOfWords(bits) ==
  IF Len(bits) \notin {54, 27, 18} THEN Message
  ELSE IF \E i \in DOMAIN Chunks(bits) : ~ Readable(Chunks(bits)[i]) THEN Raises
  ELSE Code([i \in DOMAIN Chunks(bits) |-> Number(Chunks(bits)[i])])
Bin2Hex(bits) ==
  IF Len(bits) \notin {54, 27, 17, 18} THEN Message
  ELSE IF \E i \in DOMAIN Chunks(bits) : ~ Readable(Chunks(bits)[i]) THEN Raises
  ELSE Code([i \in DOMAIN Chunks(bits) |-> Number(Chunks(bits)[i])])

(* A call of the function of that name.  args has a value for each of the  *)
(* parts that are not fixed.                                               *)
Assemble(name, args) ==
  LET layout == Instructions[name]
      fails(part) == \/ part.kind = "unbound"
                     \/ part.kind = "condition" /\ Shadowed(args.Condition)
  IN  IF \E i \in DOMAIN layout : fails(layout[i]) THEN Raises
      ELSE Bin2Hex(FlattenSeq([i \in DOMAIN layout |-> PartBits(layout[i], args)]))

----------------------------------------------------------------------------
(* Reading an instruction back.  A machine word has nine bits, and an      *)
(* instruction is two, three or six of them.                               *)

WordBits(hex) ==
  LET width == CASE Len(hex) = 5 -> 18 [] Len(hex) = 7 -> 27 [] Len(hex) = 14 -> 54
  IN  LastOf(FlattenSeq([i \in DOMAIN hex |-> Padded(hex[i], 4)]), width)

(* The bits that tell an instruction, and AnyBit for those that depend on  *)
(* its arguments.                                                          *)
AnyBit == 3
Mask(layout) ==
  FlattenSeq([i \in DOMAIN layout |->
    IF layout[i].kind = "fixed" THEN Padded(layout[i].value, layout[i].width)
    ELSE [j \in 1 .. layout[i].width |-> AnyBit]])
Masks == [name \in DOMAIN Instructions |-> Mask(Instructions[name])]

Alike(m, n) ==
  \A i \in DOMAIN m \cap DOMAIN n : m[i] = n[i] \/ AnyBit \in {m[i], n[i]}

(* The value of the part of that name in the bits of an instruction.       *)
PartIn(layout, name, bits) ==
  LET start[i \in 1 .. Len(layout)] ==
        IF i = 1 THEN 1 ELSE start[i - 1] + layout[i - 1].width
      at == CHOOSE i \in DOMAIN layout : layout[i].name = name
  IN  Number(SubSeq(bits, start[at], start[at] + layout[at].width - 1))

=============================================================================
