----------------------------- MODULE Assembler ------------------------------
(***************************************************************************)
(* Calls of the functions of scripts/rubix/cLEMENCy.py: any of them, with  *)
(* arguments at the ends of what their parts of the instruction hold, and  *)
(* with any numbers in between.                                            *)
(***************************************************************************)
EXTENDS Clemency

CONSTANT Numbers    \* what the arguments may be besides the ends
ASSUME NumbersAssumption == Numbers \subseteq Int

VARIABLES call,     \* the function called last, and its arguments
          returned  \* what it returned

callVars == <<call, returned>>

NoCall == [name |-> "none", args |-> <<>>]

(* What fits in a part: as a number, and as a complement where the         *)
(* function takes negative numbers.                                        *)
Fitting(part) ==
  LET limit == 2^part.width
  IN  CASE part.kind = "condition" -> DOMAIN Conditions
        [] part.kind = "signed" ->
             ({-(limit \div 2), -1, 0, 1, limit \div 2 - 1, limit - 1} \cup Numbers)
               \cap (-(limit \div 2) .. limit - 1)
        [] OTHER -> ({0, 1, limit - 1} \cup Numbers) \cap (0 .. limit - 1)

Arguments(layout) ==
  LET upTo[i \in 0 .. Len(layout)] ==
        IF i = 0 THEN {<<>>}
        ELSE IF layout[i].kind = "fixed" THEN upTo[i - 1]
        ELSE {Over([name \in {layout[i].name} |-> value], args) :
                value \in Fitting(layout[i]), args \in upTo[i - 1]}
  IN  upTo[Len(layout)]

----------------------------------------------------------------------------

InitCall == call = NoCall /\ returned = Message

(* The library keeps nothing between calls, so that one call is enough.    *)
Invoke(name, args) ==
  /\ call = NoCall
  /\ call' = [name |-> name, args |-> args]
  /\ returned' = Assemble(name, args)

NextCall == \E name \in DOMAIN Instructions :
              \E args \in Arguments(Instructions[name]) : Invoke(name, args)

AssemblerSpec == InitCall /\ [][NextCall]_callVars

----------------------------------------------------------------------------

(* Functions whose lengths Bin2Hex does not know, and loads, whose name    *)
(* for the register count is not the parameter's.                          *)
NeverCode == {"BR", "BRA", "BRR", "CAA", "CAR", "LDS", "LDT", "LDW"}
(* Seventeen bits, which fill no two words.                                *)
Misread == {"DBRK"}

(* Arguments that fit are assembled: every instruction comes out as code   *)
(* for all of them, down to half of a complement, but the eight that never *)
(* do, and those on the condition SL, whose constant is replaced by the    *)
(* instruction of that name when cLEMENCy.py is loaded.                    *)
FittingIsAssembled ==
  call # NoCall =>
    (returned.result = "code"
      <=> /\ call.name \notin NeverCode
          /\ "Condition" \in DOMAIN call.args => call.args.Condition # "SL")

Carries(layout, bits, args) ==
  \A i \in DOMAIN layout : layout[i].kind # "fixed" =>
    PartIn(layout, layout[i].name, bits)
      = IF layout[i].kind = "condition" THEN Conditions[args.Condition]
        ELSE args[layout[i].name] % 2^layout[i].width

(* Code says what was asked for: in the words it fills, the instruction    *)
(* and its arguments can be read, and no other instruction can, nor one    *)
(* that is the beginning of them or that they are the beginning of.  This  *)
(* is about over a hundred functions copied from each other by hand.       *)
CodeSaysInstruction ==
  (returned.result = "code" /\ call.name \notin Misread) =>
    LET bits == WordBits(returned.hex)
    IN  /\ Len(bits) = Len(Masks[call.name])
        /\ {name \in DOMAIN Instructions : Alike(Masks[name], bits)} = {call.name}
        /\ Carries(Instructions[call.name], bits, call.args)
=============================================================================
