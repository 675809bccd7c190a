------------------------------- MODULE Rubix --------------------------------
(***************************************************************************)
(* scripts/rubix/availability: one check of a team's rubix.  The service   *)
(* takes a page of code for the cLEMENCy machine, scrambles a cube with    *)
(* the first word of it, and runs it for who solves the cube.  The check   *)
(* composes a program at random whose output it knows, plays the moves,    *)
(* and compares.  Its exit status becomes that of the availability check.  *)
(*                                                                         *)
(* The service and its machine are external; of them there is here what    *)
(* the check relies on.  Numbers of the machine have 27 bits, and a word   *)
(* of nine is the least it addresses.                                      *)
(***************************************************************************)
EXTENDS Clemency

CONSTANTS
  Echoes,      \* <<count, character>> that Test_Echo may draw
  Sums,        \* <<operation, first, second>> that Test_Math may draw
  Draws,       \* arguments that RandomInstruction may draw
  Solution     \* number of moves, 30 in the code

VARIABLES
  test, job,               \* the test, and what it draws
  at,                      \* how far its composition is
  code,                    \* the instructions composed
  available, countSet,     \* AvailableInstructions, OutputCountSet
  page,                    \* the words to send, or none
  solution,                \* what the moves are generated from
  phase,                   \* where the check is with its service
  move, replied,           \* moves sent, and how many the service answered
  exit, alarmed,           \* the exit status, and whether the alarm gave it
  machine,                 \* the service's machine
  wire,                    \* what the service has said and is not read
  closed,                  \* whether it has closed the connection
  faulty, behind           \* history: it has said something wrong; something
                           \* it said was left unread when it was next heard

compose == <<test, job, at, code, available, countSet>>
sent == <<page, solution>>
service == <<machine, wire, replied, closed, faulty>>
outcome == <<exit, alarmed>>
vars == <<compose, sent, phase, move, outcome, service, behind>>

Running == 2   \* no exit status of the check

OutputBufAddr   == 81984   \* 0x14040, the upper 17 bits of an address
OutputCountAddr == 81992   \* 0x14048

----------------------------------------------------------------------------
(* Calls of the assembler, as they are made here.                          *)

Call(name, args) == [name |-> name, args |-> args]
Three(name, rA, rB, rC) == Call(name, [rA |-> rA, rB |-> rB, rC |-> rC, UF |-> 1])
Two(name, rA, rB)       == Call(name, [rA |-> rA, rB |-> rB, UF |-> 1])
With(name, rA, rB, n)   == Call(name, [rA |-> rA, rB |-> rB, Immediate |-> n, UF |-> 1])
Move(name, rA, n)       == Call(name, [rA |-> rA, Immediate |-> n])
Stores(name, rA, rB)    ==
  Call(name, [rA |-> rA, rB |-> rB, RegCount |-> 0, AdjustRb |-> 0, MemOffset |-> 0])
Back(condition, offset) == Call("B", [Condition |-> condition, Offset |-> offset])
Halt                    == Call("HT", <<>>)

(* One of 32 instructions on registers that no test uses.                  *)
DrawnThree == {"AD", "ADC", "AN", "MU", "MUS", "OR", "RL", "RR", "SA", "SB", "SL", "SR", "XR"}
DrawnWith  == {"ADCI", "ADI", "ANI", "MUI", "ORI", "RLI", "RRI", "SAI", "SBI", "SLI", "SRI", "XRI"}
DrawnTwo   == {"CM", "NG", "NT"}
DrawnMove  == {"MH", "ML", "MS"}
RandomInstruction(draw) ==
  CASE draw.name \in DrawnThree -> Three(draw.name, draw.rA, draw.rB, draw.rC)
    [] draw.name \in DrawnWith  -> With(draw.name, draw.rA, draw.rB, draw.Immediate)
    [] draw.name \in DrawnTwo   -> Two(draw.name, draw.rA, draw.rB)
    [] draw.name = "CMI"        -> Move(draw.name, draw.rA, draw.Immediate)
    [] draw.name \in DrawnMove  -> Move(draw.name, draw.rA, draw.Immediate17)

AvailableRegisters == 15 .. 28

(* What randint and choice return.                                         *)
ASSUME DrawsAssumption ==
  Draws \subseteq [name : DrawnThree \cup DrawnWith \cup DrawnTwo \cup {"CMI"} \cup DrawnMove,
                  rA : AvailableRegisters, rB : AvailableRegisters, rC : AvailableRegisters,
                  Immediate : 0 .. 127, Immediate17 : 0 .. 2^17 - 1]
ASSUME JobsAssumption ==
  /\ Echoes \subseteq (1 .. 20) \X (33 .. 126)
  /\ Sums \subseteq {"+", "-", "*", "/"} \X (1 .. 127) \X (1 .. 127)
ASSUME SolutionAssumption == Solution \in Nat \ {0}

----------------------------------------------------------------------------
(* What the tests expect to be printed.                                    *)

Output ==
  LET x == job[2]
      y == job[3]
  IN  CASE job[1] = "+" -> x + y
        [] job[1] = "-" -> IF x < y THEN y - x ELSE x - y
        [] job[1] = "*" -> x * y
        [] job[1] = "/" -> x \div y

(* Decimal digits as characters, the last one first.                       *)
Reversed(n) ==
  LET length == CHOOSE k \in 1 .. 9 : n < 10^k /\ (k = 1 \/ n >= 10^(k - 1))
  IN  [i \in 1 .. length |-> 48 + ((n \div 10^(i - 1)) % 10)]

ExpectedResponse ==
  IF test = "echo" THEN [i \in 1 .. job[1] |-> job[2]] ELSE Reversed(Output)
NumChars == Len(ExpectedResponse)

(* The first operand: Test_Math subtracts the smaller from the larger.     *)
Input1 == IF job[1] = "-" /\ job[2] < job[3] THEN job[3] ELSE job[2]
Input2 == IF job[1] = "-" /\ job[2] < job[3] THEN job[2] ELSE job[3]

----------------------------------------------------------------------------
(* The composition, part by part.                                          *)

SetCount == <<Move("ML", 2, 0), Move("MH", 2, OutputCountAddr)>>

SetUps ==
  LET lower  == Move("ML", 1, 0)
      upper  == Move("MH", 1, OutputBufAddr)
      length == Move("ML", 3, NumChars)
      char   == Move("ML", 8, job[2])
  IN  IF test = "echo"
      THEN {<<lower, upper, char, length>>, <<char, lower, upper, length>>,
            <<lower, char, length, upper>>, <<length, lower, char, upper>>}
      ELSE {<<lower, upper, length, Move("ML", 7, Input1)>>}

Operation ==
  LET name == CASE job[1] = "+" -> "ADI" [] job[1] = "-" -> "SBI"
                [] job[1] = "*" -> "MUI" [] job[1] = "/" -> "DVI"
  IN  <<With(name, 8, 7, Input2)>>

(* Mutant: the branch lands behind the store.                              *)
EchoLoopShort == <<Stores("STS", 8, 1), With("ADI", 1, 1, 1), With("SBI", 3, 3, 1),
                   Back("N", -6)>>
EchoLoop == <<Stores("STS", 8, 1), With("ADI", 1, 1, 1), With("SBI", 3, 3, 1),
              Back("N", -12)>>
MathLoop == <<With("MDI", 9, 8, 10), With("ADI", 9, 9, 48), Stores("STS", 9, 1),
              With("ADI", 1, 1, 1), With("DVI", 8, 8, 10), Back("N", -18)>>

(* The count register is set here at the latest.                           *)
Finish == (IF countSet THEN <<>> ELSE SetCount) \o <<Move("ML", 3, NumChars), Stores("STT", 3, 2)>>

(* The parts, in the order of the functions.  Test_Math has no random      *)
(* instructions available, but goes past the same places.                  *)
Plan ==
  IF test = "echo"
  THEN <<"random", "count", "random", "set up", "random", "count", "random", "echo loop",
         "random", "finish", "random", "halt">>
  ELSE <<"random", "count", "random", "set up", "random", "count", "random", "operation",
         "math loop", "random", "finish", "random", "halt">>

Part(part) == exit = Running /\ phase = "compose" /\ Plan[at] = part

(* An instruction that does not assemble raises, where it is composed.      *)
Adds(calls) ==
  /\ \E instructions \in {[i \in DOMAIN calls |-> Assemble(calls[i].name, calls[i].args)]} :
       IF \E i \in DOMAIN instructions : instructions[i].result = "raises"
       THEN exit' = 1 /\ UNCHANGED code
       ELSE exit' = exit /\ code' = code \o [i \in DOMAIN instructions |-> instructions[i].hex]
  /\ at' = at + 1
  /\ UNCHANGED <<test, job, page, solution, phase, move, alarmed, service, behind>>

MaybeRandom ==
  /\ Part("random")
  /\ \/ Adds(<<>>) /\ UNCHANGED available
     \/ /\ available > 0 /\ available' = available - 1
        /\ \E draw \in Draws : Adds(<<RandomInstruction(draw)>>)
  /\ UNCHANGED countSet

(* Mutant: that the count register is set is not kept.                     *)
MaybeCountAgain ==
  /\ Part("count")
  /\ (Adds(<<>>) \/ Adds(SetCount))
  /\ UNCHANGED <<available, countSet>>

MaybeCount ==
  /\ Part("count")
  /\ \/ Adds(<<>>) /\ UNCHANGED countSet
     \/ ~ countSet /\ Adds(SetCount) /\ countSet' = TRUE
  /\ UNCHANGED available

SetUp ==
  /\ Part("set up")
  /\ \E order \in SetUps : Adds(order)
  /\ UNCHANGED <<available, countSet>>

Compute ==
  /\ \/ Part("operation") /\ Adds(Operation)
     \/ Part("echo loop") /\ Adds(EchoLoop)
     \/ Part("math loop") /\ Adds(MathLoop)
     \/ Part("finish")    /\ Adds(Finish)
  /\ UNCHANGED <<available, countSet>>

----------------------------------------------------------------------------
(* Into words, and out.                                                    *)

HexNumber(hex) ==
  LET upTo[i \in 0 .. Len(hex)] == IF i = 0 THEN 0 ELSE 16 * upTo[i - 1] + hex[i]
  IN  upTo[Len(hex)]
Word(hex, shift) == (HexNumber(hex) \div 2^shift) % 2^9

(* The words of one instruction.  Of the longest, only as many bits reach  *)
(* their places as the instructions with the least arguments need.         *)
Words(hex) ==
  CASE Len(hex) = 3 -> <<Word(hex, 0)>>
    [] Len(hex) = 5 -> <<Word(hex, 0), Word(hex, 9)>>
    [] Len(hex) = 7 -> <<Word(hex, 9), Word(hex, 18), Word(hex, 0)>>
    [] Len(hex) = 14 ->
         LET first == SubSeq(hex, 1, 7)
             rest  == SubSeq(hex, 8, 14)
         IN  <<Word(first, 8), Word(first, 17), Word(first, 0),
               Word(rest, 8), Word(rest, 17), Word(rest, 0)>>

PageSize == 54
MakeSc(instructions) ==
  LET sc == FlattenSeq([i \in DOMAIN instructions |-> Words(instructions[i])])
  IN  sc \o [i \in 1 .. PageSize - Len(sc) |-> 0]

(* Mutant: the words are taken in the order they are sent.                 *)
SeedInOrder(sc) == sc[1] * 2^18 + sc[2] * 2^9 + sc[3]

(* The number that GenerateSolution takes the moves from.                  *)
Seed(sc) == sc[1] * 2^9 + sc[2] * 2^18 + sc[3]

(* HT, MakeSc and GenerateSolution.  A text that is no code, or too many   *)
(* words, end the check as if all was well.                                *)
Assembled ==
  /\ Part("halt")
  /\ LET whole == Append(code, Assemble(Halt.name, Halt.args).hex)
     IN  IF \/ \E i \in DOMAIN whole : Len(whole[i]) \notin {3, 5, 7, 14}
            \/ Len(MakeSc(whole)) > PageSize
         THEN exit' = 0 /\ UNCHANGED <<code, sent, phase>>
         ELSE /\ page' = MakeSc(whole) /\ solution' = Seed(page')
              /\ phase' = "greeting" /\ code' = <<>>
              /\ UNCHANGED exit
  /\ UNCHANGED <<test, job, at, available, countSet, move, alarmed, service, behind>>

----------------------------------------------------------------------------
(* The machine.  Three words are one number, the middle one first and the  *)
(* least one last; an instruction begins with the upper bits of the first. *)

Off == [state |-> "off", code |-> <<>>, pc |-> 0, zero |-> FALSE, reg |-> <<>>, mem |-> <<>>,
        scramble |-> 0, printed |-> <<>>]
(* The registers the tests use.                                            *)
Used == {1, 2, 3, 7, 8, 9}
Started(words) == [Off EXCEPT !.state = "on", !.code = words, !.reg = [r \in Used |-> 0]]

BitsOf == [word \in 0 .. 2^9 - 1 |-> Padded(word, 9)]
CodeWord(i) == IF i < Len(machine.code) THEN machine.code[i + 1] ELSE 0
Fetched(pc) == FlattenSeq([i \in 1 .. 6 |-> BitsOf[CodeWord(pc + <<1, 0, 2, 4, 3, 5>>[i])]])

(* The instructions that a first word may begin.                           *)
Beginning == [word \in 0 .. 2^9 - 1 |->
                {name \in DOMAIN Instructions : Alike(Masks[name], BitsOf[word])}]

(* The instruction there, if there is one.                                 *)
Reading(layout, bits) ==
  [part \in {layout[i].name : i \in DOMAIN layout} \ {""} |-> PartIn(layout, part, bits)]
Decoded(pc) ==
  {[name |-> name, next |-> pc + (Len(Masks[name]) \div 9), args |-> Reading(Instructions[name], Fetched(pc))] :
     name \in {name \in Beginning[CodeWord(pc + 1)] : pc < PageSize /\ Alike(Masks[name], Fetched(pc))}}

Offset(n) == IF n < 2^16 THEN n ELSE n - 2^17

(* What the instruction leaves in its first register.                      *)
Computed(name, a, b, n) ==
  CASE name = "ML"  -> n
    [] name = "MH"  -> n * 2^10 + (a % 2^10)
    [] name = "ADI" -> (b + n) % 2^27
    [] name = "SBI" -> (b - n) % 2^27
    [] name = "MUI" -> (b * n) % 2^27
    [] name = "DVI" -> b \div n
    [] name = "MDI" -> b % n
Arithmetic == {"ADI", "SBI", "MUI", "DVI", "MDI"}

Stored(name, a) == IF name = "STS" THEN a % 2^9 ELSE a

(* One instruction.  Those on other registers leave these alone, and any   *)
(* flags behind; the condition N is that the last result was not zero.     *)
Execute ==
  /\ machine.state = "on"
  /\ IF Decoded(machine.pc) = {} THEN machine' = [machine EXCEPT !.state = "trapped"]
     ELSE \E instruction \in Decoded(machine.pc) :
       LET name == instruction.name
           args == instruction.args
           reg  == machine.reg
           then == [machine EXCEPT !.pc = instruction.next]
       IN  \/ name = "HT" /\ machine' = [machine EXCEPT !.state = "halted"]
           \/ /\ name = "B" /\ args.Condition = Conditions.N
              /\ machine' = IF machine.zero THEN then ELSE [machine EXCEPT !.pc = @ + Offset(args.Offset)]
           \/ /\ name \in {"STS", "STT"} /\ {args.rA, args.rB} \subseteq Used
              /\ machine' = [then EXCEPT !.mem = Over([address \in {reg[args.rB]} |-> Stored(name, reg[args.rA])], @)]
           \/ /\ name \in {"ML", "MH"} /\ args.rA \in Used
              /\ machine' = [then EXCEPT !.reg[args.rA] = Computed(name, @, 0, args.Immediate)]
           \/ /\ name \in Arithmetic /\ {args.rA, args.rB} \subseteq Used
              /\ \E result \in {Computed(name, 0, reg[args.rB], args.Immediate)} :
                   machine' = [then EXCEPT !.zero = (result = 0), !.reg[args.rA] = result]
           \/ /\ name \notin {"HT", "B"} /\ args.rA \in AvailableRegisters
              /\ \E zero \in BOOLEAN : machine' = [then EXCEPT !.zero = zero]
  /\ UNCHANGED <<compose, sent, phase, move, outcome, wire, replied, closed, faulty, behind>>

(* The output, of the length that is stored behind its buffer.             *)
Printed ==
  LET address == OutputCountAddr * 2^10
      cell(a) == IF a \in DOMAIN machine.mem THEN machine.mem[a] ELSE 0
  IN  [i \in 1 .. cell(address) |-> cell(OutputBufAddr * 2^10 + i - 1)]

----------------------------------------------------------------------------
(* The service.                                                            *)

Says(kind) == [kind |-> kind, text |-> <<>>]

(* The cube is scrambled with the first word of the code, and what is      *)
(* shown of it comes in one piece or in two.                               *)
ShowCube ==
  /\ machine.state = "halted"
  /\ machine' = [Off EXCEPT !.state = "shown", !.printed = Printed,
                            !.scramble = Number(SubSeq(Fetched(0), 1, 27))]
  /\ \E pieces \in 1 .. 2 : wire' = wire \o [i \in 1 .. pieces |-> Says("cube")]
  /\ UNCHANGED <<compose, sent, phase, move, outcome, replied, closed, faulty, behind>>

RightReply ==
  IF replied + 1 < Solution THEN Says("prompt")
  ELSE IF solution = machine.scramble THEN [kind |-> "solved", text |-> machine.printed]
  ELSE Says("failed")

Reply(message) ==
  /\ ~ closed /\ machine.state = "shown" /\ replied < move
  /\ replied' = replied + 1 /\ wire' = Append(wire, message)
  /\ faulty' = (faulty \/ message # RightReply)
  /\ UNCHANGED <<compose, sent, phase, move, outcome, machine, closed, behind>>

HangUp ==
  /\ ~ closed /\ phase # "compose" /\ closed' = TRUE /\ faulty' = TRUE
  /\ UNCHANGED <<compose, sent, phase, move, outcome, machine, wire, replied, behind>>

----------------------------------------------------------------------------
(* The check, once its program is composed.                                *)

(* recv returns what there is, some of it at least, or nothing at the end. *)
Hears(n) ==
  /\ n \in 1 .. Len(wire) \/ (n = 0 /\ closed /\ wire = <<>>)
  /\ wire' = SubSeq(wire, n + 1, Len(wire))
  /\ behind' = (behind \/ n < Len(wire))
  /\ UNCHANGED <<replied, closed, faulty>>

(* A send to a closed connection may raise.                                *)
SendRaises == closed /\ exit' = 1

SendSc ==
  /\ exit = Running /\ phase = "greeting"
  /\ \E n \in 0 .. Len(wire) : Hears(n)
  /\ \/ SendRaises /\ UNCHANGED <<phase, page, machine>>
     \/ /\ phase' = "initial" /\ page' = <<>> /\ machine' = Started(page)
        /\ UNCHANGED exit
  /\ UNCHANGED <<compose, solution, move, alarmed>>

ReadInitial ==
  /\ exit = Running /\ phase = "initial"
  /\ \E n \in 0 .. Len(wire) : Hears(n)
  /\ phase' = "cube"
  /\ UNCHANGED <<compose, sent, move, outcome, machine>>

SendMove ==
  /\ exit = Running /\ phase = "cube"
  /\ \/ SendRaises /\ UNCHANGED <<phase, move>>
     \/ phase' = "reply" /\ move' = move + 1 /\ UNCHANGED exit
  /\ UNCHANGED <<compose, sent, alarmed, service, behind>>

(* A move refused ends the check well; a cube solved with the text behind  *)
(* it; and the last move without a word of that, badly.                    *)
Verdict(heard) ==
  LET kinds == {heard[i].kind : i \in DOMAIN heard}
  IN  IF kinds \cap {"invalid", "failed"} # {} THEN 0
      ELSE IF "solved" \in kinds
      THEN IF heard[Len(heard)] = [kind |-> "solved", text |-> ExpectedResponse] THEN 0 ELSE -1
      ELSE IF move = Solution THEN -1
      ELSE Running

ReadReply ==
  /\ exit = Running /\ phase = "reply"
  /\ \E n \in 0 .. Len(wire) : Hears(n) /\ exit' = Verdict(SubSeq(wire, 1, n))
  /\ phase' = "cube"
  /\ UNCHANGED <<compose, sent, move, alarmed, machine>>

Alarm ==
  /\ exit = Running /\ phase # "compose" /\ exit' = -1 /\ alarmed' = TRUE
  /\ UNCHANGED <<compose, sent, phase, move, service, behind>>

----------------------------------------------------------------------------

Init ==
  /\ \/ test = "echo" /\ job \in Echoes /\ available = 3
     \/ test = "math" /\ job \in Sums /\ available = 0
  /\ at = 1 /\ code = <<>> /\ countSet = FALSE
  /\ page = <<>> /\ solution = 0 /\ phase = "compose" /\ move = 0 /\ replied = 0
  /\ exit = Running /\ alarmed = FALSE
  /\ machine = Off /\ wire = <<Says("greeting")>> /\ closed = FALSE
  /\ faulty = FALSE /\ behind = FALSE

Next ==
  \/ MaybeRandom \/ MaybeCount \/ SetUp \/ Compute \/ Assembled
  \/ exit = Running /\ (Execute \/ ShowCube \/ HangUp)
  \/ exit = Running /\ (Reply(RightReply) \/ \E kind \in {"prompt", "invalid", "failed", "solved"} : Reply(Says(kind)))
  \/ SendSc \/ ReadInitial \/ SendMove \/ ReadReply \/ Alarm

Spec == Init /\ [][Next]_vars

----------------------------------------------------------------------------

(* Whatever the order in which a program is composed, and whatever random  *)
(* instructions are strewn into it, the machine prints what the test       *)
(* expects: the branches land where their loops begin, the registers hold  *)
(* what the loops need, and nothing strewn in touches them.                *)
PrintsExpected ==
  /\ machine.state # "trapped"
  /\ machine.state = "halted" => Printed = ExpectedResponse

(* Every program is sent: none is longer than the page or has an           *)
(* instruction that does not assemble, which would end the check as if the *)
(* service had passed it.                                                  *)
ProgramsFit == (exit # Running /\ ~ alarmed) => phase # "compose"

(* A service that does all it should finds its cube solved by the moves of  *)
(* the check, which come from the code it was sent, and is not failed,     *)
(* unless time runs out or the check, which reads once for each move, falls *)
(* behind what the service has said.                                       *)
WorkingServiceIsUp ==
  ~ faulty => /\ \A i \in DOMAIN wire : wire[i].kind # "failed"
              /\ (exit # Running /\ ~ behind /\ ~ alarmed) => exit = 0
=============================================================================
