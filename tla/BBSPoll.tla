------------------------------ MODULE BBSPoll -------------------------------
(***************************************************************************)
(* scripts/legitbbs/legitbbs-poller.py: one poll of a team's bulletin      *)
(* board.  The poller waits for the board's menu, asks one question, says  *)
(* yes to whatever is asked of it, and passes the board when it reads the  *)
(* answer.  Its exit status becomes the status of the availability check.  *)
(*                                                                         *)
(* The board is the team's: it says what it likes, a line at a time, the   *)
(* answer included, asked or not.  The connection delivers what was said   *)
(* in order, and in pieces of any kind.                                    *)
(***************************************************************************)
EXTENDS NineBit, FiniteSets

CONSTANTS
  Lines,            \* what the board may say: texts that end in a newline
  Answers,          \* what the poller may wait for
  MaxLines,         \* bound on what the board says
  TornAfter,        \* bytes of a line after which a delivery may end
  MaxTransactions   \* 1000 in the code

VARIABLES
  state, passed, transactions,   \* the poller's
  answer,     \* qa[1]
  exit,       \* its exit status, or Running
  stdin,      \* whether there is something to read, or its end
  wire, cut,  \* lines on their way, and how much of the first was delivered
  said,       \* how many lines the board has said
  closed,     \* whether it has closed the connection
  shown,      \* history: it was told the answer, in a piece of whole lines
  garbled     \* history: it was delivered a piece that it cannot read as said

vars == <<state, passed, transactions, answer, exit, stdin, wire, cut, said, closed, shown, garbled>>
board == <<answer, stdin, said, closed>>

ASSUME LinesAreLines ==
  \A line \in Lines : /\ line \in Seq(0 .. 255) /\ line # <<>>
                      /\ \A i \in DOMAIN line : line[i] = NewLine <=> i = Len(line)
ASSUME AnswersAreTexts == Answers \subseteq Seq(0 .. 255)
ASSUME BoundsAreNumbers == MaxLines \in Nat /\ TornAfter \subseteq Nat

Running == 2   \* no exit status of the poller
Timeout == -1

YIBM == <<89, 73, 66, 77>>
QuestionMark == <<63>>

Init ==
  /\ state = "connected" /\ passed = FALSE /\ transactions = 0
  /\ answer \in Answers
  /\ exit = Running
  /\ stdin \in {"quiet", "ready"}
  /\ wire = <<>> /\ cut = 0 /\ said = 0
  /\ closed = FALSE /\ shown = FALSE /\ garbled = FALSE

----------------------------------------------------------------------------
(* The board and the connection.                                           *)

Say(line) ==
  /\ ~ closed /\ said < MaxLines
  /\ wire' = Append(wire, line) /\ said' = said + 1
  /\ UNCHANGED <<state, passed, transactions, answer, exit, stdin, cut, closed, shown, garbled>>

HangUp ==
  /\ ~ closed /\ closed' = TRUE
  /\ UNCHANGED <<state, passed, transactions, answer, exit, stdin, wire, cut, said, shown, garbled>>

Encoded(lines) == FlattenSeq([i \in DOMAIN lines |-> Data_8_to_9(lines[i])])

(* A delivery is so many whole lines and so many bytes of the next one.    *)
Piece(lines, from, whole, torn) ==
  SubSeq(Encoded(lines), from + 1, Len(Encoded(SubSeq(lines, 1, whole))) + torn)
Pieces(lines, from) ==
  {d \in (0 .. Len(lines)) \X ({0} \cup TornAfter) :
     /\ d[2] > 0 => d[1] < Len(lines) /\ d[2] < Len(Data_8_to_9(lines[d[1] + 1]))
     /\ Piece(lines, from, d[1], d[2]) # <<>>}
Delivered(whole, torn) == Piece(wire, cut, whole, torn)

(* The decoder skips a byte too many behind a line of a multiple of eight. *)
Aligned(lines) == \A i \in 1 .. Len(lines) - 1 : Len(lines[i]) % 8 # 0

(* A piece that reads as the lines that were said.                         *)
Readable(whole, torn) == cut = 0 /\ torn = 0 /\ Aligned(SubSeq(wire, 1, whole))

(* Lines that tell the answer, and ask nothing of the poller.              *)
Told(lines) ==
  LET text == FlattenSeq(lines) IN Mentions(text, answer) /\ ~ Mentions(text, QuestionMark)

----------------------------------------------------------------------------
(* The poller.                                                             *)

(* Mutant: the menu is looked for first.                                   *)
recvhookMenuFirst(s, text) ==
  CASE Mentions(text, YIBM) -> "menu"
    [] ~ Mentions(text, YIBM) /\ Mentions(text, QuestionMark) -> "needsy"
    [] OTHER -> IF Mentions(text, answer) THEN "passed" ELSE s
recvhook(s, text) ==
  CASE Mentions(text, QuestionMark) -> "needsy"
    [] ~ Mentions(text, QuestionMark) /\ Mentions(text, answer) -> "passed"
    [] OTHER -> IF Mentions(text, YIBM) THEN "menu" ELSE s

(* The state after sending; what is sent is told by the state before.      *)
sendhook(s) ==
  CASE s = "needsy" -> "senty"
    [] s = "menu"   -> "queried"
    [] OTHER        -> s
Sends(s) == s \in {"needsy", "menu", "passed"}

(* The loop is left by a break, with the status that passed asks for.      *)
Left(hasPassed) == IF hasPassed THEN 0 ELSE 1

(* Only the standard input is ready: an iteration that reads nothing.      *)
Idle ==
  /\ exit = Running /\ stdin = "ready"
  /\ transactions' = transactions + 1
  /\ passed' = (passed \/ state = "passed")
  /\ exit' = IF transactions' > MaxTransactions THEN Left(passed') ELSE Running
  /\ UNCHANGED <<state, wire, cut, shown, garbled>>
  /\ UNCHANGED board

Receive(whole, torn) ==
  LET heard == recvhook(state, Data_9_to_8(Delivered(whole, torn)))
  IN  /\ exit = Running
      /\ transactions' = transactions + 1
      /\ passed' = (passed \/ "passed" \in {state, heard})
      /\ wire' = SubSeq(wire, whole + 1, Len(wire)) /\ cut' = torn
      /\ shown' = (shown \/ (Readable(whole, torn) /\ Told(SubSeq(wire, 1, whole))))
      /\ garbled' = (garbled \/ ~ Readable(whole, torn))
      /\ state' = sendhook(heard)
      /\ \/ exit' = IF transactions' > MaxTransactions THEN Left(passed') ELSE Running
         \/ closed /\ Sends(heard) /\ exit' = Left(passed')   \* the send raises
      /\ UNCHANGED board

(* The end of the connection, or an error that a closed one raises.        *)
Disconnected ==
  /\ exit = Running /\ closed
  /\ transactions' = transactions + 1
  /\ passed' = (passed \/ state = "passed")
  /\ exit' = Left(passed')
  /\ UNCHANGED <<state, wire, cut, shown, garbled>>
  /\ UNCHANGED board

Alarm ==
  /\ exit = Running /\ exit' = Timeout
  /\ UNCHANGED <<state, passed, transactions, wire, cut, shown, garbled>>
  /\ UNCHANGED board

Next ==
  \/ \E line \in Lines : exit = Running /\ Say(line)
  \/ exit = Running /\ HangUp
  \/ Idle
  \/ \E d \in Pieces(wire, cut) : Receive(d[1], d[2])
  \/ Disconnected
  \/ Alarm

Spec == Init /\ [][Next]_vars

----------------------------------------------------------------------------

(* Whole lines read back as what was said exactly if none but the last has *)
(* a multiple of eight characters: after such a line Data_9_to_8 eats a    *)
(* byte of the next one, and what follows is read one bit off.  As the     *)
(* check of rubix reads them, they always do.                              *)
LinesReadBack ==
  cut = 0 =>
    /\ Data_9_to_8(Encoded(wire)) = FlattenSeq(wire) <=> Aligned(wire)
    /\ Data_9_to_8_New(Encoded(wire)) = FlattenSeq(wire)

(* However the poll ends short of the alarm -- an end of the connection,   *)
(* an error when sending, too many transactions, the standard input all    *)
(* the while ready or not -- the board passes if it has told the answer in *)
(* a piece that can be read as said and has no question mark, whatever it  *)
(* says before and after; and it passes on nothing else, unless a piece    *)
(* was torn, or shifted by a line of a multiple of eight characters.       *)
PassedIffShown ==
  exit \in {0, 1} => /\ shown => exit = 0
                     /\ exit = 0 => shown \/ garbled
=============================================================================
