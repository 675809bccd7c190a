# Scorebot, specified

TLA+ specifications of the scorebot of a capture-the-flag final: the service
that runs the rounds, the web that redeems tokens, the scoring, the threads that
put tokens on the teams' boxes and check them, the replacement of binaries, and
two of the scripts that check a service: the poll of a bulletin board, and a check
that has the service run a program it assembles.
They are written from the code in `src/`; TLC checks them on small games and
TLAPS proves the central ones for games of any size.

## The system

A *team* runs one *instance* of each *service* on its box. In every *round*
`bin/service` puts a fresh *token* on each instance; another team that reads it
redeems it on the web. When a token has expired, its owner loses *flags* to the
teams that redeemed it. A failed availability check costs flags too. What cannot
be split goes to `legitbs`, the organizers' team (here: the house), and is
shared among the teams that redeemed something in the round.

The parts meet in PostgreSQL, in Redis (announcements only) and on the boxes.
There are three kinds of actors: one `bin/service` process with its threads,
several web processes, and the operators (admin pages, scripts in `bin/`).

| Component | State it keeps | Operations | What is hard about it |
|---|---|---|---|
| Round life cycle: `bin/service`, `Round`, `Timer` | `rounds`, `timers`, the transaction | start, `commence!`, loop, `finalize!`, stop for the night; final calculation | dies anywhere; announces before it commits; the first round is outside any transaction |
| Redemption: `Redemption`, `RedemptionController` | `redemptions` | `redeem_for`: read the round, check, insert | races with the closing transaction and with itself |
| Token | `tokens` | create, deposit, expire, settle | the window of eligible rounds; a deposit may replace the key |
| Scoring: `RoundFinalizer`, `Availability`, `Token`, `TokenRedistributor`, `Flag` | `flags`, `captures`, `penalties` | one movement per failed check and redeemed token, redistribution | several charges on one team; every service redistributes all services |
| Deposits: `Round#commence!`, `ShellProcess` | queue, results, the process's working directory | take, chdir, run script, push, join, save | threads share what belongs to the process |
| Availability checks: `AvailabilityCheck` | `availabilities`, `timing_history`, cached services | schedule, wait, check legitbs's copy, check the rest, save | random waits, crash between services, cached service |
| Replacements: `Replacement`, two controllers | `replacements`, archive, box | upload, update, destroy | side effects before the row is accepted |
| Standings: `Team.as_standings_json` | none | rank | ties |
| State and events: `ServiceState`, `Event`, heartbeat, `bin/state_monitor` | last state in Redis | publish, subscribe | published and set apart, read and subscribed apart |
| Assembler: `scripts/rubix/cLEMENCy.py` | none | one function per instruction | 130 functions copied by hand; widths, signs and names |
| Rubix check: `scripts/rubix/availability` | its program, the moves sent | compose, assemble, send, solve, compare | random programs whose output must be known; one read for each move |
| Bulletin board poll: `scripts/legitbbs/legitbbs-poller.py` | state of the conversation | receive, answer, break, alarm | nine-bit characters; lines in pieces or together |
| Services admin | `services.enabled` | toggle | read at different moments of a round |
| Tickets, live CTF, dashboards, timers page, certificates | own tables or none | reads and single writes | nothing of note |
| Recalculation scripts in `bin/` | a copy of the database | replay `finalize!` | redemptions that were late are on time in the replay |

The checks' scripts are processes of their own: their exit status is all that the
scorebot takes from them (with a few lines of output). The services they talk to
are the teams', on a machine whose words have nine bits.

How the rest interacts: the service calls `commence!` and `finalize!`, `finalize!`
calls the finalizer of each enabled service, that one the settlement of checks
and tokens and the redistributor. The web touches the same tables at READ
COMMITTED, so each statement of the service sees what the web has committed by
then, and the web sees nothing of the closing transaction before its commit.

What makes each part correct is written next to its property below.

## The modules

| Module | Models | State and actions in the code |
|---|---|---|
| `RoundService` | round life cycle, redemption, toggles, final calculation | `pc`, `cur`, `todo`, `services`, `cands`: where `bin/service` is. `tx`: what its transaction has written and nobody sees. `web[p]`: the request of a web process. One action per statement that reads or writes something others change |
| `FlagLedger` | what scoring promises, abstractly | flags only change hands within a service; one holder pays, gainers gain alike, the rest goes to the house |
| `Scoring` | everything `finalize!` does to flags | rows of flags as counts. `FinalizeService` is `candidates`, `ProcessSpared`, `DistributeParking`, `DistributeEverywhere` the branches of a failed check, `ProcessToken` a redeemed token, `Redistribute` the last candidate. Implements `FlagLedger` |
| `Standings` | `Team.as_standings_json` | the block of its loop as an operator, folded over the scoreboard |
| `WorkerPool` | what the code expects of its thread pools, abstractly | a queue, what each worker holds, how often each item was done |
| `Deposits` | the deposits of `commence!` with `ShellProcess` | one action per critical section and per step of `chdir`/`popen`. `flag` is what the scripts leave on the boxes. Implements `WorkerPool` |
| `AvailabilityChecks` | scheduling and running a round's checks | `main` for the loop, `st[s]` for the thread of a service, `queue`/`busy`/`results` for its pool, rows of `availabilities` |
| `CheckSchedule` | the wait of `schedule!` | the average duration as a sum and a length |
| `Replacement` | uploads by teams and admins | `archive`, `install`, `write` are the steps of `before_save` and the insert or update. An update keeps the row it has loaded and writes by id what differs from it |
| `Clemency` | the instructions and the assembler of `cLEMENCy.py` | an instruction is its layout, a sequence of parts: fixed bits, registers, signed and unsigned numbers. `Assemble` is any of the functions, `Bin2Hex` the function of that name; `Masks` and `PartIn` read an instruction back |
| `Assembler` | one call of one of them | `call`, `returned`: the call and what it returned |
| `NineBit` | `Data_8_to_9`, `Data_9_to_8` and the reader of `rubix` | operators on sequences of characters, bytes and bits |
| `BBSPoll` | one run of the poller | `state`, `passed`, `transactions` as there; `Idle`, `Receive`, `Disconnected` are the ways through its loop. `Say`, `HangUp` and `Pieces` are the board and the connection |
| `Rubix` | one run of the check | `at` is the place in `Test_Echo` or `Test_Math`, whose parts are `MaybeRandom`, `MaybeCount`, `SetUp`, `Compute`; `Assembled` is `MakeSc` with `GenerateSolution`; then `SendSc`, `ReadInitial`, `SendMove`, `ReadReply`. `Execute`, `ShowCube`, `Reply` are the service |
| `RoundServiceProofs`, `ScoringProofs`, `AvailabilityChecksProofs`, `BBSPollProofs`, `AssemblerProofs`, `RubixProofs` | theorems about the module they are named after | `ScoringProofs` has those about `Standings`, `AvailabilityChecksProofs` those about `CheckSchedule`; `RubixProofs` builds on `AssemblerProofs` |
| `BoxProofs` | theorems about what is put on the teams' boxes | those about `Deposits`, its pool, and `Replacement` |
| `DataInduction` | what the others need of numbers, sequences and sums | induction, joined sequences, sums over finite sets |

The `MC` modules give the constants of the small games. Names follow the source;
a mutant (a definition that a bug would put in the place of the one below it) is
marked as such and used by no specification.

Abstractions worth knowing:

* Round ids have gaps in the database; the code only compares them and counts
  rows between them, so committed rounds are numbered from 1.
* Flags of one service are interchangeable, and which ones move is never looked
  at, so they are counted.
* `RoundService` settles tokens as *who was paid*, `Scoring` as *how many flags*.
  The redemptions that grow while `finalize!` runs are `redemptions` in the one
  and the argument of `Redistribute` and `ProcessToken` in the other.
* A check's outcome is left out of `AvailabilityChecks` (nothing there depends
  on it) and is arbitrary in `Scoring`.
* In `Replacement` one team's copy of one service is modelled: no other shares
  its box, archive or rows.
* Bits are sequences of 0 and 1: a program's instruction has up to 54, more than
  TLC's integers hold. The bits of Python's `bin` of a negative number are
  preceded by a letter, which is the third value of a bit.
* A deposit script is external: it writes a token into the flag file of its service
  on the box of the token's team, prints a key to replace it by, or does not; of
  its exit status only matters that there is one (it does not tell whether its
  `ssh` failed), or that the deposit raised.
* `CheckSchedule` counts in ticks, any number to the second. `Kernel#rand` of a
  number draws whole seconds below its whole part, and a fraction of a second when
  that part is 0 (`availability_check.rb:33`).
* The services of `Scoring` do not change while a round's end goes over them. The code
  reads them when `finalize!` begins and again in each pass of the redistributor
  (`token_redistributor.rb:10`): a service toggled in between is in some passes only.
  `RoundService` has the toggles and both reads, but no flags.
* The machine of `Rubix` is no emulator. It has the registers, words and
  instructions that the tests' programs use; those that are strewn in write
  registers the tests do not read, and may leave any flags behind. It takes three
  words for one number, the middle word first, which is the order in which
  `MakeSc` and `GenerateSolution` of the check put them.
* The service of `Rubix` prints an answer in one piece, and the cube in one or two.
* Texts are sequences of character codes in `BBSPoll`, because what is read
  depends on their lengths; the questions and answers are a few of them.
* Ruby is 2.4 (`Dockerfile:1`): a nested `Dir.chdir` of another thread warns and
  proceeds. Later versions raise.

## The runs

Every run is exhaustive for its bounds and takes from a second to about a minute
and a half. A run that is expected to be violated shows where the code departs
from its words.

| Run | Checks | Shows |
|---|---|---|
| `rounds` | `TypeOK`, `OneRoundOpen`, `RoundsEndWhole`, `SettledAfterExpiry`, `SettledOnce`, `PromptRedemptionPaid`, `BookedWithinLife`, `LoopRoundsCommence`; `RoundsEnd`, `AnnouncedRoundEnds`, `PromptRedemptionSettled` | a game of four rounds and the code's `Expiration`, with a crash anywhere, nights and the final calculation, one team redeeming all along. Rounds are ended once and whole; tokens are settled after they expire and once; who redeemed within a round is paid, and in the end is |
| `redeem_races` | `EnabledServicesSettled`, `OnTimeRedemptionShares` | two web processes redeem the same token while a round ends, the service dies, and one of two services is toggled: what was enabled when the end began is settled, who redeemed before it shares |
| `scoring` | `TypeOK`, `LossBounded`, `RemainderUnsplittable`, `PlaceCountsBetterTeams`, `LedgerSpec` | two services with up to two charges each, in any order; three teams of three flags, of which a charge takes at most two, so that the second charge finds a poor team |
| `deposits` | `SavedAsDeposited`, `PoolSpec`, `CommenceReturns` | two threads and three tokens of two services and two teams in every interleaving, with scripts that fail, replace the token, or run in the wrong directory: whatever token is in a flag file can be redeemed, unless its deposit raised |
| `checks` | `RefereePresent`, `CheckedOnce`, `WholeOrNothing`, `ScheduledRecorded`, `RoundsProceed` | two services, two threads each, two crashes and a toggle |
| `schedule` | `FittingChecksFit`, `LateByTheOverrun` | the constants of the code, eight lengths of what a round has left, four durations, four rounds, all in half seconds: a whole second left for the wait, half a second to either side of none, none |
| `replacement` | `ListedIsReal`, `BoxArchived` | two processes, four uploads over two rounds, updates of one row at once, failing copies, a process that dies |
| `assembler` | `FittingIsAssembled`, `CodeSaysInstruction` | all 132 functions, each part at the ends of what it holds and, with `Numbers`, at 5: which of them never make code and why, and that code says its instruction, its arguments, and nothing else |
| `bbs_poll` | `LinesReadBack`, `PassedIffShown` | a board with a menu, a prompt and an answer of several words or of one character, which it may say asked or not; up to three lines, cut and joined by the connection, which may end anywhere |
| `rubix` | `PrintsExpected`, `ProgramsFit`, `WorkingServiceIsUp` | both tests in every order of their parts, with up to three random instructions of two lengths; operands at the ends of a decimal digit and of seven bits; a service that says what it likes |
| `missed_share` | `EveryRedeemerShares` | violated, see below |
| `stray_deposit` | `RunsOwnScript` | violated |

### Why the bounds are enough

* *Rounds.* A token is settled `Expiration` + 1 rounds after its own, and
  `Expiration` is 2, as in the code: the fourth round settles the tokens of the
  first while the web redeems, and the three rounds of the final calculation
  those of the others, so that tokens of the opening round and of later ones are
  both settled in full. `redeem_races` asks nothing of settlements, and two
  rounds and an `Expiration` of 1 put a round's end into a token's life.
* *Crashes.* One crash can fall between any two steps, also of the restart. The
  service keeps nothing over a crash but the database, so that a second is like
  the first from another state; `checks` has two.
* *Redemptions.* A property of redemptions speaks of one and of the round's end that
  misses or meets it; the bounds are one and, where two requests race, two.
* *Teams and services.* Two services are enough for each to redistribute the
  other. Three teams are enough for two redeemers, for a poor team among others
  and for a tie with a third team above or below it.
* *The assembler.* A part's bits depend on its own argument only, so the ends of
  each part are enough; the combinations are checked all the same.
* *The board.* Three lines put a line before and after the one that matters. A line
  of eight characters, the case in which the decoder fails, is among them. Four
  transactions, for the 1000 of the code, may run out before the lines do.
* *The program.* Its length and its branches do not depend on how often its loops
  run: three characters loop, one does not. Of the random instructions only the
  length matters to the page and to the branches. Two moves, for the 30 of the
  code, are one before the last and the last.

### Fairness

`rounds`: the service's next step happens if it stays possible (`Serve`), and an
operator restarts it (`bin/service` is run by hand, and the game stops while it
is down); the round's and the day's clock advance; the final calculation is run;
a request that began is served to its end. Nobody has to redeem anything, and
nothing has to crash.
`deposits`: threads are scheduled and scripts end. Nothing makes a script end:
its `SIGALRM` handler only prints. A hung script stalls the round; the run says
that nothing else does.
`checks`: as both, for the threads of each service.
The other runs need none: their properties are about what can be reached.

## What is proved

For every set of teams, services, instances and processes, and every value of the
lifetime, the limits and the bounds; for every argument of the assembler and every
program that the check of `rubix` may draw. The assumptions are those of the modules:
instances are pairs of a team and a service, legitbs is not a participant,
lifetimes, limits and bounds are natural numbers, there are threads, the teams
and services of the scoring are finitely many, a line of the board ends in its
one newline, and answers are texts; what the check of `rubix` draws is in the ranges of
its `randint` and `choice` (`DrawsAssumption`, `JobsAssumption`), and the arguments of
the assembler are integers (`NumbersAssumption`). Every proof is from an inductive invariant
whose step lemma has one case for each action. TLC looked for a counterexample to
each of these properties before.

| Module | Theorem | Property |
|---|---|---|
| `RoundServiceProofs` | `TypeCorrect`, `OneRound` | `TypeOK`, `OneRoundOpen` |
| | `SettlementFollowsExpiry`, `SettlementIsOnce` | `SettledAfterExpiry`, `SettledOnce` |
| | `PromptlyBooked`, `PromptIsPaid` | `BookedWithinLife`, `PromptRedemptionPaid` |
| | `OnTimeShares`, `DueIsSettled` | `OnTimeRedemptionShares`, `EnabledServicesSettled` |
| | `EndsAreWhole`, `LoopRoundsHaveTokens` | `RoundsEndWhole`, `LoopRoundsCommence` |
| `ScoringProofs` | `NobodyOwesFlags`, `LossIsBounded` | `TypeOK`, `LossBounded` |
| | `NothingLeftToSplit` | `RemainderUnsplittable` |
| | `ScoringIsLedger` | `LedgerSpec` |
| | `PlacesCountBetterTeams` | `PlaceCountsBetterTeams` |
| `BoxProofs` | `ItemsInOnePlace`, `JoinedIsDone` | `OnePlace`, `DoneOnce` of the pool |
| | `DepositsSaved`, `DepositsArePool` | `SavedAsDeposited`, `PoolSpec` |
| | `ListingsAreReal`, `BoxIsArchived` | `ListedIsReal`, `BoxArchived` |
| `AvailabilityChecksProofs` | `NeverCheckedTwice`, `ChecksWhole` | `CheckedOnce`, `WholeOrNothing` |
| | `RefereeAlways`, `ScheduledAreRecorded` | `RefereePresent`, `ScheduledRecorded` |
| | `FittingFit`, `LatenessBounded` | `FittingChecksFit`, `LateByTheOverrun` |
| `BBSPollProofs` | `LinesAreReadBack`, `PassedAsShown` | `LinesReadBack`, `PassedIffShown` |
| `AssemblerProofs` | `EveryFittingCall`, `CodeIsRead` | `FittingIsAssembled`, `CodeSaysInstruction` of the assembler |
| `RubixProofs` | `EveryProgramFits` | `ProgramsFit` |
| | `ProgramsPrint`, `WorkingServicesPass` | `PrintsExpected`, `WorkingServiceIsUp` |

**Rounds.** None of the properties is inductive alone, for what the service does
next depends on where it is. The invariant is

    IInv == TypeOK /\ OneRoundOpen /\ Control /\ Settling

`Control` ties the program counter to the transaction: it is open exactly from
the round's end to the commit, candidates and services to process are left only
while it finalizes, and the next round fits the bound. `Settling` is what makes
settlements unique: each is of a token of the round that expires in the
settlement's round, and that round is finalized; those still in the transaction
are of the round being closed, and of no token that is still a candidate nor of a
service that is still to be processed. So two settlements of one token that is
not of the opening round are of the same round, since from the second round on
different rounds expire different rounds, and within one round a token is a
candidate once. That no round is finalized twice comes from `OneRoundOpen`: the
round the service closes is the one open round, through any crash. (The opening
round's tokens are settled in each of the rounds before the window is full, which
is why both properties leave them out.) Lemmas about `Current` and
`ExpiringRound` keep the maximum and the window out of the steps.

**Redemptions.** `LifeInv` relates each request to the rounds that have passed
since it began (`Requests`): the round it read is the latest of that time, and
once its checks are done, and unless a round has ended since, its token is in its
life. So a row that is not stale is booked to the round it is inserted in, which
is no later than the token's last, while a settlement that `PromptRedemptionPaid`
is about belongs to a later one: no prompt redemption follows the settlement that
should have paid it (`PaidIn`, for committed and uncommitted settlements). For
the remainder it is the other way round: what the closing transaction finds at
its start is there at every later read (`SharedIn`).

**Ends of rounds.** `EndInv` says what the transaction has already done for the
services it is done with (`Progress`), and so what a commit makes whole (`Whole`);
`Handing` is the same for the tokens of the next round. Tokens that come later
never expire in a round that is already finalized (`ExpiringKept`). `DueInv` is the
same for settlements alone and for any toggles, with the services that were enabled when
`finalize!` began in the place of all: an end that begins again after a crash
begins with those that are enabled then.

**Flags.** A movement of at most the payer's flags and at most the limit, in which
the teams that gain gain alike, keeps the types, the bound on losses and is the
ledger's (`MoveStep`); the branches of a check and a token are such movements.
That no flag is made or lost in one is a statement about a sum over all teams:
what the payer loses is the gain of each gainer times their number, and the rest
goes to the house (`MovedSum`). The redistribution moves flags of every service,
and is a movement in each.
After the redistribution in the pass of any service no service has a remainder
that could be split, and the last service has one, too (`SharedBetween`).

**Standings.** The loop of `as_standings_json` keeps a place, a count of rows and
the score before. `Knows` says what they are after any number of rows: the place
is one more than the rows above with a higher score, and the count is that of the
rows. A row's number is a bijection between the scoreboard and the teams, so that
rows with a higher score are as many as teams with one (`BoardPlaces`).

**Pools, checks, uploads.** The pool's invariant is that an item is in one place.
The deposits' adds that a token that no thread has worked on is in no flag file, and
that one that has is there, if at all, with the key and the digest of its row in
memory, unless its status is that of an exception (`FlagInv`): until a thread has
read what its script did, its token is in no flag file (`AtWorkUnflagged`).
Of a check's rows, the place of its thread says which there
are: none before it starts, legitbs's while the pool runs, all when it has saved
(`ThreadRows`). An upload past a step of `process_upload` has that step's result
(`UploadArchived`, `UploadInstalled`), and an update writes of a row's columns its
own or those that are there (`WrittenIsReal`), so that a binary that was never
installed is listed by neither; only when two updates are mixed may it be
listed for a round later than its own.

**Waits.** The two bounds on the wait of a check need no more than that the sum of
the history is a natural number and its length a positive one; the step is
arithmetic, a lemma about quotients (`Quotient`) and one about what is drawn below
them (`DrawnBelow`, which leaves less than a second to what is drawn below one).

**Lines.** What the encoder writes for some lines is, as bits, a 0 and the eight
bits of each character, and up to seven 0s behind each line (`LinesBitsAre`).
The decoder keeps a place in these bits and what it has read. Its place is not
determined by the number of characters read, for it leaves out what it takes for
padding; but by the characters themselves, and by which lines they end
(`InPlace`): it is the start of the next character as long as each line that it
has passed was one whose padding it eats right (`Lag` 0), and from then on at
least a byte late. One turn of its loop keeps this (`InPlaceStep`), and since the
padding is shorter than a character, the loop ends with the last one exactly if
it is never late (`ReadBack`); if it is, the last newline has been left behind
(`OnlyAlignedReadBack`). The theorem is about every sequence of lines, of any
number and length, and about both copies of the decoder.

**The poll.** A piece of whole lines that `LinesAreReadBack` speaks of is heard as
what was said: it sets the state to passed exactly if the lines mention the answer
and no question, or if it was passed already (`ReadableIsHeard`). So the flag and the
state follow what the board was seen to say, up to pieces that cannot be read
(`PassedInv`), and every way out of the loop turns the flag into the exit status.

**The assembler.** `Bin2Hex` asks for the number of bits first, and then reads each
digit, which only a `b` that is not the first character prevents. What the bits of
a layout are, part by part, is a sum of widths and what each part makes of its
argument (`PartIs`, `LayoutIs`): as many bits as it is wide whenever the argument fits,
down to half of a complement (`PaddedIs`, `ComplementIs`, over a table of powers of
two). The layouts are then gone through by their shape, from one part to seven, in
the eleven groups in which `Clemency` lists them, for their widths (`TotalOf`) and
the names of their arguments (`NamesOf`): a layout is of 18, 27 or 54 bits but for
`DBRK`, which `Bin2Hex` accepts, and the eight functions that never make code
(`InstructionsAre`). That a fitting call has an argument for each part, and of that
part's range, is an induction over the layout (`ArgumentsAre`). Layouts are joined
with `Over` and not with `@@` of the `TLC` module, of which the provers know nothing.

**Code is read.** The bits of an instruction come back from its hexadecimal digits
as they were (`WordsRead`), an argument from the bits of its part (`ArgumentsRead`, for
complements its remainder), and what a fixed part says is in the bits of whatever is
like the mask (`FixedTold`). Comparing each of the 132 masks with every other would
be some eight thousand cases, so instructions are told by a decoder: `Told` gives the
name that the first seven bits of a code, and then the two bits behind the operands or
a few more of the first, lead to. Whatever is like an instruction's mask is told to be
that instruction (`InstructionsTell`, by shapes and in the eleven groups again), so no
code is like two. Where code and mask are not equally long, a code of two words reaches
a mask of three only through its first eighteen bits, and no instruction of three
words begins like one of two (`NarrowOps`, `Met`).

**Programs fit.** An instruction of 18, 27 or 54 bits weighs two, three or six words
of the page (`Weight`), and a program what its instructions weigh together (`Weighs`).
Of what the check draws every call assembles, to a known weight (`CallMakes` and the
lemmas after it), so that each part of the composition has a cost (`Costs`): the count
register 6, the operands 12, a random instruction at most 3, an operation 3, the loops
15 and 21, the end 9 or, if the count register is not set yet, 15. The invariant,
`FitInv`, says that the words composed so far, those of the parts still to come and
three for each random instruction still available are at most 53: a part that is composed
moves its cost from the one to the other, and whether the count register is set
early or at the end must not count twice, which is what `CountLeft` is for. The halt,
two words, is the last of them, and the page has 54 (`HaltFits`): of each test the
longest program leaves one word free.

**Programs print.** While the check composes, what is known of the registers and of
the memory is a set of facts (`Knows`): that register 1 holds the buffer, that 7 holds
the input, that the text is written. Each part of the composition is a passage from
one such set to another (`Passage`, `LeadsTo`): a random instruction forgets nothing,
for it may only touch registers that the test does not use, and the loops are the
one passage that comes back on itself. `RouteInv` says that the code composed so far is
such a passage from knowing nothing, and that what `at` and `countSet` promise is
known (`Ready`): the parts of a step come in any order, so the facts are those of the
parts that are done. `PageInv` says that the page holds that passage, with a halt
behind it, that ends in knowing that the text and its length are in the output
(`Holding`). `MachineInv` is about the machine that is sent the page: its nine-bit
words are, instruction by instruction, the calls of the passage (`Laid`), and it
stands between two of them and knows what is known there, or is in a turn of a loop
(`Stands`), of which `EchoTurn` and `MathTurn` say what each place has written, counted
and left to divide. That the machine reads at each place the call that was assembled
there, and no other, is where `CodeIsRead` comes in (`Decoding`): the page is its
instructions' bits in words (`WordAt`), the machine reads three of them in its own
order, and the branch of a loop lands on the loop's first instruction, since between
the two there is no other than the loop's (`OneBefore` and its like).
The numbers are those of the source, so wraps of 27 bits, divisions and the decimal
digits of what is to be printed are exact (`CountsUp`, `DigitsOfOutput`).

**Working services pass.** Two more invariants. `SeedInv` follows the seed: the
solution that the check has generated is that of the page, of the machine's code
once it is sent, and of the cube's scramble once the machine has shown it: the words
that seed the generator are found by the machine in the order in which the check put
them (`FetchedSlice`, `ScrambleIs`). `UpInv` is about a service that has done nothing
wrong: it says only what such a service says (`Answers`), with the printed text that
`ProgramsPrint` gives, and as long as the check has not fallen behind, the wire
has what answers the last move and nothing else (`Answered`). So the verdict that it
reads after the last move is the one that it was solved.

**Induction.** The library's induction theorems cannot be used, and are not needed:
a set of natural numbers that is not empty has a least element (`LeastNumber`,
from the finiteness of what lies below), so a set that has 0 and with each
number the next one has all of them (`NaturalInduction`). A recursive function
is taken as one that satisfies its equations, which exists by the same argument
(`JoinsExists`, `AddsExists`, `TurnsExists`, `PassExists`).

Only model-checked: liveness (`RoundsEnd`, `PromptRedemptionSettled`,
`AnnouncedRoundEnds`, `CommenceReturns`, `RoundsProceed`: the prover
has no rules for fairness over `ENABLED`). Every invariant and every action property
of the runs that pass, and both refinements, have a theorem.

## Where code and words differ

Found as violations by the runs:

* `missed_share`: a redemption inserted between the redistributor's read and the
  commit is booked to a round whose remainder is gone; the rules promise a share.
* `stray_deposit`: `Dir.chdir` moves all threads, and a thread may start another
  service's script.

Seen while modelling, without a run of their own:

* The opening round is created outside the transaction; after a crash in its
  `commence!` nobody hands out the missing tokens (`LoopRoundsCommence` speaks of
  the other rounds).
* `rand` of a negative number takes its absolute value, so checks that no longer
  fit wait the longer the less time is left, and may start after their round,
  where a test says "within the round" (`LateByTheOverrun` says how late).
* The copy of a replaced binary onto the box precedes the index that refuses a
  second one in a round, so the refused one runs, listed for nobody, where the rules
  say "You can replace each service binary once per round"
  (`app/views/pages/howto.html.haml:22`). `ListedIsReal` and `BoxArchived` say what
  holds all the same. That the index lists one a round is the index's own doing, and
  no property restates it; nor the index that keeps a team from redeeming a token twice.
* Updates of one row at once are mixed: each writes by id the columns that differ from
  what it loaded, so that the row may name the round of one and the binary of the
  other (`ListedIsReal` excepts those rows from the comparison of rounds).
* Eight functions of the assembler never make code: five have a number of bits
  that `Bin2Hex` does not know, and three loads read a name that is none of their
  parameters. `DBRK` has 17 bits. A branch on the condition `SL` fails, because an
  instruction of that name replaces the constant. The check uses none of these
  (`FittingIsAssembled`).
* The decoder of the poller skips a byte too many behind a line whose length is a
  multiple of eight; the check of `rubix` has a corrected copy (`LinesReadBack`).
* A board passes without being asked if it shows the answer, for instance in its
  menu: one of a single character by chance, and the two answers of several words
  because they are constants (`legitbbs-poller.py:225` and `:228`). And an answer in
  one piece with a question mark is not seen (`recvhook`'s last condition wins).
  `PassedIffShown` says that this, and what the connection tears, is all that counts.
* `scripts/legitbbs/availability`, which replaced the poller during the game, counts
  a board as passed when the socket fails, asked or not.
* The check of `rubix` ends with the status of a working service when the service
  refuses a move or the solution, and when its own program does not fit.
* The opening round's tokens are settled at the end of each round until the
  window is full, the first times while still eligible. `SettledAfterExpiry` and
  `SettledOnce` therefore start with the second round.
* `finalize!` looks at enabled services only: tokens of a service that is
  disabled in the round they expire are never settled.
* A team with fewer than 15 flags pays a failed check to the house even when
  there is a flag for everybody else (14 flags, 14 others).
* `AvailabilityCheck#check_all_instances` asks a cached service whether it is
  enabled and always hears yes.
* The counters of refused redemptions are rolled back with the refusal.

## What is not modelled

Signatures, QR codes, event payloads and pages (display); encodings of tokens and
the dingus; the size checks of uploads and forms (validations before any state
changes); tickets, live CTF submissions and certificates (single writes nobody
else reads, or none); the one-off downtime scripts (operators' corrections of
data); schema migrations, configuration and vendored code. In `RoundService` the
availability checks are left out and in `AvailabilityChecks` the closing
transaction is one step; what one needs of the other is `RefereePresent` and
`ScheduledRecorded`.

Of the scripts: those of the other services, each a request and an answer, and the
deposits, each one remote command; `Hex2Bytes` of the assembler, which nothing
calls; the random generator of `rnd.so`, of which there is no source; the
connection of a check that cannot be made, which ends it with an exception.

## Plan

1. Done: `RoundService` with its proofs, `Scoring` on `FlagLedger`, `Deposits` on
   `WorkerPool`, `AvailabilityChecks`, `CheckSchedule`, `Replacement`, `Standings`,
   `NineBit` with `BBSPoll`, `Clemency` with `Assembler` and `Rubix`, each with its
   proofs.
2. Open, to model: the details of `redeem_for` (counters, answers, the request
   with several tokens, each in its own transaction); `bin/state_monitor` with
   `ServiceState` and the heartbeat, two actors over a lossy channel; what a
   check's script prints (token lookup, dingus, status 420) and the replay of
   `redistribution-reprocess`; the poller as `scripts/legitbbs/availability`
   changed it.
3. Open, to prove: the safety of the modules of step 2 as they come: that the
   monitor's last state is one the service published, that a refused redemption leaves
   no row.
