----------------------------- MODULE BoxProofs ------------------------------
(***************************************************************************)
(* Theorems about what is put on the teams' boxes.  Deposits, for any      *)
(* tokens, services and threads: the deposits are a worker pool, and what  *)
(* commence! leaves in the database is what the flag files hold.           *)
(* Replacement: whatever interleaves, fails or dies, what is listed was    *)
(* archived and installed, and what runs on the box can be examined.       *)
(***************************************************************************)
EXTENDS Deposits, Replacement, TLAPS

\* Where a token is, and what is known of it there.
Whereabouts ==
    /\ \A t \in Token : t \in queue \/ results[t] > 0 \/ \E w \in Worker : tok[w] = t
    /\ (\E w \in Worker : pc[w] = "gone") => queue = {}

\* A deposit that is over has left its mark on the token in memory.
Marked ==
    /\ \A t \in Token : results[t] > 0 => mem[t].status # "new"
    /\ \A w \in Worker : pc[w] \in {"leave", "push"} => mem[tok[w]].status # "new"

\* Nothing is saved before the threads are joined, and nothing is deposited after.
JoinedThenSaved ==
    /\ main # "deposit" => \A w \in Worker : pc[w] = "gone"
    /\ \A t \in saved : main # "deposit" /\ db[t] = mem[t]
    /\ main = "done" => \A t \in Token : results[t] > 0 => t \in saved

DepositInv == TypeOK /\ Whereabouts /\ Marked /\ JoinedThenSaved

-----------------------------------------------------------------------------
\* A thread that is at work has a token.
LEMMA AtWork ==
    ASSUME TypeOK, NEW w \in Worker, pc[w] \notin {"take", "gone"}
    PROVE  tok[w] \in Token
BY DEF TypeOK

\* A row that a deposit leaves is one, and no longer new.
LEMMA OutcomeRows ==
    ASSUME NEW key \in Key, NEW row \in Outcomes(key)
    PROVE  row \in Row /\ row.status # "new"
BY DEF Outcomes, Key, Row

LEMMA DepositTypeStep == TypeOK /\ [Next]_vars => TypeOK'
<1> SUFFICES ASSUME TypeOK, [Next]_vars PROVE TypeOK'
    OBVIOUS
<1>1. ASSUME NEW w \in Worker, Take(w) PROVE TypeOK'
    BY <1>1, NoTokenAssumption DEF Take, Goto, Shifted, TypeOK
<1>2. ASSUME NEW w \in Worker, Break(w) PROVE TypeOK'
    BY <1>2 DEF Break, Goto, TypeOK
<1>3. ASSUME NEW w \in Worker, Enter(w) PROVE TypeOK'
    <2>1. tok[w] \in Token
        BY <1>3, AtWork DEF Enter
    <2>2. Home[tok[w]] \in Service
        BY <2>1, HomeAssumption
    <2> QED BY <1>3, <2>2 DEF Enter, Goto, TypeOK
<1>4. ASSUME NEW w \in Worker, Spawn(w) PROVE TypeOK'
    <2>1. tok[w] \in Token
        BY <1>4, AtWork DEF Spawn
    <2>2. mem' \in [Token -> Row]
        <3>1. [mem[tok[w]] EXCEPT !.status = "serious"] \in Row
            BY <2>1 DEF TypeOK, Row
        <3> QED BY <1>4, <2>1, <3>1 DEF Spawn, TypeOK
    <2>3. /\ pc' \in [Worker -> {"take", "enter", "spawn", "read", "leave", "push", "gone"}]
          /\ \A v \in Worker : tok'[v] = None <=> pc'[v] \in {"take", "gone"}
        BY <1>4 DEF Spawn, TypeOK, Goto
    <2> QED BY <1>4, <2>1, <2>2, <2>3 DEF Spawn, TypeOK
<1>5. ASSUME NEW w \in Worker, Read(w) PROVE TypeOK'
    <2>1. tok[w] \in Token
        BY <1>5, AtWork DEF Read
    <2>2. PICK key \in Key, landed \in BOOLEAN :
            /\ \E row \in Outcomes(key) : mem' = [mem EXCEPT ![tok[w]] = row]
            /\ flag' = IF landed
                       THEN [flag EXCEPT ![<<Owner[tok[w]], ran[tok[w]]>>] =
                                [token |-> tok[w], key |-> key]]
                       ELSE flag
        BY <1>5 DEF Read
    <2>3. mem' \in [Token -> Row]
        <3>1. PICK row \in Outcomes(key) : mem' = [mem EXCEPT ![tok[w]] = row]
            BY <2>2
        <3>2. row \in Row
            BY OutcomeRows
        <3> QED BY <2>1, <3>1, <3>2 DEF TypeOK
    <2>4. flag' \in [Files -> Flag \cup {Empty}]
        BY <2>1, <2>2 DEF TypeOK, Flag
    <2>5. UNCHANGED <<queue, tok, old, results, cwd, db, main, saved, ran>> /\ Goto(w, "leave")
        BY <1>5 DEF Read
    <2> QED BY <1>5, <2>3, <2>4, <2>5 DEF Read, Goto, TypeOK
<1>6. ASSUME NEW w \in Worker, Leave(w) PROVE TypeOK'
    BY <1>6 DEF Leave, Goto, TypeOK
<1>7. ASSUME NEW w \in Worker, Push(w) PROVE TypeOK'
    <2>1. tok[w] \in Token
        BY <1>7, AtWork DEF Push
    <2> QED BY <1>7, <2>1, NoTokenAssumption DEF Push, AfterPush, Goto, TypeOK
<1>8. CASE Join
    BY <1>8 DEF Join, TypeOK
<1>9. ASSUME NEW t \in Token, Save(t) PROVE TypeOK'
    BY <1>9 DEF Save, Saved, TypeOK
<1>10. CASE Return
    BY <1>10 DEF Return, TypeOK
<1>11. CASE UNCHANGED vars
    BY <1>11 DEF vars, TypeOK
<1> QED BY <1>1, <1>2, <1>3, <1>4, <1>5, <1>6, <1>7, <1>8, <1>9, <1>10, <1>11
        DEF Next, Work, Commence

LEMMA WhereaboutsStep == DepositInv /\ [Next]_vars => Whereabouts'
<1> SUFFICES ASSUME DepositInv, [Next]_vars PROVE Whereabouts'
    OBVIOUS
<1> USE DEF DepositInv, TypeOK, Whereabouts
<1>1. ASSUME NEW w \in Worker, Take(w) PROVE Whereabouts'
    <2>1. PICK j \in queue : queue' = queue \ {j} /\ tok' = [tok EXCEPT ![w] = j]
        BY <1>1 DEF Take, Shifted
    <2>2. tok[w] = None
        BY <1>1 DEF Take
    <2>3. \A v \in Worker : tok'[v] = IF v = w THEN j ELSE tok[v]
        BY <2>1
    <2>4. results' = results /\ \A v \in Worker : pc'[v] = "gone" => pc[v] = "gone"
        BY <1>1 DEF Take, Goto
    <2> QED BY <2>1, <2>2, <2>3, <2>4, NoTokenAssumption
<1>2. ASSUME NEW w \in Worker, Break(w) PROVE Whereabouts'
    BY <1>2 DEF Break, Breaks, Goto
<1>3. ASSUME NEW w \in Worker, Push(w) PROVE Whereabouts'
    <2>1. tok[w] \in Token
        BY <1>3 DEF Push
    <2>2. \A v \in Worker : v # w => tok'[v] = tok[v]
        BY <1>3 DEF Push
    <2>3. results'[tok[w]] > 0 /\ \A t \in Token : results[t] > 0 => results'[t] > 0
        BY <1>3, <2>1 DEF Push
    <2>4. queue' = queue /\ \A v \in Worker : pc'[v] = "gone" => pc[v] = "gone"
        BY <1>3 DEF Push, Goto
    <2> QED BY <2>1, <2>2, <2>3, <2>4
<1>4. ASSUME NEW w \in Worker, Enter(w) \/ Spawn(w) \/ Read(w) \/ Leave(w) PROVE Whereabouts'
    <2>1. queue' = queue /\ tok' = tok /\ results' = results
        BY <1>4 DEF Enter, Spawn, Read, Leave
    <2>2. \A v \in Worker : pc'[v] = "gone" => pc[v] = "gone"
        BY <1>4 DEF Enter, Spawn, Read, Leave, Goto
    <2> QED BY <2>1, <2>2
<1>5. ASSUME Join \/ Return \/ (\E t \in Token : Save(t)) \/ UNCHANGED vars PROVE Whereabouts'
    BY <1>5 DEF Join, Return, Save, vars
<1> QED BY <1>1, <1>2, <1>3, <1>4, <1>5 DEF Next, Work, Commence

LEMMA MarkedStep == DepositInv /\ [Next]_vars => Marked'
<1> SUFFICES ASSUME DepositInv, [Next]_vars PROVE Marked'
    OBVIOUS
<1> USE DEF DepositInv, TypeOK, Marked
\* Steps that only set a thread's token leave the marks alone.
<1>1. ASSUME NEW w \in Worker, Take(w) PROVE Marked'
    <2>1. mem' = mem /\ results' = results
        BY <1>1 DEF Take
    <2>2. \A v \in Worker : pc'[v] \in {"leave", "push"} => v # w /\ pc[v] = pc'[v]
        BY <1>1 DEF Take, Goto
    <2>3. \A v \in Worker : v # w => tok'[v] = tok[v]
        BY <1>1 DEF Take
    <2> QED BY <2>1, <2>2, <2>3
<1>2. ASSUME NEW w \in Worker, Break(w) \/ Enter(w) \/ Leave(w) PROVE Marked'
    <2>1. mem' = mem /\ results' = results /\ tok' = tok
        BY <1>2 DEF Break, Enter, Leave
    <2>2. \A v \in Worker : pc'[v] \in {"leave", "push"} => pc[v] \in {"leave", "push"}
        BY <1>2 DEF Break, Enter, Leave, Goto
    <2> QED BY <2>1, <2>2
<1>3. ASSUME NEW w \in Worker, Spawn(w) \/ Read(w) PROVE Marked'
    <2>1. tok[w] \in Token /\ tok' = tok /\ results' = results
        BY <1>3 DEF Spawn, Read
    <2>2. \A t \in Token : t # tok[w] => mem'[t] = mem[t]
        BY <1>3, <2>1 DEF Spawn, Read
    <2>3. mem' = mem \/ mem'[tok[w]].status # "new"
        <3>1. CASE Spawn(w)
            BY <3>1, <2>1 DEF Spawn, Row
        <3>2. CASE Read(w)
            <4>1. PICK key \in Key : \E row \in Outcomes(key) :
                        mem' = [mem EXCEPT ![tok[w]] = row]
                BY <3>2 DEF Read
            <4>2. PICK row \in Outcomes(key) : mem' = [mem EXCEPT ![tok[w]] = row]
                BY <4>1
            <4>3. mem'[tok[w]] = row /\ row.status # "new"
                BY <2>1, <4>2, OutcomeRows
            <4> QED BY <4>3
        <3> QED BY <1>3, <3>1, <3>2
    <2>4. \A t \in Token : mem[t].status # "new" => mem'[t].status # "new"
        BY <2>2, <2>3
    <2>5. pc'[w] = "leave" => mem'[tok[w]].status # "new"
        <3>1. CASE Spawn(w)
            BY <3>1, <2>1 DEF Spawn, Goto, Row
        <3>2. CASE Read(w)
            <4>1. PICK key \in Key : \E row \in Outcomes(key) :
                        mem' = [mem EXCEPT ![tok[w]] = row]
                BY <3>2 DEF Read
            <4>2. PICK row \in Outcomes(key) : mem' = [mem EXCEPT ![tok[w]] = row]
                BY <4>1
            <4>3. mem'[tok[w]] = row /\ row.status # "new"
                BY <2>1, <4>2, OutcomeRows
            <4> QED BY <4>3
        <3> QED BY <1>3, <3>1, <3>2
    <2>6. pc'[w] \in {"leave", "read"} /\ \A v \in Worker : v # w => pc'[v] = pc[v]
        BY <1>3 DEF Spawn, Read, Goto
    <2>7. \A v \in Worker : pc[v] \in {"leave", "push"} => tok[v] \in Token
        OBVIOUS
    <2> QED BY <2>1, <2>4, <2>5, <2>6, <2>7
<1>4. ASSUME NEW w \in Worker, Push(w) PROVE Marked'
    <2>1. tok[w] \in Token /\ mem' = mem /\ mem[tok[w]].status # "new"
        BY <1>4 DEF Push
    <2>2. \A t \in Token : results'[t] > 0 => results[t] > 0 \/ t = tok[w]
        BY <1>4, <2>1 DEF Push
    <2>3. \A v \in Worker : pc'[v] \in {"leave", "push"} => v # w /\ pc'[v] = pc[v]
        BY <1>4 DEF Push, Goto
    <2>4. \A v \in Worker : v # w => tok'[v] = tok[v]
        BY <1>4 DEF Push
    <2> QED BY <2>1, <2>2, <2>3, <2>4
<1>5. ASSUME Join \/ Return \/ (\E t \in Token : Save(t)) \/ UNCHANGED vars PROVE Marked'
    BY <1>5 DEF Join, Return, Save, vars
<1> QED BY <1>1, <1>2, <1>3, <1>4, <1>5 DEF Next, Work, Commence

LEMMA JoinedThenSavedStep == DepositInv /\ [Next]_vars => JoinedThenSaved'
<1> SUFFICES ASSUME DepositInv, [Next]_vars PROVE JoinedThenSaved'
    OBVIOUS
<1> USE DEF DepositInv, TypeOK, JoinedThenSaved
<1>1. ASSUME NEW w \in Worker, Work(w) PROVE JoinedThenSaved'
    <2>1. pc[w] # "gone" /\ main' = main /\ saved' = saved /\ main = "deposit"
        BY <1>1 DEF Work, Take, Break, Enter, Spawn, Read, Leave, Push
    <2> QED BY <2>1
<1>2. CASE Join
    BY <1>2 DEF Join, Joined
<1>3. ASSUME NEW t \in Token, Save(t) PROVE JoinedThenSaved'
    BY <1>3 DEF Save, Saved
<1>4. CASE Return
    BY <1>4 DEF Return
<1>5. CASE UNCHANGED vars
    BY <1>5 DEF vars
<1> QED BY <1>1, <1>2, <1>3, <1>4, <1>5 DEF Next, Commence

LEMMA DepositInvariant == Spec => []DepositInv
<1>1. Init => DepositInv
    <2> SUFFICES ASSUME Init PROVE DepositInv
        OBVIOUS
    <2>1. TypeOK
        BY DEF Init, TypeOK, NewRow, Row, Key
    <2> QED BY <2>1 DEF Init, DepositInv, Whereabouts, Marked, JoinedThenSaved
<1>2. DepositInv /\ [Next]_vars => DepositInv'
    BY DepositTypeStep, WhereaboutsStep, MarkedStep, JoinedThenSavedStep DEF DepositInv
<1> QED BY <1>1, <1>2, PTL DEF Spec

-----------------------------------------------------------------------------
\* Every step of a thread is one of the pool's or none of its business, however
\* the threads move each other's working directory.
THEOREM DepositsArePool == Spec => PoolSpec
<1>1. Init => Pool!Init
    BY DEF Init, Gone, Pool!Init
<1>2. TypeOK /\ [Next]_vars => [Pool!Next]_(Pool!poolVars)
    <2> SUFFICES ASSUME TypeOK, [Next]_vars PROVE [Pool!Next]_(Pool!poolVars)
        OBVIOUS
    <2>1. ASSUME NEW w \in Worker, Take(w) PROVE Pool!Take(w)
        <3>1. Gone' = Gone /\ w \notin Gone /\ tok[w] = None
            BY <2>1 DEF Take, Goto, TypeOK, Gone
        <3> QED BY <2>1, <3>1 DEF Take, Shifted, Pool!Take
    <2>2. ASSUME NEW w \in Worker, Break(w) PROVE Pool!Leave(w)
        <3>1. Gone' = Gone \cup {w} /\ w \notin Gone /\ tok[w] = None
            BY <2>2 DEF Break, Goto, TypeOK, Gone
        <3> QED BY <2>2, <3>1 DEF Break, Breaks, Pool!Leave
    <2>3. ASSUME NEW w \in Worker, Push(w) PROVE Pool!Push(w)
        <3>1. Gone' = Gone /\ tok[w] # None
            BY <2>3 DEF Push, Goto, TypeOK, Gone
        <3> QED BY <2>3, <3>1 DEF Push, AfterPush, Pool!Push
    <2>4. ASSUME NEW w \in Worker, Enter(w) \/ Spawn(w) \/ Read(w) \/ Leave(w)
          PROVE UNCHANGED Pool!poolVars
        <3>1. Gone' = Gone
            BY <2>4 DEF Enter, Spawn, Read, Leave, Goto, TypeOK, Gone
        <3>2. queue' = queue /\ tok' = tok /\ results' = results
            BY <2>4 DEF Enter, Spawn, Read, Leave
        <3> QED BY <3>1, <3>2 DEF Pool!poolVars
    <2>5. ASSUME Join \/ Return \/ (\E t \in Token : Save(t)) \/ UNCHANGED vars
          PROVE UNCHANGED Pool!poolVars
        BY <2>5 DEF Join, Return, Save, vars, Gone, Pool!poolVars
    <2> QED BY <2>1, <2>2, <2>3, <2>4, <2>5 DEF Next, Work, Commence, Pool!Next
<1>3. Spec => []TypeOK
    <2>1. DepositInv => TypeOK
        BY DEF DepositInv
    <2> QED BY <2>1, DepositInvariant, PTL
<1> QED BY <1>1, <1>2, <1>3, PTL DEF Spec, PoolSpec, Pool!Spec

-----------------------------------------------------------------------------
(* What any pool keeps that does as WorkerPool says, the deposits' for one.  *)

\* A worker that left found the queue empty, and has nothing.
LeftEmpty ==
    /\ Gone # {} => queue = {}
    /\ \A w \in Gone : tok[w] = None

PoolInv == Pool!TypeOK /\ Pool!OnePlace /\ LeftEmpty

LEMMA PoolTypeStep ==
    ASSUME Pool!TypeOK, [Pool!Next]_(Pool!poolVars) PROVE Pool!TypeOK'
<1> USE DEF Pool!TypeOK
<1>1. ASSUME NEW w \in Worker, Pool!Take(w) PROVE Pool!TypeOK'
    BY <1>1 DEF Pool!Take
<1>2. ASSUME NEW w \in Worker, Pool!Push(w) PROVE Pool!TypeOK'
    <2>1. tok[w] \in Token
        BY <1>2 DEF Pool!Push
    <2> QED BY <1>2, <2>1 DEF Pool!Push
<1>3. ASSUME NEW w \in Worker, Pool!Leave(w) PROVE Pool!TypeOK'
    BY <1>3 DEF Pool!Leave
<1>4. CASE UNCHANGED Pool!poolVars
    BY <1>4 DEF Pool!poolVars
<1> QED BY <1>1, <1>2, <1>3, <1>4 DEF Pool!Next

LEMMA OnePlaceStep ==
    ASSUME PoolInv, [Pool!Next]_(Pool!poolVars) PROVE Pool!OnePlace'
<1> USE DEF PoolInv, Pool!TypeOK
<1>1. ASSUME NEW w \in Worker, Pool!Take(w) PROVE Pool!OnePlace'
    <2>1. PICK j \in queue : queue' = queue \ {j} /\ tok' = [tok EXCEPT ![w] = j]
        BY <1>1 DEF Pool!Take
    <2>2. results' = results /\ tok[w] = None
        BY <1>1 DEF Pool!Take
    <2> SUFFICES ASSUME NEW i \in Token PROVE
            /\ i \in queue' => results'[i] = 0 /\ \A v \in Worker : tok'[v] # i
            /\ \A v \in Worker : tok'[v] = i => results'[i] = 0
            /\ \A u, v \in Worker : tok'[u] = i /\ tok'[v] = i => u = v
            /\ results'[i] \in {0, 1}
            /\ i \in queue' \/ results'[i] = 1 \/ \E v \in Worker : tok'[v] = i
        BY DEF Pool!OnePlace
    <2>3. \A v \in Worker : tok'[v] = IF v = w THEN j ELSE tok[v]
        BY <2>1
    <2>4. i = j \/ i # j
        OBVIOUS
    <2> QED BY <2>1, <2>2, <2>3, <2>4, NoTokenAssumption DEF Pool!OnePlace
<1>2. ASSUME NEW w \in Worker, Pool!Push(w) PROVE Pool!OnePlace'
    <2>1. tok[w] \in Token /\ queue' = queue
        BY <1>2 DEF Pool!Push
    <2>2. \A v \in Worker : tok'[v] = IF v = w THEN None ELSE tok[v]
        BY <1>2 DEF Pool!Push
    <2>3. \A i \in Token : results'[i] = IF i = tok[w] THEN results[i] + 1 ELSE results[i]
        BY <1>2 DEF Pool!Push
    <2>4. results[tok[w]] = 0
        BY <2>1 DEF Pool!OnePlace
    <2> QED BY <2>1, <2>2, <2>3, <2>4, NoTokenAssumption DEF Pool!OnePlace
<1>3. ASSUME NEW w \in Worker, Pool!Leave(w) PROVE Pool!OnePlace'
    BY <1>3 DEF Pool!Leave, Pool!OnePlace
<1>4. CASE UNCHANGED Pool!poolVars
    BY <1>4 DEF Pool!poolVars, Pool!OnePlace
<1> QED BY <1>1, <1>2, <1>3, <1>4 DEF Pool!Next

LEMMA LeftEmptyStep ==
    ASSUME PoolInv, [Pool!Next]_(Pool!poolVars) PROVE LeftEmpty'
<1> USE DEF PoolInv, Pool!TypeOK, LeftEmpty
<1>1. ASSUME NEW w \in Worker, Pool!Take(w) PROVE LeftEmpty'
    BY <1>1 DEF Pool!Take
<1>2. ASSUME NEW w \in Worker, Pool!Push(w) PROVE LeftEmpty'
    BY <1>2 DEF Pool!Push
<1>3. ASSUME NEW w \in Worker, Pool!Leave(w) PROVE LeftEmpty'
    BY <1>3 DEF Pool!Leave
<1>4. CASE UNCHANGED Pool!poolVars
    BY <1>4 DEF Pool!poolVars
<1> QED BY <1>1, <1>2, <1>3, <1>4 DEF Pool!Next

LEMMA PoolInvariant == PoolSpec => []PoolInv
<1>1. Pool!Init => PoolInv
    BY NoTokenAssumption DEF Pool!Init, PoolInv, Pool!TypeOK, Pool!OnePlace, LeftEmpty
<1>2. PoolInv /\ [Pool!Next]_(Pool!poolVars) => PoolInv'
    BY PoolTypeStep, OnePlaceStep, LeftEmptyStep DEF PoolInv
<1> QED BY <1>1, <1>2, PTL DEF PoolSpec, Pool!Spec

\* At any moment a token waits, is in one thread's hands, or was deposited once:
\* none is deposited twice, and none is lost (the two mutexes of commence!).
THEOREM ItemsInOnePlace == Spec => []Pool!OnePlace
<1>1. PoolInv => Pool!OnePlace
    BY DEF PoolInv
<1> QED BY <1>1, DepositsArePool, PoolInvariant, PTL

\* When the threads are joined, every token was deposited exactly once.
THEOREM JoinedIsDone == Spec => []Pool!DoneOnce
<1>1. PoolInv => Pool!DoneOnce
    <2> SUFFICES ASSUME PoolInv, Worker # {}, Gone = Worker, NEW i \in Token
                 PROVE results[i] = 1
        BY DEF Pool!DoneOnce
    <2>1. queue = {} /\ \A w \in Worker : tok[w] # i
        BY NoTokenAssumption DEF PoolInv, LeftEmpty
    <2> QED BY <2>1 DEF PoolInv, Pool!OnePlace
<1> QED BY <1>1, DepositsArePool, PoolInvariant, PTL

-----------------------------------------------------------------------------
(* The flag files.                                                           *)

\* What the row of a token in a flag file is in memory, from the deposit on.
Faithful(f) ==
    mem[f.token].status = "serious" \/ (mem[f.token].key = f.key /\ mem[f.token].digest = f.key)

\* Nobody is to work on a token that is in a flag file any more.
Worked(t) == results[t] > 0 \/ \E w \in Worker : tok[w] = t /\ pc[w] \in {"leave", "push"}

FlagInv == \A b \in Files : flag[b] # Empty => Faithful(flag[b]) /\ Worked(flag[b].token)

\* A file that is not empty holds a token.
LEMMA FlagHasToken ==
    ASSUME TypeOK, NEW b \in Files, flag[b] # Empty
    PROVE  flag[b].token \in Token
BY DEF TypeOK, Flag

\* The token of a thread at work is in no flag file yet.
LEMMA AtWorkUnflagged ==
    ASSUME TypeOK, Pool!OnePlace, FlagInv, NEW w \in Worker, pc[w] \in {"enter", "spawn", "read"},
           NEW b \in Files, flag[b] # Empty
    PROVE  flag[b].token # tok[w]
<1> SUFFICES ASSUME flag[b].token = tok[w] PROVE FALSE
    OBVIOUS
<1>1. tok[w] \in Token
    BY AtWork
<1>2. results[tok[w]] = 0 /\ \A v \in Worker : tok[v] = tok[w] => v = w
    BY <1>1 DEF Pool!OnePlace
<1> QED BY <1>2 DEF FlagInv, Worked

LEMMA FlagInvStep == DepositInv /\ Pool!OnePlace /\ FlagInv /\ [Next]_vars => FlagInv'
<1> SUFFICES ASSUME DepositInv, Pool!OnePlace, FlagInv, [Next]_vars,
                    NEW b \in Files, flag'[b] # Empty
             PROVE  Faithful(flag[b])' /\ Worked(flag[b].token)'
    BY DEF FlagInv
<1>t. TypeOK
    BY DEF DepositInv
\* A file that was there already: nothing touches its token's row.
<1>0. ASSUME flag[b] # Empty, flag'[b] = flag[b],
             mem'[flag[b].token] = mem[flag[b].token], Worked(flag[b].token)'
      PROVE  Faithful(flag[b])' /\ Worked(flag[b].token)'
    <2>1. Faithful(flag[b])
        BY <1>0 DEF FlagInv
    <2> QED BY <1>0, <2>1 DEF Faithful, Worked
<1>1. ASSUME NEW w \in Worker, Take(w) \/ Break(w) \/ Enter(w) \/ Leave(w)
      PROVE  Faithful(flag[b])' /\ Worked(flag[b].token)'
    <2>1. flag' = flag /\ mem' = mem /\ results' = results
        BY <1>1 DEF Take, Break, Enter, Leave
    <2>2. Worked(flag[b].token)
        BY <2>1 DEF FlagInv
    <2>3. \A v \in Worker : pc[v] \in {"leave", "push"} =>
              tok'[v] = tok[v] /\ pc'[v] \in {"leave", "push"}
        BY <1>1, <1>t DEF Take, Break, Enter, Leave, Goto, TypeOK
    <2> QED BY <1>0, <2>1, <2>2, <2>3 DEF Worked
<1>2. ASSUME NEW w \in Worker, Spawn(w) PROVE Faithful(flag[b])' /\ Worked(flag[b].token)'
    <2>1. flag' = flag /\ results' = results /\ tok' = tok
        BY <1>2 DEF Spawn
    <2>2. flag[b].token # tok[w] /\ Worked(flag[b].token)
        BY <1>2, <1>t, <2>1, AtWorkUnflagged DEF Spawn, FlagInv
    <2>3. mem'[flag[b].token] = mem[flag[b].token]
        BY <1>2, <1>t, <2>1, <2>2, FlagHasToken DEF Spawn, TypeOK
    <2>4. \A v \in Worker : pc[v] \in {"leave", "push"} => pc'[v] = pc[v]
        BY <1>2, <1>t DEF Spawn, Goto, TypeOK
    <2> QED BY <1>0, <2>1, <2>2, <2>3, <2>4 DEF Worked
<1>3. ASSUME NEW w \in Worker, Read(w) PROVE Faithful(flag[b])' /\ Worked(flag[b].token)'
    <2>1. PICK key \in Key, landed \in BOOLEAN :
            /\ \E row \in Outcomes(key) : mem' = [mem EXCEPT ![tok[w]] = row]
            /\ flag' = IF landed
                       THEN [flag EXCEPT ![<<Owner[tok[w]], ran[tok[w]]>>] =
                                [token |-> tok[w], key |-> key]]
                       ELSE flag
        BY <1>3 DEF Read
    <2>2. tok[w] \in Token /\ tok' = tok /\ results' = results
        BY <1>3, <1>t, AtWork DEF Read
    <2>3. /\ pc'[w] = "leave"
          /\ \A v \in Worker : pc[v] \in {"leave", "push"} => pc'[v] \in {"leave", "push"}
        BY <1>3, <1>t DEF Read, Goto, TypeOK
    <2>4. CASE flag'[b] = flag[b]
        <3>1. flag[b].token # tok[w] /\ Worked(flag[b].token)
            BY <1>3, <1>t, <2>4, AtWorkUnflagged DEF Read, FlagInv
        <3>2. mem'[flag[b].token] = mem[flag[b].token]
            BY <1>t, <2>1, <2>2, <2>4, <3>1, FlagHasToken DEF TypeOK
        <3> QED BY <1>0, <2>2, <2>3, <2>4, <3>1, <3>2 DEF Worked
    <2>5. CASE flag'[b] # flag[b]
        <3>1. flag'[b] = [token |-> tok[w], key |-> key]
            BY <1>t, <2>1, <2>5 DEF TypeOK
        <3>2. PICK row \in Outcomes(key) : mem' = [mem EXCEPT ![tok[w]] = row]
            BY <2>1
        <3>3. mem'[tok[w]] = row
            BY <1>t, <2>2, <3>2 DEF TypeOK
        <3>4. row.status = "serious" \/ (row.key = key /\ row.digest = key)
            BY DEF Outcomes
        <3> QED BY <2>2, <2>3, <3>1, <3>3, <3>4 DEF Faithful, Worked
    <2> QED BY <2>4, <2>5
<1>4. ASSUME NEW w \in Worker, Push(w) PROVE Faithful(flag[b])' /\ Worked(flag[b].token)'
    <2>1. flag' = flag /\ mem' = mem /\ tok[w] \in Token
        BY <1>4, <1>t, AtWork DEF Push
    <2>2. \A t \in Token : results'[t] = IF t = tok[w] THEN results[t] + 1 ELSE results[t]
        BY <1>4, <1>t DEF Push, TypeOK
    <2>3. \A v \in Worker : v # w => tok'[v] = tok[v] /\ pc'[v] = pc[v]
        BY <1>4, <1>t DEF Push, Goto, TypeOK
    <2>4. flag[b].token \in Token /\ Worked(flag[b].token)
        BY <1>t, <2>1, FlagHasToken DEF FlagInv
    <2>5. \A t \in Token : results[t] \in Nat
        BY <1>t DEF TypeOK
    <2>6. Worked(flag[b].token)'
        BY <2>1, <2>2, <2>3, <2>4, <2>5 DEF Worked
    <2> QED BY <1>0, <2>1, <2>6
<1>5. ASSUME Join \/ Return \/ (\E t \in Token : Save(t)) \/ UNCHANGED vars
      PROVE  Faithful(flag[b])' /\ Worked(flag[b].token)'
    <2>1. flag' = flag /\ mem' = mem /\ tok' = tok /\ pc' = pc /\ results' = results
        BY <1>5 DEF Join, Return, Save, vars
    <2> QED BY <1>0, <2>1 DEF FlagInv, Worked
<1> QED BY <1>1, <1>2, <1>3, <1>4, <1>5 DEF Next, Work, Commence

LEMMA FlagInvariant == Spec => []FlagInv
<1>1. Init => FlagInv
    BY DEF Init, FlagInv
<1> QED BY <1>1, FlagInvStep, DepositInvariant, ItemsInOnePlace, PTL DEF Spec

\* When commence! returns, a token that a script left in a flag file can be redeemed
\* with what the file says: its row has the key and the digest of that token, whoever
\* ran the script, in whatever directory, and whether the key was replaced, unless
\* the deposit raised an exception, which its status says.
THEOREM DepositsSaved == Spec => []SavedAsDeposited
<1>1. DepositInv /\ FlagInv => SavedAsDeposited
    <2> SUFFICES ASSUME DepositInv, FlagInv, main = "done" PROVE SavedAsDeposited
        BY DEF SavedAsDeposited
    <2>1. \A w \in Worker : pc[w] = "gone" /\ tok[w] = None
        BY DEF DepositInv, JoinedThenSaved, TypeOK
    <2>2. queue = {}
        BY <2>1, WorkerAssumption DEF DepositInv, Whereabouts
    <2>3. \A t \in Token : results[t] > 0
        BY <2>1, <2>2, NoTokenAssumption DEF DepositInv, Whereabouts
    <2>4. \A t \in Token : db[t] = mem[t] /\ mem[t].status # "new"
        BY <2>3 DEF DepositInv, JoinedThenSaved, Marked
    <2>5. \A b \in Files : flag[b] # Empty => flag[b].token \in Token /\ Faithful(flag[b])
        BY FlagHasToken DEF DepositInv, FlagInv
    <2> QED BY <2>4, <2>5 DEF SavedAsDeposited, Faithful
<1> QED BY <1>1, DepositInvariant, FlagInvariant, PTL

-----------------------------------------------------------------------------
(* Replacements.                                                             *)

\* An upload past its copy into the archive has a file there; one past scp.run
\* was put on the box no earlier than the round it was begun in.
UploadArchived ==
    \A p \in Web : req[p].pc \in {"install", "write"} => req[p].digest \in archive
UploadInstalled ==
    \A p \in Web : req[p].pc = "write" =>
        \E i \in installed : i.digest = req[p].digest /\ i.round >= req[p].round
\* An upload in progress names a round that has begun.
UploadRound ==
    \A p \in Web : req[p].pc # "idle" => req[p].round \in 1..round

UploadInv ==
    /\ UploadTypeOK /\ UploadArchived /\ UploadInstalled /\ UploadRound
    /\ ListedIsReal /\ BoxArchived

\* What an upload looks like by the step it is at.
LEMMA UploadShape ==
    ASSUME UploadTypeOK, NEW p \in Web
    PROVE  /\ req[p].pc # "idle" => req[p] \in Upload
           /\ req[p].pc = "idle" => req[p] = Idle
           /\ req[p] = Idle => req[p].pc = "idle"
BY DEF UploadTypeOK, Upload, Idle

\* Moving one upload to its next step keeps the function's type.
LEMMA ReqStep ==
    ASSUME UploadTypeOK, NEW p \in Web, NEW u \in Upload \cup {Idle}
    PROVE  [req EXCEPT ![p] = u] \in [Web -> Upload \cup {Idle}]
BY DEF UploadTypeOK

\* What ListedIsReal asks of a row.
Listable(x) ==
    /\ x.digest \in archive
    /\ \E i \in installed : i.digest = x.digest /\ (x.merged \/ i.round >= x.round)

\* Each column of a row that is written is the request's, or what another one wrote.
LEMMA WrittenIsReal ==
    ASSUME UploadTypeOK, ListedIsReal, NEW u \in Upload,
           u.round \in 1..round, u.digest \in archive,
           \E i \in installed : i.digest = u.digest /\ i.round >= u.round
    PROVE  \A x \in Written(u) : x \in ReplacementRow /\ Listable(x)
<1>1. CASE u.loaded = {}
  <2> DEFINE x == Requested(u)
  <2>1. Written(u) = {x}
    BY <1>1 DEF Written
  <2>2. x \in ReplacementRow /\ x.round = u.round /\ x.digest = u.digest
    BY DEF Requested, Upload, ReplacementRow, UploadTypeOK
  <2> HIDE DEF x
  <2> QED BY <2>1, <2>2 DEF Listable
<1>2. ASSUME u.loaded # {}, NEW y \in rows, y.id = u.id, NEW was \in u.loaded
      PROVE  Updated(y, was, u) \in ReplacementRow /\ Listable(Updated(y, was, u))
  <2> DEFINE x == Updated(y, was, u)
  <2>1. y \in ReplacementRow
    BY DEF UploadTypeOK
  <2>2. /\ x.digest \in {y.digest, u.digest} /\ x.round \in {y.round, u.round}
        /\ x.merged \/ (x.round = u.round /\ x.digest = u.digest)
    BY <2>1 DEF Updated, ReplacementRow
  <2>3. x \in ReplacementRow
    <3> DEFINE r == IF u.round = was.round THEN y.round ELSE u.round
    <3> DEFINE d == IF u.digest = was.digest THEN y.digest ELSE u.digest
    <3> DEFINE m == <<r, d>> # <<u.round, u.digest>>
    <3>1. y.id \in 1..MaxUploads /\ r \in 1..MaxRounds /\ d \in Binary
      BY <2>1, ReplacementBoundAssumption DEF ReplacementRow, Upload, UploadTypeOK
    <3>2. m \in BOOLEAN
      OBVIOUS
    <3>3. x = [id |-> y.id, round |-> r, digest |-> d, merged |-> m]
      BY DEF Updated
    <3> HIDE DEF r, d, m, x
    <3> QED BY <3>1, <3>2, <3>3 DEF ReplacementRow
  <2>4. y.digest \in archive /\ \E i \in installed : i.digest = y.digest
    BY DEF ListedIsReal
  <2> HIDE DEF x
  <2>5. Listable(x)
    BY <2>2, <2>4 DEF Listable
  <2> QED BY <2>3, <2>5 DEF x
<1> QED BY <1>1, <1>2 DEF Written

LEMMA UploadInvInit == InitUploads => UploadInv
BY ReplacementBoundAssumption, ShippedAssumption
   DEF InitUploads, UploadInv, UploadTypeOK, UploadArchived, UploadInstalled, UploadRound,
       ListedIsReal, BoxArchived, Idle

LEMMA UploadInvStep == UploadInv /\ [NextUpload]_uploadVars => UploadInv'
<1> SUFFICES ASSUME UploadInv, [NextUpload]_uploadVars PROVE UploadInv'
  OBVIOUS
<1> USE ReplacementBoundAssumption, ShippedAssumption
<1>1. ASSUME NEW p \in Web, NEW d \in Binary, Begin(p, d) PROVE UploadInv'
  <2>1. round # 0 => [pc |-> "archive", id |-> uploads + 1, round |-> round, digest |-> d,
                     loaded |-> {}] \in Upload
    BY <1>1 DEF Begin, UploadInv, UploadTypeOK, Upload
  <2>2. UploadTypeOK'
    <3>1. req' \in [Web -> Upload \cup {Idle}]
      BY <1>1, <2>1, ReqStep DEF Begin, UploadInv, Valid
    <3> QED BY <1>1, <3>1 DEF Begin, UploadInv, UploadTypeOK
  <2>3. \A q \in Web : q # p => req'[q] = req[q]
    BY <1>1 DEF Begin, UploadInv, UploadTypeOK
  <2>4. req'[p].pc \in {"archive", "idle"}
    BY <1>1 DEF Begin, UploadInv, UploadTypeOK, Idle
  <2>5. req'[p].pc # "idle" => req'[p].round = round /\ round \in 1..round
    BY <1>1 DEF Begin, UploadInv, UploadTypeOK, Idle, Valid
  <2> QED
    BY <1>1, <2>2, <2>3, <2>4, <2>5
       DEF Begin, UploadInv, UploadArchived, UploadInstalled, UploadRound,
           ListedIsReal, BoxArchived
<1>2. ASSUME NEW p \in Web, NEW d \in Binary, NEW r \in 1..round,
             NEW loaded \in {{}} \cup {{x} : x \in rows}, AdminBegin(p, d, r, loaded)
      PROVE  UploadInv'
  <2>1. PICK id \in (IF loaded = {} THEN {uploads + 1} ELSE {x.id : x \in loaded}) :
            req' = [req EXCEPT ![p] = [pc |-> "archive", id |-> id, round |-> r, digest |-> d,
                                       loaded |-> loaded]]
    BY <1>2 DEF AdminBegin
  <2> DEFINE u == [pc |-> "archive", id |-> id, round |-> r, digest |-> d, loaded |-> loaded]
  <2>2. u \in Upload
    <3>1. loaded \subseteq ReplacementRow /\ r \in 0..MaxRounds
      BY DEF UploadInv, UploadTypeOK
    <3>2. id \in 1..MaxUploads
      BY <1>2, <3>1 DEF AdminBegin, UploadInv, UploadTypeOK, ReplacementRow
    <3> QED BY <3>1, <3>2 DEF Upload
  <2>3. u.pc = "archive" /\ u.round = r
    OBVIOUS
  <2> HIDE DEF u
  <2>4. req' = [req EXCEPT ![p] = u]
    BY <2>1 DEF u
  <2>5. UploadTypeOK'
    <3>1. req' \in [Web -> Upload \cup {Idle}]
      BY <2>2, <2>4, ReqStep DEF UploadInv
    <3> QED BY <1>2, <3>1 DEF AdminBegin, UploadInv, UploadTypeOK
  <2>6. \A q \in Web : q # p => req'[q] = req[q]
    BY <2>4 DEF UploadInv, UploadTypeOK
  <2>7. req'[p].pc = "archive" /\ req'[p].round = r
    BY <2>3, <2>4 DEF UploadInv, UploadTypeOK
  <2> QED
    BY <1>2, <2>5, <2>6, <2>7
       DEF AdminBegin, UploadInv, UploadArchived, UploadInstalled, UploadRound,
           ListedIsReal, BoxArchived
<1>3. ASSUME NEW p \in Web, Archive(p) PROVE UploadInv'
  <2>1. req[p] \in Upload
    BY <1>3, UploadShape DEF Archive, UploadInv
  <2>2. [req[p] EXCEPT !.pc = "install"] \in Upload
    BY <2>1 DEF Upload
  <2>3. UploadTypeOK'
    <3>1. req' \in [Web -> Upload \cup {Idle}]
      BY <1>3, <2>2, ReqStep DEF Archive, AfterArchive, UploadInv
    <3>2. archive' \subseteq Binary
      BY <1>3, <2>1 DEF Archive, Archived, UploadInv, UploadTypeOK, Upload
    <3> QED BY <1>3, <3>1, <3>2 DEF Archive, UploadInv, UploadTypeOK
  <2>4. \A q \in Web : q # p => req'[q] = req[q]
    BY <1>3 DEF Archive, UploadInv, UploadTypeOK
  <2>5. /\ req'[p].pc = "install" /\ req'[p].round = req[p].round
        /\ req'[p].digest = req[p].digest /\ req[p].pc # "idle"
    BY <1>3, <2>1 DEF Archive, AfterArchive, UploadInv, UploadTypeOK, Upload
  <2>6. archive' = archive \cup {req[p].digest}
    BY <1>3 DEF Archive, Archived
  <2> QED
    BY <1>3, <2>3, <2>4, <2>5, <2>6
       DEF Archive, UploadInv, UploadArchived, UploadInstalled, UploadRound,
           ListedIsReal, BoxArchived
<1>4. ASSUME NEW p \in Web, Install(p) PROVE UploadInv'
  <2>1. req[p] \in Upload
    BY <1>4, UploadShape DEF Install, UploadInv
  <2>2. [req[p] EXCEPT !.pc = "write"] \in Upload
    BY <2>1 DEF Upload
  <2>3. UploadTypeOK'
    <3>1. req' \in [Web -> Upload \cup {Idle}]
      BY <1>4, <2>2, ReqStep DEF Install, UploadInv
    <3>2. req[p].digest \in Binary
      BY <2>1 DEF Upload
    <3> QED BY <1>4, <3>1, <3>2 DEF Install, UploadInv, UploadTypeOK
  <2>4. \A q \in Web : q # p => req'[q] = req[q]
    BY <1>4 DEF Install, UploadInv, UploadTypeOK
  <2>5. /\ req'[p].pc = "write" /\ req'[p].round = req[p].round
        /\ req'[p].digest = req[p].digest /\ req[p].pc = "install"
    BY <1>4, <2>1 DEF Install, UploadInv, UploadTypeOK, Upload
  <2>6. req[p].round \in 1..round /\ req[p].digest \in archive
    BY <2>5 DEF UploadInv, UploadRound, UploadArchived
  <2>7. UploadInstalled'
    <3>1. ASSUME NEW q \in Web, req'[q].pc = "write"
          PROVE  \E i \in installed' : i.digest = req'[q].digest /\ i.round >= req'[q].round
      <4>1. CASE q = p
        <5> DEFINE i == [round |-> round, digest |-> req[p].digest]
        <5>1. i \in installed' /\ i.digest = req'[q].digest
          BY <1>4, <2>5, <4>1 DEF Install
        <5>2. i.round >= req'[q].round
          BY <2>5, <2>6, <4>1 DEF UploadInv, UploadTypeOK
        <5> QED BY <5>1, <5>2
      <4>2. CASE q # p
        BY <1>4, <2>4, <3>1, <4>2 DEF Install, UploadInv, UploadInstalled
      <4> QED BY <4>1, <4>2
    <3> QED BY <3>1 DEF UploadInstalled
  <2>8. UploadArchived' /\ UploadRound'
    BY <1>4, <2>4, <2>5, <2>6 DEF Install, UploadInv, UploadArchived, UploadRound
  <2>9. ListedIsReal'
    BY <1>4 DEF Install, UploadInv, ListedIsReal
  <2> QED
    BY <1>4, <2>3, <2>6, <2>7, <2>8, <2>9 DEF Install, UploadInv, BoxArchived
<1>5. ASSUME NEW p \in Web, InstallFails(p) PROVE UploadInv'
  <2>1. req[p] \in Upload /\ req[p].digest \in archive
    BY <1>5, UploadShape DEF InstallFails, UploadInv, UploadArchived
  <2>2. req'[p].pc = "idle" /\ \A q \in Web : q # p => req'[q] = req[q]
    BY <1>5 DEF InstallFails, UploadInv, UploadTypeOK, Idle
  <2>3. UploadTypeOK'
    <3>1. req' \in [Web -> Upload \cup {Idle}]
      BY <1>5, ReqStep DEF InstallFails, UploadInv
    <3>2. box' \in Binary \cup {Shipped, Truncated}
      BY <1>5, <2>1 DEF InstallFails, UploadInv, UploadTypeOK, Upload
    <3> QED BY <1>5, <3>1, <3>2 DEF InstallFails, UploadInv, UploadTypeOK
  <2>4. BoxArchived'
    BY <1>5, <2>1 DEF InstallFails, UploadInv, BoxArchived
  <2> QED
    BY <1>5, <2>2, <2>3, <2>4
       DEF InstallFails, UploadInv, UploadArchived, UploadInstalled, UploadRound,
           ListedIsReal
<1>6. ASSUME NEW p \in Web, Write(p) PROVE UploadInv'
  <2> DEFINE u == req[p]
  <2>1. /\ u \in Upload /\ u.round \in 1..round /\ u.digest \in archive
        /\ \E i \in installed : i.digest = u.digest /\ i.round >= u.round
    BY <1>6, UploadShape DEF Write, UploadInv, UploadArchived, UploadInstalled, UploadRound
  <2> HIDE DEF u
  <2>2. \A x \in Written(u) : x \in ReplacementRow /\ Listable(x)
    BY <2>1, WrittenIsReal DEF UploadInv
  <2>3. rows' \subseteq rows \cup Written(u)
    BY <1>6 DEF Write, u
  <2>4. req'[p].pc = "idle" /\ \A q \in Web : q # p => req'[q] = req[q]
    BY <1>6 DEF Write, UploadInv, UploadTypeOK, Idle
  <2>5. UploadTypeOK'
    <3>1. req' \in [Web -> Upload \cup {Idle}]
      BY <1>6, ReqStep DEF Write, UploadInv
    <3>2. rows' \subseteq ReplacementRow
      BY <2>2, <2>3 DEF UploadInv, UploadTypeOK
    <3> QED BY <1>6, <3>1, <3>2 DEF Write, UploadInv, UploadTypeOK
  <2>6. ListedIsReal'
    <3>1. archive' = archive /\ installed' = installed
      BY <1>6 DEF Write
    <3> QED BY <2>2, <2>3, <3>1 DEF UploadInv, ListedIsReal, Listable
  <2> QED
    BY <1>6, <2>4, <2>5, <2>6
       DEF Write, UploadInv, UploadArchived, UploadInstalled, UploadRound, BoxArchived
<1>7. ASSUME NEW p \in Web, Crash(p) PROVE UploadInv'
  <2>1. req'[p].pc = "idle" /\ \A q \in Web : q # p => req'[q] = req[q]
    BY <1>7 DEF Crash, UploadInv, UploadTypeOK, Idle
  <2>2. UploadTypeOK'
    <3>1. req' \in [Web -> Upload \cup {Idle}]
      BY <1>7, ReqStep DEF Crash, UploadInv
    <3> QED BY <1>7, <3>1 DEF Crash, UploadInv, UploadTypeOK
  <2> QED
    BY <1>7, <2>1, <2>2
       DEF Crash, UploadInv, UploadArchived, UploadInstalled, UploadRound,
           ListedIsReal, BoxArchived
<1>8. CASE NextRound
  <2>1. UploadTypeOK'
    BY <1>8 DEF NextRound, UploadInv, UploadTypeOK
  <2>2. UploadRound'
    BY <1>8 DEF NextRound, UploadInv, UploadTypeOK, UploadRound
  <2> QED
    BY <1>8, <2>1, <2>2
       DEF NextRound, UploadInv, UploadArchived, UploadInstalled,
           ListedIsReal, BoxArchived
<1>9. ASSUME NEW x \in rows, AdminDestroy(x) PROVE UploadInv'
  BY <1>9 DEF AdminDestroy, UploadInv, UploadTypeOK, UploadArchived, UploadInstalled, UploadRound,
              ListedIsReal, BoxArchived
<1>10. CASE UNCHANGED uploadVars
  BY <1>10 DEF uploadVars, UploadInv, UploadTypeOK, UploadArchived, UploadInstalled, UploadRound,
               ListedIsReal, BoxArchived
<1> QED
  BY <1>1, <1>2, <1>3, <1>4, <1>5, <1>6, <1>7, <1>8, <1>9, <1>10 DEF NextUpload

LEMMA UploadInvHolds == UploadSpec => []UploadInv
BY UploadInvInit, UploadInvStep, PTL DEF UploadSpec

\* What other teams are offered was archived, and installed in its round or later
\* unless concurrent updates of one row were mixed (Replacement#process_upload before
\* the insert or the update).
THEOREM ListingsAreReal == UploadSpec => []ListedIsReal
<1>1. UploadInv => ListedIsReal
  BY DEF UploadInv
<1> QED BY <1>1, UploadInvHolds, PTL

\* What runs on a box, unless shipped or cut short, is in the archive: the copy
\* into the archive precedes the copy onto the box.
THEOREM BoxIsArchived == UploadSpec => []BoxArchived
<1>1. UploadInv => BoxArchived
  BY DEF UploadInv
<1> QED BY <1>1, UploadInvHolds, PTL

=============================================================================
