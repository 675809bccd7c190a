------------------------------ MODULE Deposits ------------------------------
(***************************************************************************)
(* The second half of Round#commence!: a pool of threads deposits the new  *)
(* tokens, each by running the deposit script of its service, and the      *)
(* tokens are saved when the threads are joined.  The script writes the    *)
(* token into a file on the box of the token's team, and may print another *)
(* that the token is to be replaced by.                                    *)
(*                                                                         *)
(* ShellProcess finds the script by changing the working directory, which  *)
(* belongs to the process and not to the thread.  Ruby 2.4 (Dockerfile)    *)
(* warns of nested Dir.chdir blocks of two threads and goes on, so any     *)
(* thread may run between the steps of another's block.                    *)
(***************************************************************************)
EXTENDS Integers, FiniteSets

CONSTANTS
    Token,      \* the round's new tokens
    Service,    \* the services with a directory of scripts
    Home,       \* Home[t]: the service of t's instance
    Team,       \* the teams with a box
    Owner,      \* Owner[t]: the team of t's instance
    Root,       \* the directory bin/service runs in
    Worker,     \* the threads, Round::WORKERS of them
    None        \* no token

ASSUME HomeAssumption == Home \in [Token -> Service]
ASSUME OwnerAssumption == Owner \in [Token -> Team]
ASSUME RootAssumption == Root \notin Service
ASSUME NoTokenAssumption == None \notin Token
ASSUME WorkerAssumption == Worker # {}

VARIABLES
    queue,    \* new_tokens
    pc,       \* pc[w]: where thread w is
    tok,      \* tok[w]: its token
    old,      \* old[w]: the directory its chdir block returns to
    results,  \* results[t]: how often t is in results
    cwd,      \* the working directory of the process
    mem,      \* mem[t]: status, key and digest of the token in memory
    db,       \* db[t]: the same columns in the database
    main,     \* where commence! itself is
    saved,    \* tokens it has saved
    flag,     \* flag[b]: the token in a service's flag file on a team's box
    ran       \* observation: ran[t], the directory t's script was started in

vars == <<queue, pc, tok, old, results, cwd, mem, db, main, saved, flag, ran>>

\* The key that was drawn when the token was created, or the one that replaced it.
Key == {"drawn", "replaced"}
\* Status is the script's exit status, whatever it is, or -420.  The digest is of the
\* secret drawn or printed with a key: who redeems needs both.
Row == [status: {"new", "exited", "serious"}, key: Key, digest: Key]
NewRow == [status |-> "new", key |-> "drawn", digest |-> "drawn"]

\* The flag files, by team and service, and what may be in one.
Files == Team \X Service
Flag == [token: Token, key: Key]
Empty == [token |-> None]

Init ==
    /\ queue = Token
    /\ pc = [w \in Worker |-> "take"] /\ tok = [w \in Worker |-> None]
    /\ old = [w \in Worker |-> Root]
    /\ results = [t \in Token |-> 0]
    /\ cwd = Root
    /\ mem = [t \in Token |-> NewRow] /\ db = mem
    /\ main = "deposit" /\ saved = {}
    /\ flag = [b \in Files |-> Empty]
    /\ ran = [t \in Token |-> None]

-----------------------------------------------------------------------------
\* Mutants: a shift that two threads can see, a loop that never breaks, a save
\* that knows nothing of replaced tokens.
ShiftedUnlocked(t) == queue
Shifted(t) == queue \ {t}

NeverBreaks == FALSE
Breaks == queue = {}

Joined == \A w \in Worker : pc[w] = "gone"

SavedStatusOnly(t) == [mem[t] EXCEPT !.key = "drawn"]
Saved(t) == mem[t]

AfterPush(w) == None

Goto(w, label) == pc' = [pc EXCEPT ![w] = label]

\* queue_mtx.synchronize { new_tokens.shift }
Take(w) ==
    /\ pc[w] = "take"
    /\ \E t \in queue :
        /\ queue' = Shifted(t)
        /\ tok' = [tok EXCEPT ![w] = t]
    /\ Goto(w, "enter")
    /\ UNCHANGED <<old, results, cwd, mem, db, main, saved, flag, ran>>

\* break if tok.nil?
Break(w) ==
    /\ pc[w] = "take" /\ Breaks
    /\ Goto(w, "gone")
    /\ UNCHANGED <<queue, tok, old, results, cwd, mem, db, main, saved, flag, ran>>

\* Dir.chdir @directory do: remember where the process is, go to the scripts.
Enter(w) ==
    /\ pc[w] = "enter"
    /\ old' = [old EXCEPT ![w] = cwd]
    /\ cwd' = Home[tok[w]]
    /\ Goto(w, "spawn")
    /\ UNCHANGED <<queue, tok, results, mem, db, main, saved, flag, ran>>

\* IO.popen "./deposit ...", wherever the process is now.  Outside the services'
\* directories there is no such script: ENOENT, rescued as status -420.
Spawn(w) ==
    /\ pc[w] = "spawn"
    /\ ran' = [ran EXCEPT ![tok[w]] = cwd]
    /\ IF cwd = Root
       THEN /\ mem' = [mem EXCEPT ![tok[w]] = [@ EXCEPT !.status = "serious"]]
            /\ Goto(w, "leave")
       ELSE Goto(w, "read") /\ UNCHANGED mem
    /\ UNCHANGED <<queue, tok, old, results, cwd, db, main, saved, flag>>

\* What becomes of a token whose script printed a key: check_token_replacement sets
\* the key and then the digest, and an exception on the way leaves status -420.
Outcomes(key) ==
    {[status |-> "exited", key |-> key, digest |-> key]}
    \cup {[status |-> "serious", key |-> k, digest |-> "drawn"] : k \in {"drawn", key}}

\* The script of the directory it was started in has ended: unless its ssh failed,
\* which its exit status does not tell, the token is on the box of its team.
Read(w) ==
    /\ pc[w] = "read"
    /\ \E key \in Key, landed \in BOOLEAN :
        /\ \E row \in Outcomes(key) : mem' = [mem EXCEPT ![tok[w]] = row]
        /\ flag' = IF landed
                   THEN [flag EXCEPT ![<<Owner[tok[w]], ran[tok[w]]>>] =
                            [token |-> tok[w], key |-> key]]
                   ELSE flag
    /\ Goto(w, "leave")
    /\ UNCHANGED <<queue, tok, old, results, cwd, db, main, saved, ran>>

\* The end of the chdir block, by exception too.
Leave(w) ==
    /\ pc[w] = "leave"
    /\ cwd' = old[w]
    /\ Goto(w, "push")
    /\ UNCHANGED <<queue, tok, old, results, mem, db, main, saved, flag, ran>>

\* result_mtx.synchronize { results.push tok }
Push(w) ==
    /\ pc[w] = "push"
    /\ results' = [results EXCEPT ![tok[w]] = @ + 1]
    /\ tok' = [tok EXCEPT ![w] = AfterPush(w)]
    /\ Goto(w, "take")
    /\ UNCHANGED <<queue, old, cwd, mem, db, main, saved, flag, ran>>

\* threads.each { join }
Join ==
    /\ main = "deposit" /\ Joined
    /\ main' = "save"
    /\ UNCHANGED <<queue, pc, tok, old, results, cwd, mem, db, saved, flag, ran>>

\* results.each{ |t| t.save }
Save(t) ==
    /\ main = "save" /\ results[t] > 0 /\ t \notin saved
    /\ db' = [db EXCEPT ![t] = Saved(t)]
    /\ saved' = saved \cup {t}
    /\ UNCHANGED <<queue, pc, tok, old, results, cwd, mem, main, flag, ran>>

Return ==
    /\ main = "save" /\ \A t \in Token : results[t] > 0 => t \in saved
    /\ main' = "done"
    /\ UNCHANGED <<queue, pc, tok, old, results, cwd, mem, db, saved, flag, ran>>

Work(w) ==
    \/ Take(w) \/ Break(w) \/ Enter(w) \/ Spawn(w) \/ Read(w) \/ Leave(w) \/ Push(w)

Commence == Join \/ Return \/ \E t \in Token : Save(t)

Next == Commence \/ \E w \in Worker : Work(w)

Spec == Init /\ [][Next]_vars

\* Threads are scheduled, and every script ends: nothing else bounds a deposit,
\* the alarm of the scripts only prints.
FairSpec == Spec /\ WF_vars(Commence) /\ \A w \in Worker : WF_vars(Work(w))

-----------------------------------------------------------------------------
\* Every variable has its type, and a thread has a token exactly while it works.
TypeOK ==
    /\ queue \subseteq Token
    /\ pc \in [Worker -> {"take", "enter", "spawn", "read", "leave", "push", "gone"}]
    /\ tok \in [Worker -> Token \cup {None}]
    /\ \A w \in Worker : tok[w] = None <=> pc[w] \in {"take", "gone"}
    /\ old \in [Worker -> Service \cup {Root}] /\ cwd \in Service \cup {Root}
    /\ results \in [Token -> Nat]
    /\ mem \in [Token -> Row] /\ db \in [Token -> Row]
    /\ main \in {"deposit", "save", "done"} /\ saved \subseteq Token
    /\ flag \in [Files -> Flag \cup {Empty}]
    /\ ran \in [Token -> Service \cup {Root, None}]

\* The threads are a worker pool: every token is deposited by one thread, once,
\* however their directories get in each other's way.
Gone == {w \in Worker : pc[w] = "gone"}
Pool == INSTANCE WorkerPool WITH Item <- Token, held <- tok, done <- results, gone <- Gone
PoolSpec == Pool!Spec

\* When commence! returns, every token has been tried and saved, and whatever token
\* is in a flag file, on the right service's or on another's, has in the database
\* the key and the digest it went there with, unless its deposit raised.
SavedAsDeposited ==
    main = "done" =>
        /\ \A t \in Token : db[t].status # "new"
        /\ \A b \in Files : flag[b] # Empty =>
               LET row == db[flag[b].token]
               IN  row.status = "serious" \/ (row.key = flag[b].key /\ row.digest = flag[b].key)

\* commence! returns, and with it the round can begin.
CommenceReturns == <>(main = "done")

\* A token is deposited by the script of its own service (test/models/token_test.rb:
\* run a per-service deposit script).
RunsOwnScript == \A t \in Token : ran[t] \in {None, Home[t]}
=============================================================================
