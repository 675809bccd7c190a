----------------------------- MODULE WorkerPool -----------------------------
(***************************************************************************)
(* What the code expects of its thread pools (the deposits of              *)
(* Round#commence!, the checks of AvailabilityCheck): workers share a      *)
(* queue behind one mutex and a list of results behind another, each item  *)
(* is worked on by one worker, once, and the pool ends with every item     *)
(* done.                                                                   *)
(***************************************************************************)
EXTENDS Integers, FiniteSets

CONSTANTS Item, Worker, None

VARIABLES
    queue,    \* items nobody has taken
    held,     \* held[w]: the item worker w has, or None
    done,     \* done[i]: how many times i was pushed on the results
    gone      \* workers that found the queue empty and left

poolVars == <<queue, held, done, gone>>

Init ==
    /\ queue = Item
    /\ held = [w \in Worker |-> None]
    /\ done = [i \in Item |-> 0]
    /\ gone = {}

\* queue_mtx.synchronize { queue.shift }
Take(w) ==
    /\ w \notin gone /\ held[w] = None
    /\ \E i \in queue :
        /\ queue' = queue \ {i}
        /\ held' = [held EXCEPT ![w] = i]
    /\ UNCHANGED <<done, gone>>

\* result_mtx.synchronize { results.push item }
Push(w) ==
    /\ held[w] # None
    /\ done' = [done EXCEPT ![held[w]] = @ + 1]
    /\ held' = [held EXCEPT ![w] = None]
    /\ UNCHANGED <<queue, gone>>

\* break if item.nil?
Leave(w) ==
    /\ w \notin gone /\ held[w] = None /\ queue = {}
    /\ gone' = gone \cup {w}
    /\ UNCHANGED <<queue, held, done>>

Next == \E w \in Worker : Take(w) \/ Push(w) \/ Leave(w)

Spec == Init /\ [][Next]_poolVars

-----------------------------------------------------------------------------
\* Every variable has its type.
TypeOK ==
    /\ queue \subseteq Item
    /\ held \in [Worker -> Item \cup {None}]
    /\ done \in [Item -> Nat]
    /\ gone \subseteq Worker

\* Every item is in one place: waiting, in one worker's hands, or done once.
OnePlace ==
    \A i \in Item :
        /\ i \in queue => done[i] = 0 /\ \A w \in Worker : held[w] # i
        /\ \A w \in Worker : held[w] = i => done[i] = 0
        /\ \A v, w \in Worker : held[v] = i /\ held[w] = i => v = w
        /\ done[i] \in {0, 1}
        /\ i \in queue \/ done[i] = 1 \/ \E w \in Worker : held[w] = i

\* When all the workers have left, every item was done exactly once.
DoneOnce == Worker # {} /\ gone = Worker => \A i \in Item : done[i] = 1
=============================================================================
