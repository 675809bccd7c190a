---------------------- MODULE AvailabilityChecksProofs ----------------------
(***************************************************************************)
(* Theorems about AvailabilityChecks: for every number of teams, services,  *)
(* threads, rounds and crashes, what the rows of availabilities may be.     *)
(* And about CheckSchedule, the wait before its checks: for every margin,   *)
(* initial average, length of a round and duration of a check.              *)
(***************************************************************************)
EXTENDS AvailabilityChecks, CheckSchedule, TLAPS

\* What the round's rows of a service are, by where its thread is.
ThreadRows ==
    \A r \in 1..MaxRounds, s \in Service : r = round =>
        /\ st[s] = "chill" => Checked(r, s) = {}
        /\ st[s] = "pool" => Checked(r, s) = {House}
        /\ st[s] = "saved" => Checked(r, s) = Team
\* A pool has every team's instance exactly somewhere; without one there is none.
PoolWhole ==
    \A s \in Service :
        /\ st[s] = "pool" => queue[s] \cup busy[s] \cup results[s] = Participant
        /\ st[s] # "pool" => queue[s] = {} /\ busy[s] = {} /\ results[s] = {}
ThreadsJoined == main # "join" => \A s \in Service : st[s] = "none"
\* A check that was scheduled in this round, if the process lived, has its thread.
DueKept ==
    \A d \in due :
        /\ d[1] <= round
        /\ d[1] = round /\ round \notin cut =>
               /\ main \in {"join", "wait"}
               /\ main = "join" => st[d[2]] # "none"
CrashesBounded == crashes <= MaxCrashes

IInv ==
    /\ TypeOK /\ ThreadRows /\ PoolWhole /\ ThreadsJoined /\ DueKept /\ CrashesBounded
    /\ CheckedOnce /\ WholeOrNothing /\ ScheduledRecorded

-----------------------------------------------------------------------------
\* Saving the checks of some teams of a service adds them to this round's of it,
\* and to no other.
LEMMA CheckedAdd ==
    ASSUME NEW s \in Service, NEW T, rows' = rows \cup {RowOf(s, t) : t \in T},
           NEW r, NEW z
    PROVE  Checked(r, z)' = IF r = round /\ z = s THEN Checked(r, z) \cup T
                                                  ELSE Checked(r, z)
<1> DEFINE new == {RowOf(s, t) : t \in T}
<1>1. \A x \in new : x.round = round /\ x.service = s /\ x.team \in T
  BY DEF RowOf
<1>2. \A t \in T : RowOf(s, t) \in new /\ RowOf(s, t).team = t
                   /\ RowOf(s, t).round = round /\ RowOf(s, t).service = s
  BY DEF RowOf
<1>3. \A t : t \in Checked(r, z) <=> \E x \in rows : x.round = r /\ x.service = z /\ x.team = t
  BY DEF Checked
<1>4. \A t : t \in Checked(r, z)' <=> \E x \in rows \cup new : x.round = r /\ x.service = z
                                                              /\ x.team = t
  BY DEF Checked
<1> HIDE DEF new
<1>5. CASE r = round /\ z = s
  BY <1>1, <1>2, <1>3, <1>4, <1>5
<1>6. CASE ~(r = round /\ z = s)
  <2>1. \A x \in new : ~(x.round = r /\ x.service = z)
    BY <1>1, <1>6
  <2>2. \A t : t \in Checked(r, z)' <=> t \in Checked(r, z)
    BY <1>3, <1>4, <2>1
  <2>3. Checked(r, z)' = Checked(r, z)
    BY <2>2
  <2> QED BY <1>6, <2>3
<1> QED BY <1>5, <1>6

\* The new rows are rows, and repeat none of the old.
LEMMA RowsAdd ==
    ASSUME IInv, NEW s \in Service, NEW T, T \subseteq Team,
           rows' = rows \cup {RowOf(s, t) : t \in T},
           T \cap Checked(round, s) = {}
    PROVE  rows' \subseteq Row /\ CheckedOnce'
<1>1. \A t \in T : RowOf(s, t) \in Row
  BY ChecksBoundAssumption DEF IInv, TypeOK, CrashesBounded, RowOf, Row
<1>2. \A x \in rows, t \in T :
          ~(x.round = round /\ x.service = s /\ x.team = t)
  BY DEF Checked
<1>3. \A t \in T : /\ RowOf(s, t).round = round /\ RowOf(s, t).service = s
                   /\ RowOf(s, t).team = t
  BY DEF RowOf
<1>4. ASSUME NEW x \in rows', NEW y \in rows',
             x.round = y.round, x.service = y.service, x.team = y.team
      PROVE  x = y
  <2>1. CASE x \in rows /\ y \in rows
    BY <2>1, <1>4 DEF IInv, CheckedOnce
  <2>2. CASE x \in rows /\ y \notin rows
    <3>1. PICK t \in T : y = RowOf(s, t)
      BY <2>2
    <3> QED BY <1>2, <1>3, <1>4, <2>2, <3>1
  <2>3. CASE x \notin rows /\ y \in rows
    <3>1. PICK t \in T : x = RowOf(s, t)
      BY <2>3
    <3> QED BY <1>2, <1>3, <1>4, <2>3, <3>1
  <2>4. CASE x \notin rows /\ y \notin rows
    <3>1. PICK t \in T : x = RowOf(s, t)
      BY <2>4
    <3>2. PICK u \in T : y = RowOf(s, u)
      BY <2>4
    <3> QED BY <1>3, <1>4, <3>1, <3>2
  <2> QED BY <2>1, <2>2, <2>3, <2>4
<1>5. rows' \subseteq Row
  BY <1>1 DEF IInv, TypeOK
<1>6. CheckedOnce'
  BY <1>4 DEF CheckedOnce
<1> QED BY <1>5, <1>6

LEMMA InitInv == Init => IInv
<1> SUFFICES ASSUME Init PROVE IInv
  OBVIOUS
<1>1. \A r, s : Checked(r, s) = {}
  BY DEF Init, Checked
<1>2. /\ st \in [Service -> {"none", "chill", "pool", "saved"}]
      /\ queue \in [Service -> SUBSET Participant] /\ busy \in [Service -> SUBSET Participant]
      /\ results \in [Service -> SUBSET Participant] /\ PoolWhole
  BY DEF Init, PoolWhole, NoThread, Empty
<1>5. TypeOK /\ CrashesBounded
  <2>1. /\ 1 \in 1..MaxRounds /\ 0 \in Nat /\ 0 <= MaxCrashes
    BY ChecksBoundAssumption
  <2>2. /\ rows \subseteq Row /\ due \subseteq (1..MaxRounds) \X Service
        /\ cut \subseteq 1..MaxRounds /\ seen \subseteq Service
    BY DEF Init
  <2> QED BY <1>2, <2>1, <2>2 DEF Init, TypeOK, CrashesBounded
<1>3. ThreadRows /\ ThreadsJoined /\ DueKept
  BY DEF Init, ThreadRows, ThreadsJoined, DueKept, NoThread
<1>4. CheckedOnce /\ WholeOrNothing /\ ScheduledRecorded
  BY <1>1 DEF Init, CheckedOnce, WholeOrNothing, ScheduledRecorded
<1> QED BY <1>2, <1>3, <1>4, <1>5 DEF IInv

\* Steps that leave the rows, the round and the threads' places alone.
LEMMA Quiet ==
    ASSUME IInv, rows' = rows, round' = round, st' = st,
           main' = main, due' = due, cut' = cut
    PROVE  /\ ThreadRows' /\ ThreadsJoined' /\ DueKept'
           /\ CheckedOnce' /\ WholeOrNothing' /\ ScheduledRecorded'
<1>1. \A r, s : Checked(r, s)' = Checked(r, s)
  BY DEF Checked
<1> QED BY <1>1 DEF IInv, ThreadRows, ThreadsJoined, DueKept, CheckedOnce, WholeOrNothing,
                    ScheduledRecorded

LEMMA StepInv == IInv /\ [Next]_vars => IInv'
<1> SUFFICES ASSUME IInv, [Next]_vars PROVE IInv'
  OBVIOUS
<1> USE ChecksBoundAssumption
<1>0. rows' = rows => \A r, s : Checked(r, s)' = Checked(r, s)
  BY DEF Checked
<1>1. CASE Schedule
  <2>1. \A s \in Service : st'[s] \in {"chill", "none"} /\ st[s] = "none"
                           /\ (s \in enabled => st'[s] = "chill")
    BY <1>1 DEF Schedule, IInv, ThreadsJoined
  <2>2. \A s \in Service : Checked(round, s) = {}
    BY <1>1 DEF Schedule, ChecksDone, Checked
  <2>3. TypeOK'
    <3>1. due' \subseteq (1..MaxRounds) \X Service
      BY <1>1 DEF Schedule, IInv, TypeOK
    <3>2. st' \in [Service -> {"none", "chill", "pool", "saved"}]
      BY <1>1 DEF Schedule
    <3>3. seen' \subseteq Service
      BY <1>1 DEF Schedule, IInv, TypeOK
    <3> QED BY <1>1, <3>1, <3>2, <3>3 DEF Schedule, IInv, TypeOK
  <2>4. ThreadRows'
    BY <1>0, <1>1, <2>1, <2>2 DEF Schedule, ThreadRows
  <2>5. PoolWhole' /\ ThreadsJoined' /\ CrashesBounded'
    BY <1>1, <2>1 DEF Schedule, IInv, PoolWhole, ThreadsJoined, CrashesBounded
  <2>6. \A d \in due' : \/ d \in due
                        \/ d[1] = round /\ d[2] \in enabled
    BY <1>1 DEF Schedule
  <2>7. DueKept'
    <3>1. ASSUME NEW d \in due' 
          PROVE  /\ d[1] <= round'
                 /\ d[1] = round' /\ round' \notin cut' =>
                        main' \in {"join", "wait"} /\ (main' = "join" => st'[d[2]] # "none")
      <4>1. CASE d \in due
        BY <1>1, <4>1 DEF Schedule, IInv, DueKept
      <4>2. CASE d[1] = round /\ d[2] \in enabled
        BY <1>1, <2>1, <4>2 DEF Schedule, IInv, TypeOK
      <4> QED BY <2>6, <4>1, <4>2
    <3> QED BY <3>1 DEF DueKept
  <2>8. ScheduledRecorded'
    <3>1. ASSUME NEW d \in due', d[1] \notin cut', d[1] < round' \/ main' = "wait"
          PROVE  Checked(d[1], d[2])' = Team
      <4>1. d[1] < round
        BY <1>1, <3>1 DEF Schedule
      <4>2. d \in due
        BY <2>6, <4>1 DEF IInv, TypeOK
      <4> QED BY <1>0, <1>1, <3>1, <4>1, <4>2 DEF Schedule, IInv, ScheduledRecorded
    <3> QED BY <3>1 DEF ScheduledRecorded
  <2>9. CheckedOnce' /\ WholeOrNothing'
    BY <1>0, <1>1 DEF Schedule, IInv, CheckedOnce, WholeOrNothing
  <2> QED BY <2>3, <2>4, <2>5, <2>7, <2>8, <2>9 DEF IInv
<1>2. CASE SkipChecks
  <2>1. TypeOK' /\ PoolWhole' /\ CrashesBounded'
    BY <1>2 DEF SkipChecks, checkVars, obsVars, IInv, TypeOK, PoolWhole, CrashesBounded
  <2>2. ThreadRows' /\ ThreadsJoined' /\ CheckedOnce' /\ WholeOrNothing'
    BY <1>0, <1>2 DEF SkipChecks, checkVars, obsVars, IInv, ThreadRows, ThreadsJoined,
                      CheckedOnce, WholeOrNothing
  <2>3. DueKept'
    BY <1>2 DEF SkipChecks, checkVars, obsVars, IInv, DueKept
  <2>4. \A d \in due : d[1] \notin cut => d[1] < round
    BY <1>2 DEF SkipChecks, IInv, DueKept, TypeOK
  <2>5. ScheduledRecorded'
    BY <1>0, <1>2, <2>4 DEF SkipChecks, obsVars, IInv, ScheduledRecorded
  <2> QED BY <2>1, <2>2, <2>3, <2>5 DEF IInv
<1>3. ASSUME NEW s \in Service, Start(s) PROVE IInv'
  <2>1. /\ main = "join" /\ st[s] = "chill" /\ Checked(round, s) = {}
        /\ st' = [st EXCEPT ![s] = "pool"] /\ st' \in [Service -> {"none", "chill", "pool", "saved"}]
    BY <1>3 DEF Start, IInv, ThreadsJoined, ThreadRows, TypeOK
  <2> DEFINE T == {House}
  <2>2. rows' = rows \cup {RowOf(s, t) : t \in T}
    BY <1>3 DEF Start, Referee
  <2>11. T = {House}
    OBVIOUS
  <2> HIDE DEF T
  <2>3. \A r, z : Checked(r, z)' = IF r = round /\ z = s THEN {House} ELSE Checked(r, z)
    <3>1. \A r, z : Checked(r, z)' = IF r = round /\ z = s THEN Checked(r, z) \cup T
                                                           ELSE Checked(r, z)
      BY <2>2, CheckedAdd
    <3> QED BY <2>1, <2>11, <3>1
  <2>4. rows' \subseteq Row /\ CheckedOnce'
    BY <2>1, <2>2, <2>11, RowsAdd DEF Team
  <2>5. TypeOK'
    <3>1. queue' \in [Service -> SUBSET Participant]
      BY <1>3 DEF Start, Afoot, IInv, TypeOK
    <3> QED BY <1>3, <2>1, <2>4, <3>1 DEF Start, obsVars, IInv, TypeOK
  <2>6. ThreadRows'
    BY <1>3, <2>1, <2>3 DEF Start, IInv, ThreadRows, TypeOK
  <2>7. PoolWhole'
    BY <1>3, <2>1 DEF Start, Afoot, IInv, PoolWhole, TypeOK
  <2>8. ThreadsJoined' /\ DueKept' /\ CrashesBounded'
    BY <1>3, <2>1 DEF Start, obsVars, IInv, ThreadsJoined, DueKept, CrashesBounded, TypeOK
  <2>9. WholeOrNothing'
    BY <2>3 DEF IInv, WholeOrNothing
  <2>10. ScheduledRecorded'
    <3>1. ASSUME NEW d \in due, d[1] \notin cut, d[1] < round
          PROVE  Checked(d[1], d[2])' = Team
      BY <2>3, <3>1 DEF IInv, ScheduledRecorded, TypeOK
    <3> QED BY <1>3, <2>1, <3>1 DEF Start, obsVars, ScheduledRecorded
  <2> QED BY <2>4, <2>5, <2>6, <2>7, <2>8, <2>9, <2>10 DEF IInv
<1>4. ASSUME NEW s \in Service, NEW t \in Participant, Take(s, t) PROVE IInv'
  <2>1. TypeOK'
    BY <1>4 DEF Take, obsVars, IInv, TypeOK
  <2>2. PoolWhole' /\ CrashesBounded'
    BY <1>4 DEF Take, IInv, PoolWhole, TypeOK, CrashesBounded
  <2> QED BY <1>4, <2>1, <2>2, Quiet DEF Take, obsVars, IInv
<1>5. ASSUME NEW s \in Service, NEW t \in Participant, Push(s, t) PROVE IInv'
  <2>1. TypeOK'
    BY <1>5 DEF Push, obsVars, IInv, TypeOK
  <2>2. PoolWhole' /\ CrashesBounded'
    BY <1>5 DEF Push, IInv, PoolWhole, TypeOK, CrashesBounded
  <2> QED BY <1>5, <2>1, <2>2, Quiet DEF Push, obsVars, IInv
<1>6. ASSUME NEW s \in Service, Save(s) PROVE IInv'
  <2>1. /\ main = "join" /\ Checked(round, s) = {House} /\ results[s] = Participant
        /\ st' = [st EXCEPT ![s] = "saved"] /\ st' \in [Service -> {"none", "chill", "pool", "saved"}]
    BY <1>6 DEF Save, AllChecked, IInv, ThreadsJoined, ThreadRows, PoolWhole, TypeOK
  <2>2. rows' = rows \cup {RowOf(s, t) : t \in Participant}
    BY <1>6, <2>1 DEF Save
  <2>3. \A r, z : Checked(r, z)' = IF r = round /\ z = s THEN Team ELSE Checked(r, z)
    <3>1. \A r, z : Checked(r, z)' = IF r = round /\ z = s THEN Checked(r, z) \cup Participant
                                                           ELSE Checked(r, z)
      BY <2>2, CheckedAdd
    <3> QED BY <2>1, <3>1 DEF Team
  <2>4. rows' \subseteq Row /\ CheckedOnce'
    BY <2>1, <2>2, RowsAdd, HouseAssumption DEF Team
  <2>5. TypeOK'
    <3>1. results' \in [Service -> SUBSET Participant]
      BY <1>6 DEF Save, IInv, TypeOK
    <3> QED BY <1>6, <2>1, <2>4, <3>1 DEF Save, obsVars, IInv, TypeOK
  <2>6. ThreadRows'
    BY <1>6, <2>1, <2>3 DEF Save, IInv, ThreadRows, TypeOK
  <2>7. PoolWhole'
    BY <1>6, <2>1 DEF Save, AllChecked, IInv, PoolWhole, TypeOK
  <2>8. ThreadsJoined' /\ DueKept' /\ CrashesBounded'
    BY <1>6, <2>1 DEF Save, obsVars, IInv, ThreadsJoined, DueKept, CrashesBounded, TypeOK
  <2>9. WholeOrNothing'
    BY <2>3 DEF IInv, WholeOrNothing
  <2>10. ScheduledRecorded'
    <3>1. ASSUME NEW d \in due, d[1] \notin cut, d[1] < round
          PROVE  Checked(d[1], d[2])' = Team
      BY <2>3, <3>1 DEF IInv, ScheduledRecorded, TypeOK
    <3> QED BY <1>6, <2>1, <3>1 DEF Save, obsVars, ScheduledRecorded
  <2> QED BY <2>4, <2>5, <2>6, <2>7, <2>8, <2>9, <2>10 DEF IInv
<1>7. CASE Join
  <2>1. \A s \in Service : st'[s] = "none" /\ st[s] \in {"none", "saved"}
    BY <1>7 DEF Join, Joined, NoThread
  <2>2. TypeOK' /\ CrashesBounded'
    BY <1>7 DEF Join, NoThread, obsVars, IInv, TypeOK, CrashesBounded
  <2>3. PoolWhole'
    BY <1>7, <2>1 DEF Join, IInv, PoolWhole
  <2>4. ThreadRows' /\ ThreadsJoined' /\ DueKept'
    BY <1>7, <2>1 DEF Join, obsVars, ThreadRows, ThreadsJoined, IInv, DueKept
  <2>5. CheckedOnce' /\ WholeOrNothing'
    BY <1>0, <1>7 DEF Join, IInv, CheckedOnce, WholeOrNothing
  <2>6. ScheduledRecorded'
    <3>1. ASSUME NEW d \in due, d[1] \notin cut PROVE Checked(d[1], d[2]) = Team
      <4>1. CASE d[1] < round
        BY <3>1, <4>1 DEF IInv, ScheduledRecorded
      <4>2. CASE d[1] = round
        <5>1. d[2] \in Service /\ d[1] \in 1..MaxRounds
          BY DEF IInv, TypeOK
        <5>2. st[d[2]] = "saved"
          BY <1>7, <2>1, <3>1, <4>2, <5>1 DEF Join, IInv, DueKept
        <5> QED BY <4>2, <5>1, <5>2 DEF IInv, ThreadRows
      <4> QED BY <4>1, <4>2 DEF IInv, DueKept, TypeOK
    <3> QED BY <1>0, <1>7, <3>1 DEF Join, obsVars, ScheduledRecorded
  <2> QED BY <2>2, <2>3, <2>4, <2>5, <2>6 DEF IInv
<1>8. CASE EndRound
  <2>1. \A s \in Service : st'[s] = "none"
    BY <1>8 DEF EndRound, checkVars, IInv, ThreadsJoined
  <2>2. TypeOK' /\ PoolWhole' /\ CrashesBounded'
    <3>1. round' \in 1..MaxRounds
      BY <1>8 DEF EndRound, IInv, TypeOK
    <3>2. TypeOK'
      BY <1>8, <3>1 DEF EndRound, checkVars, obsVars, IInv, TypeOK
    <3> QED BY <1>8, <3>2 DEF EndRound, checkVars, IInv, PoolWhole, CrashesBounded
  <2>3. ThreadRows' /\ ThreadsJoined'
    BY <2>1 DEF ThreadRows, ThreadsJoined
  <2>4. DueKept'
    BY <1>8 DEF EndRound, obsVars, IInv, DueKept, TypeOK
  <2>5. CheckedOnce' /\ WholeOrNothing'
    BY <1>0, <1>8 DEF EndRound, IInv, CheckedOnce, WholeOrNothing
  <2>6. ScheduledRecorded'
    BY <1>0, <1>8 DEF EndRound, obsVars, IInv, ScheduledRecorded
  <2> QED BY <2>2, <2>3, <2>4, <2>5, <2>6 DEF IInv
<1>9. CASE Crash
  <2>1. \A s \in Service : st'[s] = "none"
    BY <1>9 DEF Crash, NoThread
  <2>2. TypeOK' /\ PoolWhole' /\ CrashesBounded'
    <3>1. /\ cut' \subseteq 1..MaxRounds /\ crashes' \in Nat /\ crashes' <= MaxCrashes
      BY <1>9 DEF Crash, IInv, TypeOK
    <3> QED BY <1>9, <3>1 DEF Crash, NoThread, Empty, IInv, TypeOK, PoolWhole, CrashesBounded
  <2>3. ThreadRows' /\ ThreadsJoined'
    BY <2>1 DEF ThreadRows, ThreadsJoined
  <2>4. DueKept'
    BY <1>9 DEF Crash, IInv, DueKept
  <2>5. CheckedOnce' /\ WholeOrNothing'
    BY <1>0, <1>9 DEF Crash, IInv, CheckedOnce, WholeOrNothing
  <2>6. ScheduledRecorded'
    BY <1>0, <1>9 DEF Crash, IInv, ScheduledRecorded
  <2> QED BY <2>2, <2>3, <2>4, <2>5, <2>6 DEF IInv
<1>10. CASE Restart
  <2>1. TypeOK' /\ PoolWhole' /\ CrashesBounded'
    BY <1>10 DEF Restart, checkVars, obsVars, IInv, TypeOK, PoolWhole, CrashesBounded
  <2>2. ThreadRows' /\ ThreadsJoined' /\ DueKept'
    BY <1>0, <1>10 DEF Restart, checkVars, obsVars, IInv, ThreadRows, ThreadsJoined, DueKept
  <2>3. CheckedOnce' /\ WholeOrNothing' /\ ScheduledRecorded'
    BY <1>0, <1>10 DEF Restart, obsVars, IInv, CheckedOnce, WholeOrNothing, ScheduledRecorded
  <2> QED BY <2>1, <2>2, <2>3 DEF IInv
<1>11. CASE RoundTimeUp
  <2>1. TypeOK' /\ PoolWhole' /\ CrashesBounded'
    BY <1>11 DEF RoundTimeUp, checkVars, obsVars, IInv, TypeOK, PoolWhole, CrashesBounded
  <2> QED BY <1>11, <2>1, Quiet DEF RoundTimeUp, checkVars, obsVars, IInv
<1>12. ASSUME NEW s \in Service, Toggle(s) PROVE IInv'
  <2>1. TypeOK' /\ PoolWhole' /\ CrashesBounded'
    BY <1>12 DEF Toggle, checkVars, obsVars, IInv, TypeOK, PoolWhole, CrashesBounded
  <2> QED BY <1>12, <2>1, Quiet DEF Toggle, checkVars, obsVars, IInv
<1>13. CASE UNCHANGED vars
  <2>1. TypeOK' /\ PoolWhole' /\ CrashesBounded'
    BY <1>13 DEF vars, checkVars, obsVars, IInv, TypeOK, PoolWhole, CrashesBounded
  <2> QED BY <1>13, <2>1, Quiet DEF vars, checkVars, obsVars, IInv
<1> QED
  BY <1>1, <1>2, <1>3, <1>4, <1>5, <1>6, <1>7, <1>8, <1>9, <1>10, <1>11, <1>12, <1>13
     DEF Next, Main, Threads

LEMMA InvHolds == Spec => []IInv
BY InitInv, StepInv, PTL DEF Spec

\* A restart never checks an instance again that has its row of the round
\* (Round#availability_checks_done? and the save of a whole pool).
THEOREM NeverCheckedTwice == Spec => []CheckedOnce
<1>1. IInv => CheckedOnce
  BY DEF IInv
<1> QED BY <1>1, InvHolds, PTL

\* A service's checks of a round are recorded for all teams or for none
\* (Availability.transaction around the saves).
THEOREM ChecksWhole == Spec => []WholeOrNothing
<1>1. IInv => WholeOrNothing
  BY DEF IInv
<1> QED BY <1>1, InvHolds, PTL

\* Where a team has a check legitbs has one: the settlement of a failed check
\* never fails for want of it (Availability#process_movements).
THEOREM RefereeAlways == Spec => []RefereePresent
<1>1. ASSUME IInv, NEW x \in rows PROVE House \in Checked(x.round, x.service)
  <2>1. x.team \in Checked(x.round, x.service)
    BY DEF Checked
  <2>2. x.round \in 1..MaxRounds /\ x.service \in Service
    BY <1>1 DEF IInv, TypeOK, Row
  <2>3. Checked(x.round, x.service) \in {{}, {House}, Team}
    BY <1>1, <2>2 DEF IInv, WholeOrNothing
  <2> QED BY <2>1, <2>3 DEF Team
<1>2. IInv => RefereePresent
  BY <1>1 DEF RefereePresent
<1> QED BY <1>2, InvHolds, PTL

\* A round that the process lives through ends with all the checks it scheduled
\* (bin/service joins their threads first).
THEOREM ScheduledAreRecorded == Spec => []ScheduledRecorded
<1>1. IInv => ScheduledRecorded
  BY DEF IInv
<1> QED BY <1>1, InvHolds, PTL

-----------------------------------------------------------------------------
(* The wait before the checks.                                              *)

\* The quotient of whole numbers is whole, and the divisor times it is no more
\* than the dividend.
LEMMA Quotient ==
    ASSUME NEW a \in Nat, NEW b \in Nat \ {0}
    PROVE  /\ a \div b \in Nat
           /\ (a \div b) * b <= a
<1>1. a = b * (a \div b) + (a % b) /\ a % b \in 0 .. b - 1
    OBVIOUS
<1>2. a \div b \in Int
    OBVIOUS
<1>3. a \div b >= 0
    OBVIOUS
<1> QED BY <1>1, <1>2, <1>3

\* A wait is drawn below the whole seconds that bound it, or is a part of a second
\* when there is none.
LEMMA DrawnBelow ==
    ASSUME NEW a \in Nat, NEW n \in Nat \ {0}, NEW w \in Draw(a \div (n * Second))
    PROVE  /\ w \in Nat
           /\ \/ (w + Second) * n <= a
              \/ w < Second /\ a < n * Second
<1> DEFINE b == n * Second
<1> DEFINE q == a \div b
<1>1. Second \in Nat \ {0} /\ b \in Nat \ {0}
    BY TimesAssumption
<1>2. q \in Nat /\ q * b <= a
    <2> HIDE DEF b
    <2> QED BY <1>1, Quotient
<1>3. CASE q = 0
    <2>1. w \in Nat /\ w < Second
        BY <1>1, <1>3 DEF Draw
    <2>2. a < b
        <3> HIDE DEF b
        <3>1. a = b * (a \div b) + (a % b) /\ a % b \in 0 .. b - 1
            BY <1>1
        <3> QED BY <1>1, <1>3, <3>1
    <2> QED BY <2>1, <2>2
<1>4. CASE q # 0
    <2>1. PICK m \in 0 .. q - 1 : w = m * Second
        BY <1>4 DEF Draw
    <2> HIDE DEF q, b
    <2>2. m \in Nat /\ w \in Nat
        BY <1>1, <1>2, <2>1
    <2>3. PICK d \in Nat : q = (m + 1) + d
        <3>1. q - (m + 1) \in Nat /\ q = (m + 1) + (q - (m + 1))
            BY <1>2, <2>1
        <3> QED BY <3>1
    <2>4. q * b = (m + 1) * b + d * b
        BY <1>1, <2>2, <2>3
    <2>5. d * b >= 0
        BY <1>1, <2>3
    <2>6. (w + Second) * n = (m + 1) * b
        BY <1>1, <2>1, <2>2 DEF b
    <2>7. (m + 1) * b \in Int /\ d * b \in Int /\ q * b \in Int
        BY <1>1, <1>2, <2>2, <2>3
    <2> QED BY <1>2, <2>2, <2>4, <2>5, <2>6, <2>7
<1> QED BY <1>3, <1>4

-----------------------------------------------------------------------------
\* The history's sum and length are natural, so that an average exists; the two
\* bounds on the wait only hold for such.
WaitInv == WaitTypeOK /\ FittingChecksFit /\ LateByTheOverrun

LEMMA InitWaitInv == InitWait => WaitInv
BY TimesAssumption DEF InitWait, WaitInv, WaitTypeOK, FittingChecksFit, LateByTheOverrun

\* schedule!: what is drawn lies below the distance between the end of the round
\* and the checks' end, on either side of it.
LEMMA DrawWaitStep == WaitInv /\ DrawWait => WaitInv'
<1> SUFFICES ASSUME WaitInv, DrawWait PROVE WaitInv'
    OBVIOUS
<1> DEFINE skewed == Skew * Second
<1>1. PICK left \in Remaining :
          /\ remaining' = left
          /\ wait' \in Draw(AbsoluteValue(StartBefore(left)) \div (len * Second))
    BY DEF DrawWait
<1>2. /\ sum \in Nat /\ len \in Nat \ {0} /\ left \in Nat /\ Second \in Nat \ {0}
      /\ skewed \in Nat /\ sum' = sum /\ len' = len /\ pc' = "scheduled"
    BY TimesAssumption DEF WaitInv, WaitTypeOK, DrawWait
<1>3. StartBefore(left) \in Int
    BY <1>2 DEF StartBefore
<1>4. AbsoluteValue(StartBefore(left)) \in Nat
    BY <1>3 DEF AbsoluteValue
<1>5. /\ wait' \in Nat
      /\ \/ (wait' + Second) * len <= AbsoluteValue(StartBefore(left))
         \/ wait' < Second /\ AbsoluteValue(StartBefore(left)) < len * Second
    BY <1>1, <1>2, <1>4, DrawnBelow
<1> HIDE DEF skewed
<1>6. StartBefore(left) = left * len - skewed * len - sum
    BY <1>2 DEF StartBefore, skewed
<1>7. WaitTypeOK'
    BY <1>1, <1>2, <1>5, TimesAssumption DEF WaitInv, WaitTypeOK, DrawWait
<1>8. StartBefore(remaining)' = StartBefore(left)
    BY <1>1, <1>2 DEF StartBefore
<1>9. /\ left * len \in Int /\ skewed * len \in Int /\ wait' * len \in Int
      /\ Second * len \in Int /\ Second * len >= 0 /\ len * Second = Second * len
      /\ (wait' + Second) * len = wait' * len + Second * len
    BY <1>2, <1>5
<1>10. PICK l \in Int, k \in Int, x \in Int, e \in Nat :
           l = left * len /\ k = skewed * len /\ x = wait' * len /\ e = Second * len
    BY <1>9
<1>11. \/ x + e <= AbsoluteValue(StartBefore(left))
       \/ wait' < Second /\ AbsoluteValue(StartBefore(left)) < e
    BY <1>5, <1>9, <1>10
<1>12. FittingChecksFit'
    <2> SUFFICES ASSUME StartBefore(left) > 0
                 PROVE  \/ wait' * len + sum + skewed * len <= left * len
                        \/ StartBefore(left) < Second * len /\ wait' < Second
        BY <1>1, <1>2, <1>8 DEF FittingChecksFit, skewed
    <2>1. StartBefore(left) = l - k - sum /\ AbsoluteValue(StartBefore(left)) = l - k - sum
        BY <1>3, <1>6, <1>10 DEF AbsoluteValue
    <2>2. x + sum + k <= l \/ (StartBefore(left) < e /\ wait' < Second)
        BY <1>2, <1>10, <1>11, <2>1
    <2> QED BY <1>10, <2>2
<1>13. LateByTheOverrun'
    <2> SUFFICES ASSUME StartBefore(left) <= 0
                 PROVE  \/ wait' < Second
                        \/ (wait' + Second) * len + left * len <= sum + skewed * len
        BY <1>1, <1>2, <1>8 DEF LateByTheOverrun, skewed
    <2>1. AbsoluteValue(StartBefore(left)) = sum + k - l
        BY <1>2, <1>3, <1>6, <1>10 DEF AbsoluteValue
    <2>2. wait' < Second \/ x + e + l <= sum + k
        BY <1>2, <1>10, <1>11, <2>1
    <2> QED BY <1>9, <1>10, <2>2
<1> QED BY <1>7, <1>12, <1>13 DEF WaitInv

LEMMA WaitStep == WaitInv /\ [NextWait]_waitVars => WaitInv'
<1> SUFFICES ASSUME WaitInv, [NextWait]_waitVars PROVE WaitInv'
    OBVIOUS
<1>1. CASE DrawWait
    BY <1>1, DrawWaitStep
<1>2. CASE Run
    BY <1>2, TimesAssumption DEF Run, Measured, WaitInv, WaitTypeOK, FittingChecksFit, LateByTheOverrun
<1>3. CASE UNCHANGED waitVars
    BY <1>3 DEF waitVars, WaitInv, WaitTypeOK, FittingChecksFit, LateByTheOverrun, StartBefore
<1> QED BY <1>1, <1>2, <1>3 DEF NextWait

LEMMA WaitInvHolds == WaitSpec => []WaitInv
BY InitWaitInv, WaitStep, PTL DEF WaitSpec

\* Checks that fit by the average so far end with the margin before the round does,
\* to less than a second when less than one is left for the wait (Kernel#rand returns
\* a fraction then), however many durations of whatever length the history holds.
THEOREM FittingFit == WaitSpec => []FittingChecksFit
<1>1. WaitInv => FittingChecksFit
    BY DEF WaitInv
<1> QED BY <1>1, WaitInvHolds, PTL

\* Checks that do not fit are late by no more than twice what they lack.
THEOREM LatenessBounded == WaitSpec => []LateByTheOverrun
<1>1. WaitInv => LateByTheOverrun
    BY DEF WaitInv
<1> QED BY <1>1, WaitInvHolds, PTL
=============================================================================
