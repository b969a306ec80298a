---------------------------- MODULE StartupProofs ----------------------------
(***************************************************************************)
(* The lock keeps its promise, for any number of runs and pids, until a    *)
(* run is told "stolen".  ExclusiveUntilStolen is not inductive: the       *)
(* reentrant answer is safe only because a row whose pid has come back     *)
(* belongs to a run that is no longer alive, and such a row stays where it *)
(* is.  Inv says that of the runs at work and of those about to decide.    *)
(*                                                                         *)
(* The start of a run implements the lock: opening the database is a       *)
(* stutter of TaskLock, an open that fails is a run that dies, and so what *)
(* is proved of the lock holds of runs that migrate first.  And the        *)
(* database survives any overlap of opens, for any number of runs and      *)
(* migrations, when the migrations above the version it starts from that   *)
(* can be run twice are the last ones.                                     *)
(***************************************************************************)
EXTENDS Startup, TLAPS


PidsOfTheLiving ==
  /\ \A r \in Runs : pc[r] \in Live => pid[r] \in Pids
  /\ \A r, s \in Runs :
       pc[r] \in Live /\ pc[s] \in Live /\ pid[r] = pid[s] => r = s

(* The runs a SELECT can have found have been started, so their pids are    *)
(* fixed; no answer precedes the decision.                                  *)
Started ==
  /\ \A r \in Runs : seen[r] # NoRun => pc[seen[r]] # "new"
  /\ \A r \in Runs : pc[r] \in {"new", "select", "decide"} => outcome[r] = "none"

(* The row of a run at work, or of one about to be told "reentrant", is     *)
(* there and carries its pid.                                               *)
RowCarriesPid ==
  NothingStolen =>
    /\ \A r \in Running : lock # NoRun /\ SameHostPid(r, lock)
    /\ \A r \in Runs :
         pc[r] = "decide" /\ seen[r] # NoRun /\ SameHostPid(r, seen[r])
           => lock = seen[r]

Inv ==
  /\ TypeOK
  /\ RowOwnerIsRunningOrDead
  /\ PidsOfTheLiving
  /\ Started
  /\ RowCarriesPid

LEMMA InitInv == Init => Inv
  BY NoRunAssumption, StaleAssumption
  DEF Init, Inv, TypeOK, RowOwnerIsRunningOrDead, PidsOfTheLiving, Started,
      RowCarriesPid, NothingStolen, Running, Places, Live, Outcomes

(* Every step keeps the variables in their types. *)
LEMMA TypeStep == TypeOK /\ [Next]_vars => TypeOK'
<1> USE NoRunAssumption, StaleAssumption DEF TypeOK, Live, Places, Outcomes
<1>. SUFFICES ASSUME TypeOK, [Next]_vars PROVE TypeOK'
  OBVIOUS
<1>1. CASE Tick
  BY <1>1 DEF Tick
<1>2. ASSUME NEW r \in Runs, NEW p \in Pids, NEW steal \in BOOLEAN, Start(r, p, steal)
      PROVE  TypeOK'
  BY <1>2 DEF Start
<1>3. ASSUME NEW r \in Runs, Select(r) PROVE TypeOK'
  BY <1>3 DEF Select
<1>4. ASSUME NEW r \in Runs, Insert(r) PROVE TypeOK'
  BY <1>4 DEF Insert, Deciding, Answer
<1>5. ASSUME NEW r \in Runs, Reenter(r) PROVE TypeOK'
  BY <1>5 DEF Reenter, Deciding, Answer
<1>6. ASSUME NEW r \in Runs, Refuse(r) PROVE TypeOK'
  BY <1>6 DEF Refuse, Deciding, Answer
<1>7. ASSUME NEW r \in Runs, Steal(r) PROVE TypeOK'
  BY <1>7 DEF Steal, Deciding, Answer
<1>8. ASSUME NEW r \in Runs, Release(r) PROVE TypeOK'
  BY <1>8 DEF Release
<1>9. ASSUME NEW r \in Runs, Crash(r) PROVE TypeOK'
  BY <1>9 DEF Crash
<1>10. CASE UNCHANGED vars
  BY <1>10 DEF vars
<1>. QED
  BY <1>1, <1>2, <1>3, <1>4, <1>5, <1>6, <1>7, <1>8, <1>9, <1>10 DEF Next

(* The four facts beside the types, one action at a time. *)
LEMMA InvStep == Inv /\ [Next]_vars => Inv'
<1> USE NoRunAssumption, NoPidAssumption, StaleAssumption
<1>. SUFFICES ASSUME Inv, [Next]_vars PROVE Inv'
  OBVIOUS
<1>0. TypeOK'
  BY TypeStep DEF Inv
<1> USE DEF Inv, TypeOK, RowOwnerIsRunningOrDead, PidsOfTheLiving, Started,
            RowCarriesPid, NothingStolen, Running, SameHostPid, Live
<1>1. CASE Tick
  BY <1>0, <1>1 DEF Tick
<1>2. ASSUME NEW r \in Runs, NEW p \in Pids, NEW steal \in BOOLEAN, Start(r, p, steal)
      PROVE  Inv'
  <2>1. RowOwnerIsRunningOrDead' /\ Started'
    BY <1>2 DEF Start
  <2>2. PidsOfTheLiving'
    BY <1>2 DEF Start
  <2>3. RowCarriesPid'
    <3>1. lock # NoRun => lock # r
      BY <1>2 DEF Start
    <3>2. \A s \in Runs : seen[s] # r
      BY <1>2 DEF Start
    <3>. QED
      BY <1>2, <3>1, <3>2 DEF Start
  <2>. QED
    BY <1>0, <2>1, <2>2, <2>3
<1>3. ASSUME NEW r \in Runs, Select(r) PROVE Inv'
  <2>1. RowOwnerIsRunningOrDead' /\ PidsOfTheLiving' /\ Started'
    BY <1>3 DEF Select
  <2>2. RowCarriesPid'
    BY <1>3 DEF Select
  <2>. QED
    BY <1>0, <2>1, <2>2
<1>4. ASSUME NEW r \in Runs, Insert(r) PROVE Inv'
  <2>. USE <1>4 DEF Insert, Deciding, Answer
  <2>1. RowOwnerIsRunningOrDead' /\ Started'
    OBVIOUS
  <2>2. PidsOfTheLiving'
    OBVIOUS
  <2>3. RowCarriesPid'
    <3>1. NothingStolen' => NothingStolen
      OBVIOUS
    <3>. QED
      BY <3>1
  <2>. QED
    BY <1>0, <2>1, <2>2, <2>3
<1>5. ASSUME NEW r \in Runs, Reenter(r) PROVE Inv'
  <2>. USE <1>5 DEF Reenter, Deciding, Answer
  <2>1. RowOwnerIsRunningOrDead' /\ Started'
    OBVIOUS
  <2>2. PidsOfTheLiving'
    OBVIOUS
  <2>3. RowCarriesPid'
    <3>1. NothingStolen' => NothingStolen
      OBVIOUS
    <3>. QED
      BY <3>1
  <2>. QED
    BY <1>0, <2>1, <2>2, <2>3
<1>6. ASSUME NEW r \in Runs, Refuse(r) PROVE Inv'
  <2>. USE <1>6 DEF Refuse, Deciding, Answer
  <2>1. RowOwnerIsRunningOrDead' /\ Started' /\ PidsOfTheLiving'
    OBVIOUS
  <2>2. RowCarriesPid'
    <3>1. NothingStolen' => NothingStolen
      OBVIOUS
    <3>. QED
      BY <3>1
  <2>. QED
    BY <1>0, <2>1, <2>2
<1>7. ASSUME NEW r \in Runs, Steal(r) PROVE Inv'
  <2>. USE <1>7 DEF Steal, Deciding, Answer
  <2>1. RowOwnerIsRunningOrDead' /\ Started' /\ PidsOfTheLiving'
    OBVIOUS
  <2>2. ~NothingStolen'
    OBVIOUS
  <2>. QED
    BY <1>0, <2>1, <2>2
<1>8. ASSUME NEW r \in Runs, Release(r) PROVE Inv'
  <2>. USE <1>8 DEF Release
  <2>1. RowOwnerIsRunningOrDead' /\ Started' /\ PidsOfTheLiving'
    OBVIOUS
  <2>2. RowCarriesPid'
    OBVIOUS
  <2>. QED
    BY <1>0, <2>1, <2>2
<1>9. ASSUME NEW r \in Runs, Crash(r) PROVE Inv'
  <2>. USE <1>9 DEF Crash
  <2>1. RowOwnerIsRunningOrDead' /\ Started' /\ PidsOfTheLiving'
    OBVIOUS
  <2>2. RowCarriesPid'
    OBVIOUS
  <2>. QED
    BY <1>0, <2>1, <2>2
<1>10. CASE UNCHANGED vars
  BY <1>0, <1>10 DEF vars
<1>. QED
  BY <1>1, <1>2, <1>3, <1>4, <1>5, <1>6, <1>7, <1>8, <1>9, <1>10 DEF Next

(* A row whose pid comes back is a dead run's, so two runs at work that     *)
(* share the row's pid are the same run.                                    *)
LEMMA InvIsExclusive == Inv => ExclusiveUntilStolen
  BY NoRunAssumption
  DEF Inv, RowCarriesPid, PidsOfTheLiving, TypeOK, ExclusiveUntilStolen,
      Exclusive, Running, SameHostPid, Live

LEMMA InvHolds == Spec => []Inv
  BY InitInv, InvStep, PTL DEF Spec

(* The variables of the lock keep their types. *)
THEOREM TypeCorrect == Spec => []TypeOK
<1>1. Inv => TypeOK
  BY DEF Inv
<1>. QED
  BY InvHolds, <1>1, PTL

(* Until a run is told "stolen" at most one `hungerloop run` drives a task, *)
(* whatever the number of runs, crashes and reused pids.                    *)
THEOREM LockExcludes == Spec => []ExclusiveUntilStolen
  BY InvHolds, InvIsExclusive, PTL

(* The row of task_locks belongs to a run at work or to a killed one.       *)
THEOREM NoForgottenRow == Spec => []RowOwnerIsRunningOrDead
<1>1. Inv => RowOwnerIsRunningOrDead
  BY DEF Inv
<1>. QED
  BY InvHolds, <1>1, PTL

(* A holder at work loses its row only when another run is told "stolen".   *)
THEOREM OnlyTheftTakesTheRow == Spec => HolderLosesRowOnlyByTheft
<1>1. ASSUME Inv, Next,
             NEW r \in Runs, lock = r, pc[r] = "running", lock' # r
      PROVE  \/ pc'[r] = "done"
             \/ \E s \in Runs : outcome[s] # outcome'[s] /\ outcome'[s] = "stolen"
  <2> USE NoRunAssumption, <1>1 DEF Inv, TypeOK
  <2>1. ~Tick
    BY DEF Tick
  <2>2. PICK t \in Runs :
          \/ Insert(t) \/ Steal(t) \/ Release(t)
    BY <2>1 DEF Next, Start, Select, Reenter, Refuse, Crash
  <2>3. ~Insert(t)
    BY DEF Insert
  <2>4. CASE Steal(t)
    BY <2>4 DEF Steal, Deciding, Answer, Started
  <2>5. CASE Release(t)
    BY <2>5 DEF Release
  <2>. QED
    BY <2>2, <2>3, <2>4, <2>5
<1>2. Inv /\ [Next]_vars =>
        [\A r \in Runs : (lock = r /\ pc[r] = "running" /\ lock' # r)
           => \/ pc'[r] = "done"
              \/ \E s \in Runs : outcome[s] # outcome'[s] /\ outcome'[s] = "stolen"]_vars
  BY <1>1 DEF vars
<1>. QED
  BY InvHolds, <1>2, PTL DEF Spec, HolderLosesRowOnlyByTheft

-----------------------------------------------------------------------------
(* So are v6 and v7 above version 3; v3 is not above version 2.             *)
Orderly ==
  \A v \in Rerunnable, w \in 1..Latest :
    Initial < v /\ v < w => w \in Rerunnable

-----------------------------------------------------------------------------
(* The lock below the database.                                             *)

LEMMA StepIsLockStep == [StartupNext]_<<vars, dbVars>> => [Next]_vars
<1>. SUFFICES ASSUME [StartupNext]_<<vars, dbVars>> PROVE [Next]_vars
  OBVIOUS
<1>1. ASSUME NEW r \in Runs, Open(r) PROVE [Next]_vars
  BY <1>1 DEF Open
<1>2. ASSUME NEW r \in Runs, OpenFails(r) PROVE [Next]_vars
  BY <1>2 DEF OpenFails, Next
<1>3. CASE Proceed
  BY <1>3 DEF Proceed
<1>4. CASE UNCHANGED <<vars, dbVars>>
  BY <1>4
<1>. QED
  BY <1>1, <1>2, <1>3, <1>4 DEF StartupNext

(* A run that opens the database first is a run of the lock.                *)
THEOREM StartupIsTaskLock == StartupSpec => Spec
<1>1. StartupInit => Init
  BY DEF StartupInit
<1>. QED
  BY <1>1, StepIsLockStep, PTL DEF StartupSpec, Spec

(* So at most one run is at work until a steal, with runs whose open        *)
(* migrates, waits and fails (acquire_task_lock after SQLiteRepository.open).*)
THEOREM StartupExcludes == StartupSpec => []ExclusiveUntilStolen
  BY StartupIsTaskLock, LockExcludes, PTL

-----------------------------------------------------------------------------
(* The database below the lock.                                             *)

(* The migrations a file has had have no gaps, whatever version it claims,   *)
(* and an opener is at one whose predecessors it has had.                   *)
NoGaps ==
  /\ \A v \in schema : 1..v \subseteq schema
  /\ 1..version \subseteq schema
  /\ \A r \in Runs : step[r] = "migrating" =>
       next[r] \in (Initial + 1)..Latest /\ 1..(next[r] - 1) \subseteq schema

DBInv == DB!TypeOK /\ NoGaps /\ NeverStuck

LEMMA InitDB == StartupInit => DBInv
  BY DatabaseAssumption
  DEF StartupInit, DB!Init, DBInv, DB!TypeOK, NoGaps, NeverStuck, DB!NeverStuck, DB!Applies

LEMMA LookStep == ASSUME DBInv, NEW r \in Runs, DB!Look(r) PROVE DBInv'
<1> USE DatabaseAssumption DEF DBInv, DB!TypeOK, DB!Look
<1>1. DB!TypeOK'
  OBVIOUS
<1>2. NoGaps'
  BY DEF NoGaps
<1>3. NeverStuck'
  BY DEF NeverStuck, DB!NeverStuck, DB!Applies
<1>. QED
  BY <1>1, <1>2, <1>3

LEMMA ApplyStep == ASSUME Orderly, DBInv, NEW r \in Runs, DB!Apply(r) PROVE DBInv'
<1> DEFINE n == next[r]
<1> USE DatabaseAssumption DEF DBInv, DB!TypeOK
<1>1. /\ n \in (Initial + 1)..Latest /\ 1..(n - 1) \subseteq schema
      /\ n \notin schema \/ n \in Rerunnable
      /\ schema' = schema \cup {n} /\ version' = n
  BY DEF DB!Apply, DB!Applies, NoGaps
<1>2. /\ next' = [next EXCEPT ![r] = n + 1]
      /\ step' = [step EXCEPT ![r] = IF n = Latest THEN "open" ELSE @]
      /\ step[r] = "migrating"
  BY DEF DB!Apply
<1> HIDE DEF n
<1>3. DB!TypeOK'
  BY <1>1, <1>2
<1>4. NoGaps'
<2>1. \A v \in schema' : 1..v \subseteq schema'
  BY <1>1 DEF NoGaps
<2>2. ASSUME NEW s \in Runs, step'[s] = "migrating"
      PROVE  next'[s] \in (Initial + 1)..Latest /\ 1..(next'[s] - 1) \subseteq schema'
<3>1. CASE s = r
  BY <1>1, <1>2, <2>2, <3>1
<3>2. CASE s # r
  BY <1>1, <1>2, <2>2, <3>2 DEF NoGaps
<3>. QED
  BY <3>1, <3>2
<2>. QED
  BY <1>1, <2>1, <2>2 DEF NoGaps
<1>5. NeverStuck'
<2>1. ASSUME NEW v \in (n + 1)..Latest, v \in schema' PROVE v \in Rerunnable
<3>1. v \in schema /\ n \in 1..v
  BY <1>1, <2>1
<3>2. n \in Rerunnable
  BY <1>1, <3>1 DEF NoGaps
<3>. QED
  BY <1>1, <2>1, <3>2 DEF Orderly
<2>. QED
  BY <1>1, <2>1 DEF NeverStuck, DB!NeverStuck, DB!Applies
<1>. QED
  BY <1>3, <1>4, <1>5

LEMMA FailsStep == ASSUME DBInv, NEW r \in Runs, NEW busy, DB!Fails(r, busy) PROVE DBInv'
<1> USE DatabaseAssumption DEF DBInv, DB!TypeOK, DB!Fails
<1>1. DB!TypeOK' /\ NoGaps'
  BY DEF NoGaps
<1>2. NeverStuck'
  BY DEF NeverStuck, DB!NeverStuck, DB!Applies
<1>. QED
  BY <1>1, <1>2

LEMMA DBStep == ASSUME Orderly, DBInv, [StartupNext]_<<vars, dbVars>> PROVE DBInv'
<1>1. ASSUME NEW r \in Runs, Open(r) PROVE DBInv'
  BY <1>1, LookStep, ApplyStep DEF Open
<1>2. ASSUME NEW r \in Runs, OpenFails(r) PROVE DBInv'
  BY <1>2, FailsStep DEF OpenFails
<1>3. CASE UNCHANGED dbVars
  BY <1>3 DEF dbVars, DBInv, DB!TypeOK, NoGaps, NeverStuck, DB!NeverStuck, DB!Applies
<1>. QED
  BY <1>1, <1>2, <1>3 DEF StartupNext, Proceed

(* However opens overlap and die, the next command finds only migrations it *)
(* can apply (SQLiteMigrator, from version 3 on).                           *)
THEOREM DatabaseSurvives ==
  ASSUME Orderly PROVE StartupSpec => []NeverStuck
<1>1. DBInv /\ [StartupNext]_<<vars, dbVars>> => DBInv'
  BY DBStep
<1>2. DBInv => NeverStuck
  BY DEF DBInv
<1>. QED
  BY InitDB, <1>1, <1>2, PTL DEF StartupSpec
=============================================================================
