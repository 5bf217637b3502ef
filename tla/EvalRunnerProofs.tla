---------------------------- MODULE EvalRunnerProofs ----------------------------
(***************************************************************************)
(* Proofs about EvalRunner, for every finite set of processes and every    *)
(* set of runs and datasets, any number of crashes and of deadlines that   *)
(* pass: the import lock, and the records a suite resumes from; then about *)
(* what the suite is made of and what is made of its runs, as functions:   *)
(* EvalScoring and CaseValidation.                                         *)
(***************************************************************************)
EXTENDS EvalRunner, FiniteSetTheorems, TLAPS

Importers == {p \in Procs : pc[p] \in Holding}
Locked == IF lock # Unlocked THEN 1 ELSE 0

\* An importer beyond the one whose lock file is there has cost a removal of a lock file.
LockCounted ==
    /\ pc \in [Procs -> PC]
    /\ takeovers \in Nat
    /\ Cardinality(Importers) <= takeovers + Locked

\* What a process does with a run that is its own, and what is on disk of it.
Recorded(p, r) ==
    /\ opened[r] \subseteq {p}
    /\ task[p][r] \in {"skipped", "ok"} => record[r] = "ok"
    /\ task[p][r] = "error" => record[r] = "error"
    /\ task[p][r] = "filled" => record[r] \in {"ok", "error"}
    /\ task[p][r] \in {Writing["ok"], Writing["error"]} \cup Rewriting =>
          record[r] = "empty" /\ opened[r] = {p}
    /\ task[p][r] = "cleared" => record[r] = "gone"
    /\ task[p][r] \in {"waiting", "running"} => record[r] = "none"
    /\ ~Fresh /\ task[p][r] = "queued" => record[r] # "ok"
    /\ task[p][r] # "failed"

\* Where the main thread is while the runs are where they are.
Phase(p, r) ==
    /\ task[p][r] # "none" => r \in Assigned[p]
    /\ task[p][r] \in Rewriting => pc[p] = "fill"
    /\ pc[p] \in {"fill", "done"} /\ r \in Assigned[p] =>
          task[p][r] \in DOMAIN Result \cup Rewriting \cup {"filled"}
    /\ pc[p] = "done" /\ r \in Assigned[p] => task[p][r] = "filled"

Records ==
    /\ pc \in [Procs -> PC]
    /\ task \in [Procs -> [Runs -> Task]]
    /\ record \in [Runs -> OnDisk]
    /\ opened \in [Runs -> SUBSET Procs]
    /\ \A p \in Procs, r \in Runs : Phase(p, r) /\ (Exclusive(p, r) => Recorded(p, r))

-----------------------------------------------------------------------------
\* The import lock.

LEMMA ImportersFinite ==
  ASSUME NEW S \in SUBSET Procs
  PROVE  IsFiniteSet(S) /\ Cardinality(S) \in Nat
BY ProcsAssumption, FS_Subset, FS_CardinalityType

\* A step that lets nobody in and keeps the lock file.
LEMMA NobodyEnters ==
  ASSUME LockCounted, pc' \in [Procs -> PC], takeovers' = takeovers, lock' = lock,
         Importers' \subseteq Importers
  PROVE  LockCounted'
<1>1. Cardinality(Importers') <= Cardinality(Importers)
  BY ImportersFinite, FS_Subset DEF Importers
<1>2. Cardinality(Importers') \in Nat /\ Cardinality(Importers) \in Nat /\ Locked \in Nat
  BY ImportersFinite DEF Importers, Locked
<1> QED
  BY <1>1, <1>2 DEF LockCounted, Locked

LEMMA LockInit == Init => LockCounted
<1> SUFFICES ASSUME Init PROVE LockCounted
  OBVIOUS
<1>1. Importers = {}
  BY DEF Init, Importers, Holding
<1> QED
  BY <1>1, FS_EmptySet DEF Init, LockCounted, Locked, PC

LEMMA LockNext == LockCounted /\ [Next]_vars => LockCounted'
<1> SUFFICES ASSUME LockCounted, [Next]_vars PROVE LockCounted'
  OBVIOUS
<1> USE NameAssumption
<1>0. pc \in [Procs -> PC] /\ takeovers \in Nat /\ Cardinality(Importers) <= takeovers + Locked
      /\ Cardinality(Importers) \in Nat
  BY ImportersFinite DEF LockCounted, Importers
<1>1. ASSUME NEW p \in Procs, CreateLock(p) PROVE LockCounted'
  <2>1. /\ pc' = [pc EXCEPT ![p] = "recheck"] /\ pc[p] = "lock"
        /\ lock = Unlocked /\ lock' = p /\ takeovers' = takeovers
    BY <1>1 DEF CreateLock, At, bounds
  <2>2. Importers' = Importers \cup {p} /\ p \notin Importers
    BY <1>0, <2>1 DEF Importers, Holding
  <2>3. Cardinality(Importers') = Cardinality(Importers) + 1
    BY <2>2, ImportersFinite, FS_AddElement DEF Importers
  <2>4. Locked = 0 /\ Locked' = 1
    BY <2>1 DEF Locked
  <2> QED
    BY <1>0, <2>1, <2>3, <2>4 DEF LockCounted, PC
<1>2. ASSUME NEW p \in Procs, TakeOver(p) PROVE LockCounted'
  <2>1. pc' = pc /\ lock # Unlocked /\ lock' = Unlocked /\ takeovers' = takeovers + 1
    BY <1>2 DEF TakeOver
  <2>2. Importers' = Importers
    BY <2>1 DEF Importers
  <2> QED
    BY <1>0, <2>1, <2>2 DEF LockCounted, Locked
<1>3. ASSUME NEW p \in Procs, Unlock(p) PROVE LockCounted'
  <2>1. pc' = [pc EXCEPT ![p] = "scan"] /\ pc[p] = "unlock" /\ lock' = Unlocked /\ takeovers' = takeovers
    BY <1>3 DEF Unlock, At, bounds
  <2>2. Importers' = Importers \ {p} /\ p \in Importers
    BY <1>0, <2>1 DEF Importers, Holding
  <2>3. Cardinality(Importers') = Cardinality(Importers) - 1
    BY <2>2, ImportersFinite, FS_RemoveElement DEF Importers
  <2>4. Locked \in 0..1 /\ Locked' = 0
    BY <2>1 DEF Locked
  <2> QED
    BY <1>0, <2>1, <2>3, <2>4 DEF LockCounted, PC
<1>4. ASSUME NEW p \in Procs, Crash(p) PROVE LockCounted'
  <2>1. pc' = [pc EXCEPT ![p] = "off"] /\ lock' = lock /\ takeovers' = takeovers
    BY <1>4 DEF Crash, Reset, store
  <2>2. Importers' \subseteq Importers
    BY <1>0, <2>1 DEF Importers, Holding
  <2> QED
    BY <1>0, <2>1, <2>2, NobodyEnters DEF PC
<1>5. ASSUME NEW p \in Procs,
             Open(p) \/ Recheck(p) \/ ImportEnds(p) \/ Scan(p) \/ Finish(p) \/ FillOpen(p) \/ FillEnds(p)
      PROVE  LockCounted'
  <2>1. PICK to \in PC :
            /\ pc' = [pc EXCEPT ![p] = to] /\ (to \in Holding => pc[p] \in Holding)
            /\ lock' = lock /\ takeovers' = takeovers
    BY <1>5 DEF Open, Recheck, ImportEnds, Scan, Finish, AfterPool, FillOpen, FillEnds, At, store, bounds,
       PC, Holding
  <2>2. Importers' \subseteq Importers
    BY <1>0, <2>1 DEF Importers
  <2> QED
    BY <1>0, <2>1, <2>2, NobodyEnters
<1>6. ASSUME NEW p \in Procs, ImportNext(p) \/ ImportPart(p) \/ DeadlinePasses(p) PROVE LockCounted'
  <2>1. pc' = pc /\ lock' = lock /\ takeovers' = takeovers
    BY <1>6 DEF ImportNext, ImportPart, DeadlinePasses, store, bounds
  <2> QED
    BY <1>0, <2>1, NobodyEnters DEF Importers
<1>7. ASSUME NEW p \in Procs, Refill(p) \/ FillWrite(p) \/ \E r \in Runs : Thread(p, r)
      PROVE  LockCounted'
  <2>1. pc' = pc /\ lock' = lock /\ takeovers' = takeovers
    BY <1>7 DEF Refill, FillWrite, Thread, StartRun, MakeDirectory, Acquire, RunCase, WriteRecord, main,
       store, bounds
  <2> QED
    BY <1>0, <2>1, NobodyEnters DEF Importers
<1>8. CASE UNCHANGED vars
  <2>1. pc' = pc /\ lock' = lock /\ takeovers' = takeovers
    BY <1>8 DEF vars, main, store, bounds
  <2> QED
    BY <1>0, <2>1, NobodyEnters DEF Importers
<1> QED
  BY <1>1, <1>2, <1>3, <1>4, <1>5, <1>6, <1>7, <1>8 DEF Next, Main

\* A second importer is let in only where a waiting process has removed a lock file
\* (_import_lock of eval_tasks.py), for any number of processes and removals.
THEOREM ImportIsLocked == Spec => []LockBrokenByTakeoverOnly
<1>1. LockCounted => LockBrokenByTakeoverOnly
  <2> SUFFICES ASSUME LockCounted PROVE LockBrokenByTakeoverOnly
    OBVIOUS
  <2>1. Cardinality(Importers) \in Nat /\ Locked \in 0..1
    BY ImportersFinite DEF Importers, Locked
  <2> QED
    BY <2>1 DEF LockCounted, LockBrokenByTakeoverOnly, Importers
<1> QED
  BY <1>1, LockInit, LockNext, PTL DEF Spec

-----------------------------------------------------------------------------
\* The records.

LEMMA RecordsInit == Init => Records
BY DEF Init, Records, Recorded, Phase, PC, Task, OnDisk, Rewriting, Filling, Writing

\* The names of what a process does with a run.
LEMMA TaskNames ==
  /\ Writing["ok"] = "writing ok" /\ Writing["error"] = "writing error"
  /\ Filling["ok"] = "filling ok" /\ Filling["error"] = "filling error"
  /\ Rewriting = {"filling ok", "filling error"}
  /\ Active = {"cleared", "waiting", "running", "writing ok", "writing error"}
  /\ DOMAIN Result = {"skipped", "ok", "error"}
  /\ Result["skipped"] = "ok" /\ Result["ok"] = "ok" /\ Result["error"] = "error"
  /\ Task = {"none", "queued", "filled", "failed", "skipped", "ok", "error", "cleared", "waiting",
             "running", "writing ok", "writing error", "filling ok", "filling error"}
<1>1. /\ Writing["ok"] = "writing ok" /\ Writing["error"] = "writing error"
      /\ Filling["ok"] = "filling ok" /\ Filling["error"] = "filling error"
  BY DEF Writing, Filling
<1>2. /\ DOMAIN Result = {"skipped", "ok", "error"}
      /\ Result["skipped"] = "ok" /\ Result["ok"] = "ok" /\ Result["error"] = "error"
  BY DEF Result
<1> QED
  BY <1>1, <1>2 DEF Rewriting, Active, Task

\* Whose run is another's too is nobody's own.
LEMMA OwnRun ==
  ASSUME Records, NEW p \in Procs, NEW r \in Runs, task[p][r] # "none"
  PROVE  r \in Assigned[p] /\ \A q \in Procs \ {p} : ~Exclusive(q, r)
BY DEF Records, Phase, Exclusive

\* One run of one process moves on: its task, its record, and who has that open.
LEMMA RunMovesOn ==
  ASSUME Records, NEW p \in Procs, NEW r \in Runs, task[p][r] # "none",
         NEW t \in Task, NEW c \in OnDisk, NEW o \in SUBSET Procs,
         task' = [task EXCEPT ![p][r] = t], record' = [record EXCEPT ![r] = c],
         opened' = [opened EXCEPT ![r] = o], pc' = pc,
         Phase(p, r)', Exclusive(p, r) => Recorded(p, r)'
  PROVE  Records'
<1>1. /\ pc \in [Procs -> PC] /\ task \in [Procs -> [Runs -> Task]]
      /\ record \in [Runs -> OnDisk] /\ opened \in [Runs -> SUBSET Procs]
      /\ \A q \in Procs, s \in Runs : Phase(q, s) /\ (Exclusive(q, s) => Recorded(q, s))
  BY DEF Records
<1>2. /\ task' \in [Procs -> [Runs -> Task]] /\ record' \in [Runs -> OnDisk]
      /\ opened' \in [Runs -> SUBSET Procs]
      /\ \A s \in Runs \ {r} : record'[s] = record[s] /\ opened'[s] = opened[s]
      /\ \A q \in Procs, s \in Runs : q # p \/ s # r => task'[q][s] = task[q][s]
  BY <1>1
<1>3. ASSUME NEW q \in Procs, NEW s \in Runs
      PROVE  Phase(q, s)' /\ (Exclusive(q, s) => Recorded(q, s)')
  <2>0. Phase(q, s) /\ (Exclusive(q, s) => Recorded(q, s))
    BY <1>1
  <2>1. CASE q = p /\ s = r
    BY <2>1
  <2>2. CASE s # r
    BY <2>0, <2>2, <1>2 DEF Phase, Recorded
  <2>3. CASE q # p /\ s = r
    <3>1. ~Exclusive(q, s)
      BY <2>3, OwnRun
    <3>2. task'[q][s] = task[q][s]
      BY <2>3, <1>2
    <3> QED
      BY <2>0, <3>1, <3>2 DEF Phase
  <2> QED
    BY <2>1, <2>2, <2>3
<1>4. \A q \in Procs, s \in Runs : Exclusive(q, s)' <=> Exclusive(q, s)
  BY DEF Exclusive
<1> QED
  BY <1>1, <1>2, <1>3, <1>4 DEF Records

Wrote(p, r, status, c, o) ==
    /\ record' = [record EXCEPT ![r] = c] /\ opened' = [opened EXCEPT ![r] = o]
    /\ opened[r] = {p} /\ record[r] = "empty" => c = status /\ o = {}

\* Writing to a record of one's own ends with what was written.
LEMMA OwnWrite ==
  ASSUME Records, NEW p \in Procs, NEW r \in Runs, NEW status \in {"ok", "error"},
         WriteOver(p, r, status)
  PROVE  \E c \in OnDisk, o \in SUBSET Procs : Wrote(p, r, status, c, o)
<1>1. record \in [Runs -> OnDisk] /\ opened \in [Runs -> SUBSET Procs]
  BY DEF Records
<1>2. opened' = [opened EXCEPT ![r] = opened[r] \ {p}] /\ opened[r] \ {p} \in SUBSET Procs
  BY <1>1 DEF WriteOver
<1>3. PICK c \in OnDisk : /\ record' = [record EXCEPT ![r] = c]
                          /\ p \in opened[r] /\ record[r] = "empty" => c = status
  <2>1. CASE p \notin opened[r]
    <3>1. record' = [record EXCEPT ![r] = record[r]] /\ record[r] \in OnDisk
      BY <1>1, <2>1 DEF WriteOver
    <3> QED
      BY <2>1, <3>1
  <2>2. CASE p \in opened[r]
    <3>1. PICK c \in {status} \cup (IF record[r] = "empty" THEN {} ELSE {"mixed"}) :
             record' = [record EXCEPT ![r] = c]
      BY <2>2 DEF WriteOver
    <3>2. c \in OnDisk /\ (record[r] = "empty" => c = status)
      BY <3>1 DEF OnDisk, Unparsable
    <3> QED
      BY <3>1, <3>2
  <2> QED
    BY <2>1, <2>2
<1> QED
  BY <1>2, <1>3 DEF Wrote

LEMMA RecordsThread ==
  ASSUME Records, NEW p \in Procs, NEW r \in Runs, Thread(p, r)
  PROVE  Records'
<1>0. /\ pc' = pc /\ record \in [Runs -> OnDisk] /\ opened \in [Runs -> SUBSET Procs]
      /\ task \in [Procs -> [Runs -> Task]]
      /\ record = [record EXCEPT ![r] = record[r]] /\ opened = [opened EXCEPT ![r] = opened[r]]
  BY DEF Thread, StartRun, MakeDirectory, Acquire, RunCase, WriteRecord, main, Records
<1>1. Phase(p, r) /\ (Exclusive(p, r) => Recorded(p, r))
  BY DEF Records
\* A run that is on its way is not of a suite that is being written again.
<1>2. ASSUME NEW t \in {"cleared", "waiting", "running", Writing["ok"], Writing["error"], "ok", "error",
                       "failed"},
             task[p][r] \in {"queued"} \cup Active, task' = [task EXCEPT ![p][r] = t]
      PROVE  Phase(p, r)' /\ t \in Task /\ task[p][r] # "none" /\ task'[p][r] = t
  <2>1. task[p][r] # "none" /\ t \in Task /\ t \notin Rewriting /\ task'[p][r] = t
    BY <1>0, <1>2, TaskNames
  <2>2. pc[p] \notin {"fill", "done"}
    BY <1>1, <1>2, TaskNames DEF Phase
  <2> QED
    BY <1>0, <1>1, <2>1, <2>2 DEF Phase
<1>3. CASE StartRun(p, r)
  <2>1. task[p][r] = "queued"
    BY <1>3 DEF StartRun, Advance
  <2>2. CASE /\ task' = [task EXCEPT ![p][r] = "cleared"] /\ record' = [record EXCEPT ![r] = "gone"]
             /\ opened' = [opened EXCEPT ![r] = {}]
    <3>1. Phase(p, r)' /\ task[p][r] # "none" /\ task'[p][r] = "cleared" /\ "cleared" \in Task
      BY <1>2, <2>1, <2>2
    <3>2. record'[r] = "gone" /\ opened'[r] = {} /\ "gone" \in OnDisk
      BY <1>0, <2>2 DEF OnDisk
    <3>3. Recorded(p, r)'
      BY <3>1, <3>2, TaskNames DEF Recorded
    <3> QED
      BY <1>0, <2>2, <3>1, <3>2, <3>3, RunMovesOn
  <2>3. CASE /\ Contended(p, r) /\ task' = [task EXCEPT ![p][r] = "failed"]
             /\ \/ UNCHANGED disk
                \/ record' = [record EXCEPT ![r] = "none"] /\ opened' = [opened EXCEPT ![r] = {}]
    <3>1. Phase(p, r)' /\ task[p][r] # "none" /\ "failed" \in Task
      BY <1>2, <2>1, <2>3
    <3>2. PICK q \in Procs \ {p} : task[q][r] # "none"
      BY <2>3, TaskNames DEF Contended
    <3>3. ~Exclusive(p, r)
      BY <3>2, OwnRun
    <3>4. PICK c \in OnDisk, o \in SUBSET Procs :
             record' = [record EXCEPT ![r] = c] /\ opened' = [opened EXCEPT ![r] = o]
      <4>1. CASE UNCHANGED disk
        BY <1>0, <4>1 DEF disk
      <4>2. CASE record' = [record EXCEPT ![r] = "none"] /\ opened' = [opened EXCEPT ![r] = {}]
        BY <4>2 DEF OnDisk
      <4> QED
        BY <2>3, <4>1, <4>2
    <3> QED
      BY <1>0, <2>3, <3>1, <3>3, <3>4, RunMovesOn
  <2> QED
    BY <1>3, <2>2, <2>3 DEF StartRun, Advance
<1>4. CASE MakeDirectory(p, r)
  <2> DEFINE c == IF record[r] = "gone" THEN "none" ELSE record[r]
  <2>1. /\ task[p][r] = "cleared" /\ task' = [task EXCEPT ![p][r] = "waiting"]
        /\ record' = [record EXCEPT ![r] = c] /\ opened' = [opened EXCEPT ![r] = opened[r]]
    BY <1>0, <1>4 DEF MakeDirectory, Advance
  <2>2. Phase(p, r)' /\ task[p][r] # "none" /\ task'[p][r] = "waiting" /\ "waiting" \in Task
    BY <1>2, <2>1, TaskNames
  <2>3. c \in OnDisk /\ record'[r] = c /\ opened'[r] = opened[r]
    BY <1>0, <2>1 DEF OnDisk
  <2>4. ASSUME Exclusive(p, r) PROVE Recorded(p, r)'
    <3>1. record[r] = "gone" /\ opened[r] \subseteq {p}
      BY <1>1, <2>1, <2>4 DEF Recorded
    <3>2. record'[r] = "none" /\ opened'[r] \subseteq {p}
      BY <2>3, <3>1
    <3> QED
      BY <2>2, <3>2, TaskNames DEF Recorded
  <2> HIDE DEF c
  <2> QED
    BY <1>0, <2>1, <2>2, <2>3, <2>4, RunMovesOn
<1>5. CASE Acquire(p, r)
  <2>1. /\ task[p][r] = "waiting" /\ task' = [task EXCEPT ![p][r] = "running"]
        /\ record' = [record EXCEPT ![r] = record[r]] /\ opened' = [opened EXCEPT ![r] = opened[r]]
    BY <1>0, <1>5 DEF Acquire, Advance, store, disk
  <2>2. Phase(p, r)' /\ task[p][r] # "none" /\ task'[p][r] = "running" /\ "running" \in Task
    BY <1>2, <2>1, TaskNames
  <2>3. /\ record[r] \in OnDisk /\ record'[r] = record[r]
        /\ opened'[r] = opened[r] /\ opened[r] \in SUBSET Procs
    BY <1>0, <2>1
  <2>4. ASSUME Exclusive(p, r) PROVE Recorded(p, r)'
    <3>1. record'[r] = "none" /\ opened'[r] \subseteq {p}
      BY <1>1, <2>1, <2>3, <2>4 DEF Recorded
    <3> QED
      BY <2>2, <3>1, TaskNames DEF Recorded
  <2> QED
    BY <1>0, <2>1, <2>2, <2>3, <2>4, RunMovesOn
<1>6. CASE RunCase(p, r)
  <2>1. task[p][r] = "running"
    BY <1>6 DEF RunCase, Advance
  <2>2. ASSUME NEW t \in {Writing["ok"], Writing["error"]},
               task' = [task EXCEPT ![p][r] = t], OpenRecord(p, r)
        PROVE  Records'
    <3>1. Phase(p, r)' /\ task[p][r] # "none" /\ task'[p][r] = t /\ t \in Task
      BY <1>2, <2>1, <2>2, TaskNames
    <3>2. /\ record' = [record EXCEPT ![r] = "empty"] /\ opened' = [opened EXCEPT ![r] = opened[r] \cup {p}]
          /\ "empty" \in OnDisk /\ opened[r] \cup {p} \in SUBSET Procs
      BY <1>0, <2>2 DEF OpenRecord, OnDisk, Unparsable
    <3>3. record'[r] = "empty" /\ opened'[r] = opened[r] \cup {p}
      BY <1>0, <3>2
    <3>4. Exclusive(p, r) => Recorded(p, r)'
      BY <1>1, <3>1, <3>3, TaskNames DEF Recorded
    <3> QED
      BY <1>0, <2>2, <3>1, <3>2, <3>4, RunMovesOn
  <2>3. CASE record[r] = "gone" /\ task' = [task EXCEPT ![p][r] = "failed"] /\ UNCHANGED disk
    <3>1. Phase(p, r)' /\ task[p][r] # "none" /\ "failed" \in Task
      BY <1>2, <2>1, <2>3, TaskNames
    <3>2. ~Exclusive(p, r)
      BY <1>1, <2>1, <2>3 DEF Recorded
    <3>3. /\ record' = [record EXCEPT ![r] = record[r]] /\ opened' = [opened EXCEPT ![r] = opened[r]]
          /\ record[r] \in OnDisk /\ opened[r] \in SUBSET Procs
      BY <1>0, <2>3 DEF disk
    <3> QED
      BY <1>0, <2>3, <3>1, <3>2, <3>3, RunMovesOn
  <2> QED
    BY <1>6, <2>2, <2>3 DEF RunCase, Advance
<1>7. CASE WriteRecord(p, r)
  <2>1. PICK status \in {"ok", "error"} :
            /\ task[p][r] = Writing[status] /\ task' = [task EXCEPT ![p][r] = status]
            /\ WriteOver(p, r, status)
    BY <1>7 DEF WriteRecord, Advance
  <2>2. task[p][r] \in Active
    BY <2>1, TaskNames
  <2>3. Phase(p, r)' /\ task[p][r] # "none" /\ task'[p][r] = status /\ status \in Task
    BY <1>2, <2>1, <2>2
  <2>4. PICK c \in OnDisk, o \in SUBSET Procs : Wrote(p, r, status, c, o)
    BY <2>1, OwnWrite
  <2>5. /\ record' = [record EXCEPT ![r] = c] /\ opened' = [opened EXCEPT ![r] = o]
        /\ record'[r] = c /\ opened'[r] = o
    BY <1>0, <2>4 DEF Wrote
  <2>6. ASSUME Exclusive(p, r) PROVE Recorded(p, r)'
    <3>1. opened[r] = {p} /\ record[r] = "empty"
      BY <1>1, <2>1, <2>6, TaskNames DEF Recorded
    <3>2. record'[r] = status /\ opened'[r] = {}
      BY <2>4, <2>5, <3>1 DEF Wrote
    <3> QED
      BY <2>3, <3>2, TaskNames DEF Recorded
  <2> QED
    BY <1>0, <2>1, <2>3, <2>5, <2>6, RunMovesOn
<1> QED
  BY <1>3, <1>4, <1>5, <1>6, <1>7 DEF Thread

\* A step of the main thread that leaves records and tasks alone.
LEMMA RecordsKept ==
  ASSUME Records, UNCHANGED <<record, opened, task>>, pc' \in [Procs -> PC],
         \A q \in Procs, r \in Runs : Phase(q, r)'
  PROVE  Records'
BY DEF Records, Recorded, Exclusive

\* The tasks of one process are laid out anew, according to the records.
LEMMA RecordsLaidOut ==
  ASSUME Records, NEW p \in Procs, NEW f \in [Runs -> {"none", "queued", "skipped"}], NEW to \in PC,
         task' = [task EXCEPT ![p] = f], record' = record, pc' = [pc EXCEPT ![p] = to],
         to \notin {"fill", "done"},
         opened' \in [Runs -> SUBSET Procs],
         \A r \in Runs : /\ opened'[r] \in {opened[r], opened[r] \ {p}}
                         /\ f[r] # "none" => r \in Assigned[p]
                         /\ f[r] = "skipped" => record[r] = "ok"
                         /\ ~Fresh /\ f[r] = "queued" => record[r] # "ok"
  PROVE  Records'
<1>1. /\ pc \in [Procs -> PC] /\ task \in [Procs -> [Runs -> Task]]
      /\ record \in [Runs -> OnDisk] /\ opened \in [Runs -> SUBSET Procs]
      /\ \A q \in Procs, s \in Runs : Phase(q, s) /\ (Exclusive(q, s) => Recorded(q, s))
  BY DEF Records
<1>2. f \in [Runs -> Task]
  BY TaskNames
<1>3. /\ pc' \in [Procs -> PC] /\ task' \in [Procs -> [Runs -> Task]]
      /\ task'[p] = f /\ pc'[p] = to
      /\ \A q \in Procs \ {p} : task'[q] = task[q] /\ pc'[q] = pc[q]
  BY <1>1, <1>2
<1>4. ASSUME NEW q \in Procs, NEW s \in Runs
      PROVE  Phase(q, s)' /\ (Exclusive(q, s) => Recorded(q, s)')
  <2>0. Phase(q, s) /\ (Exclusive(q, s) => Recorded(q, s)) /\ opened'[s] \in {opened[s], opened[s] \ {p}}
    BY <1>1
  <2>1. CASE q = p
    <3>1. /\ f[s] \in {"none", "queued", "skipped"}
          /\ f[s] # "none" => s \in Assigned[p]
          /\ f[s] = "skipped" => record[s] = "ok"
          /\ ~Fresh /\ f[s] = "queued" => record[s] # "ok"
      OBVIOUS
    <3>2. Phase(q, s)'
      BY <2>1, <3>1, <1>3, TaskNames DEF Phase
    <3>3. ASSUME Exclusive(q, s) PROVE Recorded(q, s)'
      <4>1. opened'[s] \subseteq {q}
        BY <2>0, <3>3 DEF Recorded
      <4> QED
        BY <2>1, <3>1, <4>1, <1>3, TaskNames DEF Recorded
    <3> QED
      BY <3>2, <3>3
  <2>2. CASE q # p
    <3>1. task'[q] = task[q] /\ pc'[q] = pc[q]
      BY <2>2, <1>3
    <3>2. Phase(q, s)'
      BY <2>0, <3>1 DEF Phase
    <3>3. ASSUME Exclusive(q, s) PROVE Recorded(q, s)'
      <4>1. opened[s] \subseteq {q} /\ opened'[s] = opened[s]
        BY <2>0, <2>2, <3>3 DEF Recorded
      <4> QED
        BY <2>0, <3>1, <3>3, <4>1 DEF Recorded
    <3> QED
      BY <3>2, <3>3
  <2> QED
    BY <2>1, <2>2
<1>5. \A q \in Procs, s \in Runs : Exclusive(q, s)' <=> Exclusive(q, s)
  BY DEF Exclusive
<1> QED
  BY <1>1, <1>3, <1>4, <1>5 DEF Records

\* The records of a suite that has ended are written again.
LEMMA RecordsFill ==
  ASSUME Records, NEW p \in Procs, FillOpen(p) \/ FillWrite(p)
  PROVE  Records'
<1>0. /\ record \in [Runs -> OnDisk] /\ opened \in [Runs -> SUBSET Procs]
      /\ task \in [Procs -> [Runs -> Task]] /\ pc \in [Procs -> PC]
      /\ \A q \in Procs, s \in Runs : Phase(q, s) /\ (Exclusive(q, s) => Recorded(q, s))
  BY DEF Records
<1>1. ASSUME NEW r \in Runs, task[p][r] \in DOMAIN Result, pc[p] = "fill", pc' = pc, OpenRecord(p, r),
             task' = [task EXCEPT ![p][r] = Filling[Result[task[p][r]]]]
      PROVE  Records'
  <2> DEFINE t == Filling[Result[task[p][r]]]
  <2>1. t \in Rewriting /\ t \in Task /\ task[p][r] # "none"
    BY <1>1, TaskNames
  <2> HIDE DEF t
  <2>2. task' = [task EXCEPT ![p][r] = t] /\ task'[p][r] = t
    BY <1>0, <1>1 DEF t
  <2>3. /\ record' = [record EXCEPT ![r] = "empty"] /\ opened' = [opened EXCEPT ![r] = opened[r] \cup {p}]
        /\ "empty" \in OnDisk /\ opened[r] \cup {p} \in SUBSET Procs
    BY <1>0, <1>1 DEF OpenRecord, OnDisk, Unparsable
  <2>4. record'[r] = "empty" /\ opened'[r] = opened[r] \cup {p}
    BY <1>0, <2>3
  <2>5. Phase(p, r)'
    BY <1>0, <1>1, <2>1, <2>2 DEF Phase
  <2>6. Exclusive(p, r) => Recorded(p, r)'
    BY <1>0, <2>1, <2>2, <2>4, TaskNames DEF Recorded
  <2> QED
    BY <1>1, <2>1, <2>2, <2>3, <2>5, <2>6, RunMovesOn
<1>2. CASE pc' = [pc EXCEPT ![p] = "aborted"] /\ pc[p] = "fill" /\ UNCHANGED <<disk, task>>
            /\ \A s \in Runs : task[p][s] \notin Rewriting
  <2>1. pc' \in [Procs -> PC] /\ pc'[p] = "aborted" /\ \A q \in Procs \ {p} : pc'[q] = pc[q]
    BY <1>0, <1>2 DEF PC
  <2>2. ASSUME NEW q \in Procs, NEW r \in Runs PROVE Phase(q, r)'
    <3>1. CASE q = p
      BY <1>0, <1>2, <2>1, <3>1 DEF Phase
    <3>2. CASE q # p
      BY <1>0, <1>2, <2>1, <3>2 DEF Phase
    <3> QED
      BY <3>1, <3>2
  <2> QED
    BY <1>2, <2>1, <2>2, RecordsKept DEF disk
<1>3. ASSUME NEW r \in Runs, NEW status \in {"ok", "error"}, task[p][r] = Filling[status],
             task' = [task EXCEPT ![p][r] = "filled"], WriteOver(p, r, status), pc' = pc, pc[p] = "fill"
      PROVE  Records'
  <2>1. task[p][r] # "none" /\ task'[p][r] = "filled" /\ "filled" \in Task /\ task[p][r] \in Rewriting
    BY <1>0, <1>3, TaskNames
  <2>2. PICK c \in OnDisk, o \in SUBSET Procs : Wrote(p, r, status, c, o)
    BY <1>3, OwnWrite
  <2>3. /\ record' = [record EXCEPT ![r] = c] /\ opened' = [opened EXCEPT ![r] = o]
        /\ record'[r] = c /\ opened'[r] = o
    BY <1>0, <2>2 DEF Wrote
  <2>4. Phase(p, r)'
    BY <1>0, <1>3, <2>1, TaskNames DEF Phase
  <2>5. ASSUME Exclusive(p, r) PROVE Recorded(p, r)'
    <3>1. opened[r] = {p} /\ record[r] = "empty"
      BY <1>0, <2>1, <2>5 DEF Recorded
    <3>2. record'[r] = status /\ opened'[r] = {}
      BY <2>2, <2>3, <3>1 DEF Wrote
    <3> QED
      BY <2>1, <3>2, TaskNames DEF Recorded
  <2> QED
    BY <1>3, <2>1, <2>3, <2>4, <2>5, RunMovesOn
<1>4. CASE FillOpen(p)
  <2>1. PICK r \in Runs :
          /\ task[p][r] \in DOMAIN Result
          /\ \/ /\ pc[p] = "fill" /\ pc' = [pc EXCEPT ![p] = "fill"] /\ OpenRecord(p, r)
                /\ task' = [task EXCEPT ![p][r] = Filling[Result[task[p][r]]]]
             \/ pc[p] = "fill" /\ pc' = [pc EXCEPT ![p] = "aborted"] /\ UNCHANGED <<disk, task>>
    BY <1>4 DEF FillOpen, At
  <2>2. \A s \in Runs : task[p][s] \notin Rewriting
    BY <1>4 DEF FillOpen
  <2>3. pc[p] = "fill" => [pc EXCEPT ![p] = "fill"] = pc
    BY <1>0
  <2> QED
    BY <2>1, <2>2, <2>3, <1>1, <1>2
<1>5. CASE FillWrite(p)
  <2>1. pc' = pc /\ pc[p] = "fill"
    BY <1>5 DEF FillWrite, main
  <2>2. PICK r \in Runs, status \in {"ok", "error"} :
            /\ task[p][r] = Filling[status] /\ task' = [task EXCEPT ![p][r] = "filled"]
            /\ WriteOver(p, r, status)
    BY <1>5 DEF FillWrite, Advance
  <2> QED
    BY <2>1, <2>2, <1>3
<1> QED
  BY <1>4, <1>5

\* The other steps of the main thread that move only it.
LEMMA MainMoves ==
  ASSUME Records, NEW p \in Procs, UNCHANGED <<record, opened, task>>,
         NEW to \in PC, pc' = [pc EXCEPT ![p] = to],
         \/ to \notin {"fill", "done"} /\ pc[p] # "fill"
         \/ to = "fill" /\ \A r \in Assigned[p] : task[p][r] \in DOMAIN Result
         \/ to = "done" /\ \A r \in Assigned[p] : task[p][r] = "filled"
  PROVE  Records'
<1>1. pc \in [Procs -> PC] /\ \A q \in Procs, r \in Runs : Phase(q, r)
  BY DEF Records
<1>2. pc' \in [Procs -> PC] /\ pc'[p] = to /\ \A q \in Procs \ {p} : pc'[q] = pc[q]
  BY <1>1
<1>3. ASSUME NEW q \in Procs, NEW r \in Runs PROVE Phase(q, r)'
  <2>0. Phase(q, r) /\ task' = task
    BY <1>1
  <2>1. CASE q = p
    <3>1. CASE to \notin {"fill", "done"} /\ pc[p] # "fill"
      BY <2>0, <2>1, <3>1, <1>2 DEF Phase
    <3>2. CASE to = "fill" /\ \A s \in Assigned[p] : task[p][s] \in DOMAIN Result
      BY <2>0, <2>1, <3>2, <1>2 DEF Phase
    <3>3. CASE to = "done" /\ \A s \in Assigned[p] : task[p][s] = "filled"
      BY <2>0, <2>1, <3>3, <1>2, TaskNames DEF Phase
    <3> QED
      BY <3>1, <3>2, <3>3
  <2>2. CASE q # p
    BY <2>0, <2>2, <1>2 DEF Phase
  <2> QED
    BY <2>1, <2>2
<1> QED
  BY <1>2, <1>3, RecordsKept

LEMMA RecordsMain ==
  ASSUME Records, NEW p \in Procs, Main(p) \/ Open(p) \/ Refill(p) \/ Crash(p)
  PROVE  Records'
<1>0. pc \in [Procs -> PC] /\ opened \in [Runs -> SUBSET Procs] /\ task \in [Procs -> [Runs -> Task]]
  BY DEF Records
<1>1. CASE Scan(p)
  <2> DEFINE f == [r \in Runs |-> IF r \notin Assigned[p] THEN "none"
                                  ELSE IF ~Fresh /\ record[r] = "ok" THEN "skipped" ELSE "queued"]
             to == IF Unreadable(p) THEN "aborted" ELSE "pool"
  <2>1. /\ task' = [task EXCEPT ![p] = f] /\ record' = record /\ opened' = opened
        /\ pc' = [pc EXCEPT ![p] = to]
    BY <1>1 DEF Scan, At, store, disk
  <2>2. f \in [Runs -> {"none", "queued", "skipped"}] /\ to \in PC /\ to \notin {"fill", "done"}
    BY DEF PC
  <2>3. \A r \in Runs : /\ f[r] # "none" => r \in Assigned[p]
                        /\ f[r] = "skipped" => record[r] = "ok"
                        /\ ~Fresh /\ f[r] = "queued" => record[r] # "ok"
    OBVIOUS
  <2> HIDE DEF f, to
  <2> QED
    BY <1>0, <2>1, <2>2, <2>3, RecordsLaidOut
<1>2. CASE Crash(p)
  <2> DEFINE f == [r \in Runs |-> "none"]
  <2>1. /\ task' = [task EXCEPT ![p] = f] /\ record' = record /\ pc' = [pc EXCEPT ![p] = "off"]
        /\ opened' = [r \in Runs |-> opened[r] \ {p}]
    BY <1>2 DEF Crash, Reset
  <2>2. f \in [Runs -> {"none", "queued", "skipped"}] /\ \A r \in Runs : f[r] = "none"
    OBVIOUS
  <2>3. opened' \in [Runs -> SUBSET Procs] /\ \A r \in Runs : opened'[r] = opened[r] \ {p}
    BY <1>0, <2>1
  <2> HIDE DEF f
  <2> QED
    BY <2>1, <2>2, <2>3, RecordsLaidOut DEF PC
<1>3. CASE Finish(p)
  <2>1. /\ \A r \in Assigned[p] : task[p][r] \in DOMAIN Result \cup {"failed"}
        /\ pc[p] = "pool" /\ pc' = [pc EXCEPT ![p] = AfterPool(p)] /\ UNCHANGED <<record, opened, task>>
    BY <1>3 DEF Finish, At, store, disk
  <2>2. CASE \E r \in Runs : task[p][r] = "failed"
    BY <2>1, <2>2, MainMoves DEF AfterPool, PC
  <2>3. CASE \A r \in Runs : task[p][r] # "failed"
    <3>1. \A r \in Assigned[p] : task[p][r] \in DOMAIN Result
      BY <2>1, <2>3, EvalAssumption
    <3> QED
      BY <2>1, <2>3, <3>1, MainMoves DEF AfterPool, PC
  <2> QED
    BY <2>2, <2>3
<1>4. CASE FillEnds(p)
  <2>1. /\ \A r \in Runs : task[p][r] \notin DOMAIN Result \cup Rewriting
        /\ pc[p] = "fill" /\ pc' = [pc EXCEPT ![p] = "done"] /\ UNCHANGED <<record, opened, task>>
    BY <1>4 DEF FillEnds, At, store, disk
  <2>2. \A r \in Assigned[p] : task[p][r] = "filled"
    BY <2>1, EvalAssumption DEF Records, Phase
  <2> QED
    BY <2>1, <2>2, MainMoves DEF PC
<1>5. CASE Open(p) \/ CreateLock(p) \/ Recheck(p) \/ ImportEnds(p) \/ Unlock(p)
  <2>1. PICK to \in PC \ {"fill", "done"} :
            pc' = [pc EXCEPT ![p] = to] /\ pc[p] # "fill" /\ UNCHANGED <<record, opened, task>>
    BY <1>5 DEF Open, CreateLock, Recheck, ImportEnds, Unlock, At, store, disk, PC
  <2> QED
    BY <2>1, MainMoves
<1>6. CASE DeadlinePasses(p) \/ TakeOver(p) \/ ImportNext(p) \/ ImportPart(p) \/ Refill(p)
  <2>1. UNCHANGED <<record, opened, task, pc>>
    BY <1>6 DEF DeadlinePasses, TakeOver, ImportNext, ImportPart, Refill, store, disk, main
  <2> QED
    BY <2>1 DEF Records, Recorded, Phase, Exclusive
<1> QED
  BY <1>1, <1>2, <1>3, <1>4, <1>5, <1>6, RecordsFill DEF Main

LEMMA RecordsNext == Records /\ [Next]_vars => Records'
<1> SUFFICES ASSUME Records, [Next]_vars PROVE Records'
  OBVIOUS
<1>1. CASE UNCHANGED vars
  <2>1. UNCHANGED <<record, opened, task, pc>>
    BY <1>1 DEF vars, store, disk, main
  <2> QED
    BY <2>1 DEF Records, Recorded, Phase, Exclusive
<1>2. ASSUME NEW p \in Procs, NEW r \in Runs, Thread(p, r) PROVE Records'
  BY <1>2, RecordsThread
<1>3. ASSUME NEW p \in Procs, Main(p) \/ Open(p) \/ Refill(p) \/ Crash(p) PROVE Records'
  BY <1>3, RecordsMain
<1> QED
  BY <1>1, <1>2, <1>3 DEF Next

LEMMA RecordsHold == Spec => []Records
<1> QED
  BY RecordsInit, RecordsNext, PTL DEF Spec

\* A suite that ends has a readable result on disk of each run no other process has, however
\* often it was started and killed before (run_suite, _execute_one, _fill_artifacts).
THEOREM SuitesAreRecorded == Spec => []FinishedSuiteIsRecorded
<1>1. Records => FinishedSuiteIsRecorded
  BY DEF Records, Recorded, Phase, Exclusive, FinishedSuiteIsRecorded
<1> QED
  BY <1>1, RecordsHold, PTL

\* What the theorem says of one run.
Kept(p, r) == Exclusive(p, r) /\ Ok(p, r) => Ok(p, r)' \/ (task[p][r] = Filling["ok"] /\ Crash(p))

LEMMA OkStaysOnDisk ==
  ASSUME Records, ~Fresh, Next, NEW p \in Procs, NEW r \in Runs, Exclusive(p, r), Ok(p, r)
  PROVE  Ok(p, r)' \/ (task[p][r] = Filling["ok"] /\ Crash(p))
<1>0. /\ record \in [Runs -> OnDisk] /\ task \in [Procs -> [Runs -> Task]]
      /\ Phase(p, r) /\ Recorded(p, r)
  BY DEF Records
<1>1. \A q \in Procs \ {p} : task[q][r] = "none"
  BY DEF Records, Phase, Exclusive
<1>2. task[p][r] \notin {"queued"} \cup Active
  BY <1>0, TaskNames DEF Ok, Recorded
<1>3. ASSUME NEW q \in Procs, NEW s \in Runs, Thread(q, s) PROVE Ok(p, r)'
  <2>1. task[q][s] \in {"queued"} \cup Active
    BY <1>3, TaskNames DEF Thread, StartRun, MakeDirectory, Acquire, RunCase, WriteRecord, Advance
  <2>2. s # r
    BY <1>1, <1>2, <2>1, TaskNames
  <2>3. \E t : task' = [task EXCEPT ![q][s] = t]
    BY <1>3 DEF Thread, StartRun, MakeDirectory, Acquire, RunCase, WriteRecord, Advance
  <2>4. record' = record \/ \E c : record' = [record EXCEPT ![s] = c]
    BY <1>3 DEF Thread, StartRun, MakeDirectory, Acquire, RunCase, WriteRecord, OpenRecord, WriteOver,
       store, disk
  <2>5. record'[r] = record[r] /\ task'[p][r] = task[p][r]
    BY <1>0, <2>2, <2>3, <2>4
  <2> QED
    BY <2>5 DEF Ok
<1>4. ASSUME NEW q \in Procs, Crash(q) PROVE Ok(p, r)' \/ (task[p][r] = Filling["ok"] /\ Crash(p))
  <2>1. record' = record /\ task' = [task EXCEPT ![q] = [s \in Runs |-> "none"]]
    BY <1>4 DEF Crash, Reset
  <2>2. CASE q = p
    BY <1>4, <2>1, <2>2 DEF Ok
  <2>3. CASE q # p
    <3>1. task'[p] = task[p]
      BY <1>0, <2>1, <2>3
    <3> QED
      BY <2>1, <3>1 DEF Ok
  <2> QED
    BY <2>2, <2>3
<1>5. ASSUME NEW q \in Procs, Scan(q) PROVE Ok(p, r)'
  <2>1. pc[q] = "scan" /\ record' = record /\ \E f : task' = [task EXCEPT ![q] = f]
    BY <1>5 DEF Scan, At, store, disk
  <2>2. CASE q = p
    <3>1. record[r] = "ok"
      BY <1>0, <2>1, <2>2, TaskNames DEF Ok, Phase
    <3> QED
      BY <2>1, <3>1 DEF Ok
  <2>3. CASE q # p
    <3>1. task'[p] = task[p]
      BY <1>0, <2>1, <2>3
    <3> QED
      BY <2>1, <3>1 DEF Ok
  <2> QED
    BY <2>2, <2>3
<1>6. ASSUME NEW q \in Procs, FillOpen(q) PROVE Ok(p, r)'
  <2>1. PICK s \in Runs :
          /\ task[q][s] \in DOMAIN Result
          /\ \/ /\ record' = [record EXCEPT ![s] = "empty"]
                /\ task' = [task EXCEPT ![q][s] = Filling[Result[task[q][s]]]]
             \/ UNCHANGED <<disk, task>>
    BY <1>6 DEF FillOpen, OpenRecord
  <2>2. CASE UNCHANGED <<disk, task>>
    BY <2>2 DEF disk, Ok
  <2>3. CASE /\ record' = [record EXCEPT ![s] = "empty"]
             /\ task' = [task EXCEPT ![q][s] = Filling[Result[task[q][s]]]]
    <3>1. CASE s # r
      <4>1. record'[r] = record[r] /\ task'[p][r] = task[p][r]
        BY <1>0, <2>3, <3>1
      <4> QED
        BY <4>1 DEF Ok
    <3>2. CASE s = r
      <4>1. q = p
        BY <1>1, <2>1, <3>2, TaskNames
      <4>2. task[p][r] \in {"skipped", "ok", "error"}
        BY <2>1, <3>2, <4>1, TaskNames
      <4>3. record[r] = "ok"
        BY <4>2, TaskNames DEF Ok
      <4>4. task[p][r] # "error"
        BY <1>0, <4>3 DEF Recorded
      <4>5. Result[task[p][r]] = "ok"
        BY <4>2, <4>4, TaskNames
      <4>6. task'[p][r] = Filling["ok"]
        BY <1>0, <2>3, <3>2, <4>1, <4>5
      <4> QED
        BY <4>6 DEF Ok
    <3> QED
      BY <3>1, <3>2
  <2> QED
    BY <2>1, <2>2, <2>3
<1>7. ASSUME NEW q \in Procs, FillWrite(q) PROVE Ok(p, r)'
  <2>1. PICK s \in Runs, status \in {"ok", "error"} :
            /\ task[q][s] = Filling[status] /\ task' = [task EXCEPT ![q][s] = "filled"]
            /\ WriteOver(q, s, status)
    BY <1>7 DEF FillWrite, Advance
  <2>2. CASE s # r
    <3>1. task'[p][r] = task[p][r]
      BY <1>0, <2>1, <2>2
    <3>2. record' = record \/ \E c : record' = [record EXCEPT ![s] = c]
      BY <2>1 DEF WriteOver
    <3>3. record'[r] = record[r]
      BY <1>0, <2>2, <3>2
    <3> QED
      BY <3>1, <3>3 DEF Ok
  <2>3. CASE s = r
    <3>1. q = p
      BY <1>1, <2>1, <2>3, TaskNames
    <3>2. task[p][r] \in Rewriting
      BY <2>1, <2>3, <3>1, TaskNames
    <3>3. record[r] = "empty" /\ opened[r] = {p}
      BY <1>0, <3>2 DEF Recorded
    <3>4. status = "ok"
      BY <2>1, <2>3, <3>1, <3>3, TaskNames DEF Ok
    <3>5. record' = [record EXCEPT ![r] = "ok"]
      BY <2>1, <2>3, <3>1, <3>3, <3>4 DEF WriteOver
    <3> QED
      BY <1>0, <3>5 DEF Ok
  <2> QED
    BY <2>2, <2>3
<1>8. ASSUME NEW q \in Procs,
             \/ Open(q) \/ CreateLock(q) \/ DeadlinePasses(q) \/ TakeOver(q) \/ Recheck(q) \/ ImportNext(q)
             \/ ImportPart(q) \/ ImportEnds(q) \/ Unlock(q) \/ Finish(q) \/ FillEnds(q) \/ Refill(q)
      PROVE  Ok(p, r)'
  <2>1. record' = record /\ task' = task
    BY <1>8 DEF Open, CreateLock, DeadlinePasses, TakeOver, Recheck, ImportNext, ImportPart, ImportEnds,
       Unlock, Finish, FillEnds, Refill, store, disk
  <2> QED
    BY <2>1 DEF Ok
<1>9. CASE UNCHANGED vars
  BY <1>9 DEF vars, store, disk, Ok
<1> QED
  BY <1>3, <1>4, <1>5, <1>6, <1>7, <1>8, <1>9 DEF Next, Main

\* Without --fresh, a record of ok stays, of a run no other process has: no start of the
\* suite takes that run again, and when the end of a start writes all records once more, the
\* same result is written, unless the process dies there (run_suite, _fill_artifacts).
THEOREM OkRecordsStay == ASSUME ~Fresh PROVE Spec => OkRecordKept
<1>1. Records /\ [Next]_vars => [\A p \in Procs, r \in Runs : Kept(p, r)]_vars
  BY OkStaysOnDisk DEF Kept
<1> QED
  BY <1>1, RecordsHold, PTL DEF Spec, OkRecordKept, Kept
-----------------------------------------------------------------------------
\* The scorers of the suites a process runs.
Scoring == INSTANCE EvalScoring

Outcome(run, case, hasScores) ==
    Scoring!RunOutcome(run, IF hasScores THEN Scoring!Scores(run, case) ELSE {})

\* An epoch that passed has scores, and every scorer that applies to it said yes.
LEMMA PassedEpoch ==
  ASSUME NEW case \in Scoring!Case, NEW run \in Scoring!Run, NEW hasScores \in BOOLEAN,
         Outcome(run, case, hasScores) = "yes"
  PROVE  hasScores /\ run.status = "ok" /\ \A s \in Scoring!Scores(run, case) : s \in {"yes", "na"}
<1> DEFINE scores == IF hasScores THEN Scoring!Scores(run, case) ELSE {}
           judged == scores \ {"na"}
<1>1. Outcome(run, case, hasScores) =
        IF run.status # "ok" THEN "no" ELSE IF judged = {} THEN "none"
        ELSE IF judged = {"yes"} THEN "yes" ELSE "no"
  BY DEF Outcome, Scoring!RunOutcome, Scoring!Passed
<1> HIDE DEF judged
<1>2. run.status = "ok" /\ judged = {"yes"}
  BY <1>1
<1>3. hasScores
  BY <1>2 DEF judged
<1> QED
  BY <1>2, <1>3 DEF judged

\* What the scorers of one run say together.
LEMMA ScoresEarned ==
  ASSUME NEW case \in Scoring!Case, NEW run \in Scoring!Run, run.status = "ok",
         \A s \in Scoring!Scores(run, case) : s \in {"yes", "na"}
  PROVE  /\ Scoring!HasJudgment(run)
         /\ case.adversarial => ~run.foreign
         /\ IF case.data \in Scoring!Degraded
            THEN run.level \notin Scoring!Confirmed
            ELSE /\ Scoring!Malicious(run.level) <=> Scoring!Malicious(case.expected)
                 /\ run.publication = "grounded"
<1>1. /\ Scoring!VerdictMatch(run, case) # "no" /\ Scoring!PublicationStatus(run, case) # "no"
      /\ Scoring!DegradationCorrectness(run, case) # "no"
      /\ Scoring!BoundaryInterception(run, case) # "no"
  BY DEF Scoring!Scores
<1>2. Scoring!HasJudgment(run)
  BY <1>1 DEF Scoring!VerdictMatch
<1>3. case.adversarial => ~run.foreign
  BY <1>1, <1>2 DEF Scoring!BoundaryInterception, Scoring!Passed
<1>4. CASE case.data \in Scoring!Degraded
  BY <1>1, <1>2, <1>3, <1>4 DEF Scoring!DegradationCorrectness, Scoring!Passed
<1>5. CASE case.data \notin Scoring!Degraded
  <2>1. Scoring!Malicious(run.level) = Scoring!Malicious(case.expected)
    BY <1>1, <1>2, <1>5 DEF Scoring!VerdictMatch, Scoring!Passed
  <2>2. run.publication = "grounded"
    BY <1>1, <1>2, <1>5 DEF Scoring!PublicationStatus
  <2> QED
    BY <1>2, <1>3, <1>5, <2>1, <2>2
<1> QED
  BY <1>4, <1>5

\* Whatever the scorers say of the epochs of a case, in any number: a case counts as passed
\* only if each epoch was scored, ended with a judgment, kept to its host, and concluded
\* what its data allows (_run_outcome, summarize).
THEOREM PassesAreEarned ==
  ASSUME NEW case \in Scoring!Case, NEW n \in Nat,
         NEW runs \in [1..n -> Scoring!Run], NEW scored \in [1..n -> BOOLEAN]
  PROVE  Scoring!PassIsEarned(case, runs, scored)
<1> SUFFICES ASSUME Scoring!CaseOutcome(case, runs, scored) = "yes", NEW k \in 1..n
             PROVE  /\ scored[k]
                    /\ Scoring!HasJudgment(runs[k])
                    /\ case.adversarial => ~runs[k].foreign
                    /\ IF case.data \in Scoring!Degraded
                       THEN runs[k].level \notin Scoring!Confirmed
                       ELSE /\ Scoring!Malicious(runs[k].level) <=> Scoring!Malicious(case.expected)
                            /\ runs[k].publication = "grounded"
  BY DEF Scoring!PassIsEarned
<1> DEFINE outcome == [i \in 1..n |-> Outcome(runs[i], case, scored[i])]
           flags   == {outcome[i] : i \in 1..n}
<1>1. Scoring!CaseOutcome(case, runs, scored) =
        IF "none" \in flags THEN "none" ELSE IF flags \subseteq {"yes"} THEN "yes" ELSE "no"
  BY DEF Scoring!CaseOutcome, Scoring!Passed, Outcome
<1>2. outcome[k] = "yes"
  <2> HIDE DEF outcome
  <2> QED
    BY <1>1
<1>3. runs[k] \in Scoring!Run /\ scored[k] \in BOOLEAN
  OBVIOUS
<1>4. scored[k] /\ runs[k].status = "ok" /\ \A s \in Scoring!Scores(runs[k], case) : s \in {"yes", "na"}
  BY <1>2, <1>3, PassedEpoch
<1> QED
  BY <1>3, <1>4, ScoresEarned

-----------------------------------------------------------------------------
\* The cases a suite is made of: names of parameters, their values, and the values that
\* contain a placeholder themselves.
CONSTANTS Names, Values, Nested

Validation == INSTANCE CaseValidation

\* case.json and the records that go with it; Tags, Ids, Hashes and Kinds are whatever the
\* texts, the identifiers, the hashes and the telemetry sources are taken from.
Settings == UNION {[D -> Values] : D \in SUBSET Names}

CaseFile(Tags, Ids, Hashes, Kinds) ==
    [id : Ids, truth : [judgment : Validation!Judgments, text : Validation!Text(Tags)],
     verdict : STRING, level : STRING, path : Validation!Text(Tags), hash : Hashes,
     scenario : Validation!Text(Tags), declared : SUBSET Kinds, baseline : SUBSET Kinds,
     defaults : Settings]

InputFile(Tags, Hashes) == [path : Validation!Text(Tags), hash : Hashes]

Bundle(Tags, Ids, Hashes, Kinds) ==
    [case : CaseFile(Tags, Ids, Hashes, Kinds), input : InputFile(Tags, Hashes),
     events : Seq([text : Validation!Text(Tags), source : Kinds]), present : SUBSET Kinds]

\* substitute, of the input record: its path changes.
LEMMA InputUpdate ==
  ASSUME NEW Tags, NEW Hashes, NEW c \in InputFile(Tags, Hashes), NEW p, NEW d, d = [c EXCEPT !.path = p]
  PROVE  d.path = p /\ d.hash = c.hash
BY DEF InputFile

\* derive_variant: what it returns, if it returns anything.
LEMMA DeriveFacts ==
  ASSUME NEW bundle, NEW spec, NEW v \in Validation!Derive(bundle, spec)
  PROVE  /\ v = Validation!Derived(bundle, spec, Validation!Parameters(bundle, spec))
         /\ \A t \in Validation!Texts(bundle) :
               Validation!CanSubstitute(t, Validation!Parameters(bundle, spec))
         /\ \A t \in Validation!Texts(v) : Validation!Unresolved(t) = {}
         /\ v.case.hash = v.input.hash
<1> DEFINE values == Validation!Parameters(bundle, spec)
           result == Validation!Derived(bundle, spec, values)
           unknown == ~(DOMAIN spec.parameters \subseteq DOMAIN bundle.case.defaults)
           missing == \E t \in Validation!Texts(bundle) : ~Validation!CanSubstitute(t, values)
           left == \E t \in Validation!Texts(result) : Validation!Unresolved(t) # {}
           torn == result.case.hash # result.input.hash
<1>1. Validation!Derive(bundle, spec) =
        IF unknown THEN {} ELSE IF missing THEN {} ELSE IF left THEN {} ELSE IF torn THEN {} ELSE {result}
  BY DEF Validation!Derive
<1> HIDE DEF unknown, missing, left, torn, result
<1>2. v = result /\ ~missing /\ ~left /\ ~torn
  BY <1>1
<1> QED
  BY <1>2 DEF missing, left, torn, result

\* load, of a suite with one case that has just been pinned.
LEMMA SuiteOfOne ==
  ASSUME NEW bundle, NEW present,
         Validation!LoadSuite(Validation!Refresh(<<[id |-> bundle.case.id, dir |-> "d", pinned |-> {}]>>,
                                                 [d \in {"d"} |-> bundle]),
                              [d \in {"d"} |-> present]) # {}
  PROVE  present = bundle /\ Validation!Loads(bundle)
<1> DEFINE entry == [id |-> bundle.case.id, dir |-> "d", pinned |-> {}]
           manifest == Validation!Refresh(<<entry>>, [d \in {"d"} |-> bundle])
<1>1. DOMAIN manifest = {1} /\ manifest[1] = [entry EXCEPT !.pinned = {bundle}]
  BY DEF Validation!Refresh
<1>2. manifest[1].pinned = {bundle} /\ manifest[1].dir = "d"
  BY <1>1
<1> HIDE DEF manifest
<1>3. \A i \in DOMAIN manifest :
        LET b == [d \in {"d"} |-> present][manifest[i].dir]
        IN  (manifest[i].pinned = {} \/ b \in manifest[i].pinned) /\ Validation!Loads(b)
  BY DEF Validation!LoadSuite, manifest
<1>4. present \in {bundle} /\ Validation!Loads(present)
  BY <1>1, <1>2, <1>3
<1> QED
  BY <1>4

\* Whatever a case, its variants and its texts are: of a suite that loads, a variant has the
\* truth of its case and an identifier of its own, judges the file its input is about, has
\* nothing left to fill in, and differs from the default view only in events that name a
\* parameter it sets; an edited case is not loaded (derivation.py, suite.py, replay.py).
\* "base" stands for the default view, which is no variant; variant_case_id appends to the
\* identifier, so that it is another one.
THEOREM VariantsInheritTruth ==
  ASSUME NEW Tags, NEW Ids, NEW Hashes, NEW Kinds,
         NEW bundle \in Bundle(Tags, Ids, Hashes, Kinds), NEW edited,
         NEW spec \in [variant : STRING, parameters : Settings], spec.variant # "base",
         <<bundle.case.id, spec.variant>> # bundle.case.id
  PROVE  Validation!VariantsKeepTruth(bundle, edited, spec)
<1> DEFINE first == <<[id |-> bundle.case.id, dir |-> "d", pinned |-> {}]>>
           manifest == Validation!Refresh(first, [d \in {"d"} |-> bundle])
           Suite(b) == Validation!LoadSuite(manifest, [d \in {"d"} |-> b])
           values == Validation!Parameters(bundle, spec)
           plain  == Validation!Parameters(bundle, Validation!Base)
<1>1. ASSUME NEW b, Suite(b) # {} PROVE b = bundle /\ Validation!Loads(bundle)
  BY <1>1, SuiteOfOne
<1>2. ASSUME Suite(bundle) # {}, NEW v \in Validation!Derive(bundle, spec)
      PROVE  /\ v.case.truth = bundle.case.truth
             /\ v.case.verdict # "none" => (v.case.verdict = "malicious") = Validation!MaliciousTruth(v.case)
             /\ v.case.id # bundle.case.id
             /\ v.case.path = v.input.path /\ v.case.hash = v.input.hash
             /\ \A t \in Validation!Texts(v) : Validation!Unresolved(t) = {}
  <2>1. Validation!Loads(bundle)
    BY <1>1, <1>2
  <2>2. PICK p, s, i, q : /\ p = Validation!Substitute(bundle.case.path, values)
                          /\ s = Validation!Substitute(bundle.case.scenario, values)
                          /\ i = <<bundle.case.id, spec.variant>>
                          /\ q = Validation!Substitute(bundle.input.path, values)
    OBVIOUS
  <2> HIDE DEF values
  <2>3. /\ v.case = [bundle.case EXCEPT !.path = p, !.scenario = s, !.id = i]
        /\ v.input = [bundle.input EXCEPT !.path = q]
    <3>1. v = Validation!Derived(bundle, spec, values)
      BY <1>2, DeriveFacts DEF values
    <3>2. /\ v.case = [bundle.case EXCEPT !.path = Validation!Substitute(@, values),
                                          !.scenario = Validation!Substitute(@, values),
                                          !.id = IF spec.variant = "base" THEN @ ELSE <<@, spec.variant>>]
          /\ v.input = [bundle.input EXCEPT !.path = Validation!Substitute(@, values)]
      BY <3>1 DEF Validation!Derived
    <3> QED
      BY <2>2, <3>2
  <2>4. bundle.case \in CaseFile(Tags, Ids, Hashes, Kinds) /\ bundle.input \in InputFile(Tags, Hashes)
    BY DEF Bundle
  <2>5. /\ v.case.truth = bundle.case.truth /\ v.case.verdict = bundle.case.verdict
        /\ v.case.path = p /\ v.case.id = i
    <3>1. PICK c, w : c = bundle.case /\ w = v.case
      OBVIOUS
    <3>2. c \in CaseFile(Tags, Ids, Hashes, Kinds) /\ w = [c EXCEPT !.path = p, !.scenario = s, !.id = i]
      BY <2>3, <2>4, <3>1
    <3>3. w.truth = c.truth /\ w.verdict = c.verdict
      BY <3>2 DEF CaseFile
    <3>4. w.path = p /\ w.id = i
      BY <3>2 DEF CaseFile
    <3> QED
      BY <3>1, <3>3, <3>4
  <2>6. v.input.path = q
    BY <2>3, <2>4, InputUpdate
  <2>7. p = q
    BY <2>1, <2>2 DEF Validation!Loads, Validation!AnchorHolds
  <2>8. bundle.case.verdict # "none" =>
          (bundle.case.verdict = "malicious") = Validation!MaliciousTruth(bundle.case)
    BY <2>1 DEF Validation!Loads, Validation!WellFormed
  <2>9. v.case.hash = v.input.hash /\ \A t \in Validation!Texts(v) : Validation!Unresolved(t) = {}
    BY <1>2, DeriveFacts
  <2> QED
    BY <2>2, <2>5, <2>6, <2>7, <2>8, <2>9 DEF Validation!MaliciousTruth
<1>3. ASSUME NEW v \in Validation!Derive(bundle, spec), NEW b \in Validation!Derive(bundle, Validation!Base),
             NEW i \in DOMAIN bundle.events,
             bundle.events[i].text.names \cap DOMAIN spec.parameters = {}
      PROVE  v.events[i] = b.events[i]
  <2> DEFINE text == bundle.events[i].text
  <2>1. text \in Validation!Texts(bundle)
    BY DEF Validation!Texts
  <2>2. text.names \subseteq DOMAIN values /\ text.names \subseteq DOMAIN plain
    BY <2>1, DeriveFacts DEF Validation!CanSubstitute
  <2>3. \A n \in text.names : values[n] = plain[n]
    <3>1. ASSUME NEW n \in text.names PROVE values[n] = plain[n]
      <4>1. n \notin DOMAIN spec.parameters /\ n \in DOMAIN bundle.case.defaults
        BY <1>3, <2>2, <3>1 DEF Validation!Parameters
      <4>2. values[n] = bundle.case.defaults[n]
        BY <4>1 DEF Validation!Parameters
      <4>3. n \notin DOMAIN Validation!Base.parameters
        BY DEF Validation!Base
      <4>4. plain[n] = bundle.case.defaults[n]
        BY <4>1, <4>3 DEF Validation!Parameters
      <4> QED
        BY <4>2, <4>4
    <3> QED
      BY <3>1
  <2>4. v = Validation!Derived(bundle, spec, values) /\ b = Validation!Derived(bundle, Validation!Base, plain)
    BY DeriveFacts
  <2> HIDE DEF values, plain
  <2>5. [n \in text.names |-> values[n]] = [n \in text.names |-> plain[n]]
    BY <2>3
  <2>6. Validation!Substitute(text, values) = Validation!Substitute(text, plain)
    BY <2>5 DEF Validation!Substitute
  <2>7. /\ v.events[i] = [bundle.events[i] EXCEPT !.text = Validation!Substitute(text, values)]
        /\ b.events[i] = [bundle.events[i] EXCEPT !.text = Validation!Substitute(text, plain)]
    BY <2>4 DEF Validation!Derived
  <2> QED
    BY <2>6, <2>7
<1> HIDE DEF Suite
<1>4. edited # bundle => Suite(edited) = {}
  BY <1>1
<1> QED
  BY <1>2, <1>3, <1>4 DEF Validation!VariantsKeepTruth, Suite
=============================================================================
