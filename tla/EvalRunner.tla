----------------------------- MODULE EvalRunner -----------------------------
(* The evaluation kernel (agent_eval/runner.py, rate_limit.py) with the task *)
(* and the command line of this program (bootstrap/eval_tasks.py,            *)
(* eval_cli.py): worker processes that share an output directory, import     *)
(* its reference store under a lock file, run their part of the suite on a   *)
(* pool of threads, resuming from the records on disk, and write all records *)
(* once more at the end.                                                     *)
EXTENDS Naturals, FiniteSets, Sequences

CONSTANTS
    Procs,          \* worker processes
    Datasets,       \* datasets of the suite
    Runs,           \* (case, epoch) pairs
    DatasetOf,      \* the dataset a run needs
    Assigned,       \* the runs of each process
    Workers,        \* threads of a pool
    Rpm,            \* capacity of the request bucket of a process
    Fresh,          \* --fresh
    MaxCrashes,     \* bound on crashes
    MaxOverruns     \* bound on deadlines that pass while the holder lives

ASSUME EvalAssumption ==
    /\ DatasetOf \in [Runs -> Datasets]
    /\ Assigned \in [Procs -> SUBSET Runs]
    /\ {Workers, Rpm} \subseteq Nat \ {0}
    /\ Fresh \in BOOLEAN
    /\ {MaxCrashes, MaxOverruns} \subseteq Nat

(* Finitely many processes.  They have the same output directory, where the  *)
(* store and the runs are, and may be given the same runs: the whole suite,  *)
(* or one case of it (--smoke).                                              *)
ASSUME ProcsAssumption == IsFiniteSet(Procs)

VARIABLES
    lock,       \* the process that created the lock file
    table,      \* what the reference store holds of a dataset
    record,     \* the directory of a run, with its run_record.json
    opened,     \* who has the record that is there open for writing
    pc,         \* main thread of a process
    late,       \* whether its deadline for the lock has passed
    todo, now,  \* datasets an importer has not come to, the one it imports
    task,       \* what a process does with a run
    bucket,     \* its request bucket
    tainted,    \* runs whose last result was made from an incomplete dataset
    takeovers,  \* lock files removed by a process that waited
    overruns, crashes

disk == <<record, opened>>
store == <<lock, table, disk>>
bounds == <<tainted, takeovers, overruns, crashes>>
main == <<pc, late, todo, now>>
vars == <<store, main, task, bucket, bounds>>

Unlocked == "no process"
NoDataset == "no dataset"
ASSUME NameAssumption == Unlocked \notin Procs /\ NoDataset \notin Datasets

(* put_dataset, put_case and the ingestion of the activities commit apart. *)
Parts == <<"absent", "dataset", "case", "activities">>
Complete == Len(Parts)

(* What is on disk of a run: no directory, no record in it, a record without *)
(* content, one that two have written into, or a result.                     *)
Unparsable == {"empty", "mixed"}
OnDisk == {"gone", "none", "ok", "error"} \cup Unparsable

Writing == [ok |-> "writing ok", error |-> "writing error"]
Filling == [ok |-> "filling ok", error |-> "filling error"]
Active == {"cleared", "waiting", "running", Writing["ok"], Writing["error"]}
Rewriting == {Filling["ok"], Filling["error"]}
Result == [skipped |-> "ok", ok |-> "ok", error |-> "error"]
Holding == {"recheck", "import", "unlock"}

At(p, from, to) == pc[p] = from /\ pc' = [pc EXCEPT ![p] = to]
Advance(p, r, from, to) == task[p][r] = from /\ task' = [task EXCEPT ![p][r] = to]

-----------------------------------------------------------------------------
(* The reference store.  Without the lock: SELECT COUNT of the datasets. *)
Imported == \E d \in Datasets : table[d] > 1

Open(p) ==
    /\ At(p, "off", IF Imported THEN "scan" ELSE "lock")
    /\ UNCHANGED <<store, late, todo, now, task, bucket, bounds>>

\* Mutant: the lock file is opened without O_EXCL.
CreateLock_NoExcl(p) ==
    /\ lock' = p
    /\ At(p, "lock", "recheck")
    /\ late' = [late EXCEPT ![p] = FALSE]
    /\ UNCHANGED <<table, disk, todo, now, task, bucket, bounds>>

CreateLock(p) ==
    /\ lock = Unlocked
    /\ lock' = p
    /\ At(p, "lock", "recheck")
    /\ late' = [late EXCEPT ![p] = FALSE]
    /\ UNCHANGED <<table, disk, todo, now, task, bucket, bounds>>

(* The deadline passes: the holder is dead, or it is slower than two minutes.*)
DeadlinePasses(p) ==
    /\ pc[p] = "lock"
    /\ lock # Unlocked
    /\ ~late[p]
    /\ \/ pc[lock] \notin Holding /\ UNCHANGED overruns
       \/ overruns < MaxOverruns /\ overruns' = overruns + 1
    /\ late' = [late EXCEPT ![p] = TRUE]
    /\ UNCHANGED <<store, pc, todo, now, task, bucket, tainted, takeovers, crashes>>

(* Whatever lock file is there now is removed; the next round tries again.   *)
\* Mutant: a stale lock file is waited for again and again.
TakeOver_WaitsOn(p) ==
    /\ pc[p] = "lock"
    /\ lock # Unlocked
    /\ late[p]
    /\ late' = [late EXCEPT ![p] = FALSE]
    /\ UNCHANGED <<store, pc, todo, now, task, bucket, bounds>>

TakeOver(p) ==
    /\ pc[p] = "lock"
    /\ lock # Unlocked
    /\ late[p]
    /\ lock' = Unlocked
    /\ late' = [late EXCEPT ![p] = FALSE]
    /\ takeovers' = takeovers + 1
    /\ UNCHANGED <<table, disk, pc, todo, now, task, bucket, tainted, overruns, crashes>>

Recheck(p) ==
    /\ At(p, "recheck", IF Imported THEN "unlock" ELSE "import")
    /\ todo' = [todo EXCEPT ![p] = Datasets]
    /\ UNCHANGED <<store, late, now, task, bucket, bounds>>

(* import_validation_datasets: a dataset that is listed already is skipped.  *)
ImportNext(p) ==
    /\ pc[p] = "import"
    /\ now[p] = NoDataset
    /\ \E d \in todo[p] :
         /\ todo' = [todo EXCEPT ![p] = @ \ {d}]
         /\ IF table[d] > 1 THEN UNCHANGED <<table, now>>
            ELSE table' = [table EXCEPT ![d] = 2] /\ now' = [now EXCEPT ![p] = d]
    /\ UNCHANGED <<lock, disk, pc, late, task, bucket, bounds>>

ImportPart(p) ==
    /\ pc[p] = "import"
    /\ now[p] # NoDataset
    /\ table' = [table EXCEPT ![now[p]] = @ + 1]
    /\ now' = IF table'[now[p]] = Complete THEN [now EXCEPT ![p] = NoDataset] ELSE now
    /\ UNCHANGED <<lock, disk, pc, late, todo, task, bucket, bounds>>

ImportEnds(p) ==
    /\ now[p] = NoDataset
    /\ todo[p] = {}
    /\ At(p, "import", "unlock")
    /\ UNCHANGED <<store, late, todo, now, task, bucket, bounds>>

Unlock(p) ==
    /\ At(p, "unlock", "scan")
    /\ lock' = Unlocked
    /\ UNCHANGED <<table, disk, late, todo, now, task, bucket, bounds>>

-----------------------------------------------------------------------------
(* run_suite: what is recorded as ok is skipped, the rest is submitted.  A   *)
(* record that does not parse raises.                                        *)
Unreadable(p) == ~Fresh /\ \E r \in Assigned[p] : record[r] \in Unparsable

\* Mutant: records are ignored.
Scan_Ignores(p) ==
    /\ At(p, "scan", "pool")
    /\ task' = [task EXCEPT ![p] = [r \in Runs |-> IF r \in Assigned[p] THEN "queued" ELSE "none"]]
    /\ UNCHANGED <<store, late, todo, now, bucket, bounds>>

Scan(p) ==
    /\ At(p, "scan", IF Unreadable(p) THEN "aborted" ELSE "pool")
    /\ task' = [task EXCEPT ![p] =
                 [r \in Runs |->
                   IF r \notin Assigned[p] THEN "none"
                   ELSE IF ~Fresh /\ record[r] = "ok" THEN "skipped" ELSE "queued"]]
    /\ UNCHANGED <<store, late, todo, now, bucket, bounds>>

(* _execute_one: the directory of the run is removed, with its record and    *)
(* whoever writes it; that fails where another process puts files there.     *)
Contended(p, r) == \E q \in Procs \ {p} : task[q][r] \in Active \cup Rewriting

StartRun(p, r) ==
    /\ pc[p] = "pool"
    /\ Cardinality({s \in Runs : task[p][s] \in Active}) < Workers
    /\ \/ /\ Advance(p, r, "queued", "cleared")
          /\ record' = [record EXCEPT ![r] = "gone"]
          /\ opened' = [opened EXCEPT ![r] = {}]
       \/ /\ Contended(p, r)
          /\ Advance(p, r, "queued", "failed")
          /\ \/ UNCHANGED disk
             \/ /\ record[r] # "gone"
                /\ record' = [record EXCEPT ![r] = "none"]
                /\ opened' = [opened EXCEPT ![r] = {}]
    /\ UNCHANGED <<lock, table, main, bucket, bounds>>

(* It is made again, unless it is there; the thread waits for the limiter.   *)
MakeDirectory(p, r) ==
    /\ Advance(p, r, "cleared", "waiting")
    /\ record' = [record EXCEPT ![r] = IF @ = "gone" THEN "none" ELSE @]
    /\ UNCHANGED <<lock, table, opened, main, bucket, bounds>>

Acquire(p, r) ==
    /\ bucket[p] > 0
    /\ bucket' = [bucket EXCEPT ![p] = @ - 1]
    /\ Advance(p, r, "waiting", "running")
    /\ UNCHANGED <<store, main, bounds>>

Refill(p) ==
    /\ \E r \in Runs : task[p][r] = "waiting"
    /\ bucket[p] < Rpm
    /\ bucket' = [bucket EXCEPT ![p] = @ + 1]
    /\ UNCHANGED <<store, main, task, bounds>>

(* write_text opens the record and empties it, in a directory that is there; *)
(* then it writes, to the file it has opened, from its first byte.           *)
OpenRecord(p, r) ==
    /\ record[r] # "gone"
    /\ record' = [record EXCEPT ![r] = "empty"]
    /\ opened' = [opened EXCEPT ![r] = @ \cup {p}]

WriteOver(p, r, status) ==
    /\ IF p \notin opened[r] THEN UNCHANGED record
       ELSE \E content \in {status} \cup (IF record[r] = "empty" THEN {} ELSE {"mixed"}) :
              record' = [record EXCEPT ![r] = content]
    /\ opened' = [opened EXCEPT ![r] = @ \ {p}]

(* run_case: without its case row the run is an error, as it is when the     *)
(* investigation raises.  The record is opened; a thread whose directory     *)
(* another process has removed raises.                                       *)
RunCase(p, r) ==
    /\ \/ \E status \in {"ok", "error"} :
            /\ table[DatasetOf[r]] < 3 => status = "error"
            /\ Advance(p, r, "running", Writing[status])
            /\ tainted' = IF status = "ok" /\ table[DatasetOf[r]] < Complete
                          THEN tainted \cup {r} ELSE tainted \ {r}
            /\ OpenRecord(p, r)
       \/ /\ record[r] = "gone"
          /\ Advance(p, r, "running", "failed")
          /\ UNCHANGED <<disk, tainted>>
    /\ UNCHANGED <<lock, table, main, bucket, takeovers, overruns, crashes>>

WriteRecord(p, r) ==
    /\ \E status \in {"ok", "error"} :
         /\ Advance(p, r, Writing[status], status)
         /\ WriteOver(p, r, status)
    /\ UNCHANGED <<lock, table, main, bucket, bounds>>

(* The pool is waited for; what a thread raised then ends the process.       *)
AfterPool(p) == IF \E r \in Runs : task[p][r] = "failed" THEN "aborted" ELSE "fill"

\* Mutant: nobody waits for the pool.
Finish_NoWait(p) ==
    /\ At(p, "pool", AfterPool(p))
    /\ UNCHANGED <<store, late, todo, now, task, bucket, bounds>>

Finish(p) ==
    /\ \A r \in Assigned[p] : task[p][r] \in DOMAIN Result \cup {"failed"}
    /\ At(p, "pool", AfterPool(p))
    /\ UNCHANGED <<store, late, todo, now, task, bucket, bounds>>

(* _fill_artifacts: the record of every run of the suite, those skipped      *)
(* included, is written again, one after the other.                          *)
FillOpen(p) ==
    /\ \A s \in Runs : task[p][s] \notin Rewriting
    /\ \E r \in Runs :
         /\ task[p][r] \in DOMAIN Result
         /\ \/ /\ At(p, "fill", "fill")
               /\ OpenRecord(p, r)
               /\ task' = [task EXCEPT ![p][r] = Filling[Result[@]]]
            \/ /\ record[r] = "gone"
               /\ At(p, "fill", "aborted")
               /\ UNCHANGED <<disk, task>>
    /\ UNCHANGED <<lock, table, late, todo, now, bucket, bounds>>

FillWrite(p) ==
    /\ pc[p] = "fill"
    /\ \E r \in Runs, status \in {"ok", "error"} :
         /\ Advance(p, r, Filling[status], "filled")
         /\ WriteOver(p, r, status)
    /\ UNCHANGED <<lock, table, main, bucket, bounds>>

FillEnds(p) ==
    /\ \A r \in Runs : task[p][r] \notin DOMAIN Result \cup Rewriting
    /\ At(p, "fill", "done")
    /\ UNCHANGED <<store, late, todo, now, task, bucket, bounds>>

-----------------------------------------------------------------------------
(* The process dies; it is started again with the same arguments. *)
Reset(p) ==
    /\ pc' = [pc EXCEPT ![p] = "off"]
    /\ late' = [late EXCEPT ![p] = FALSE]
    /\ todo' = [todo EXCEPT ![p] = {}]
    /\ now' = [now EXCEPT ![p] = NoDataset]
    /\ task' = [task EXCEPT ![p] = [r \in Runs |-> "none"]]
    /\ bucket' = [bucket EXCEPT ![p] = Rpm]
    /\ opened' = [r \in Runs |-> opened[r] \ {p}]

Crash(p) ==
    /\ crashes < MaxCrashes
    /\ pc[p] \notin {"off", "done", "aborted"}
    /\ Reset(p)
    /\ crashes' = crashes + 1
    /\ UNCHANGED <<lock, table, record, tainted, takeovers, overruns>>

Init ==
    /\ lock = Unlocked
    /\ table = [d \in Datasets |-> 1]
    /\ record = [r \in Runs |-> "gone"]
    /\ opened = [r \in Runs |-> {}]
    /\ pc = [p \in Procs |-> "off"]
    /\ late = [p \in Procs |-> FALSE]
    /\ todo = [p \in Procs |-> {}]
    /\ now = [p \in Procs |-> NoDataset]
    /\ task = [p \in Procs |-> [r \in Runs |-> "none"]]
    /\ bucket = [p \in Procs |-> Rpm]
    /\ tainted = {}
    /\ takeovers = 0
    /\ overruns = 0
    /\ crashes = 0

Main(p) ==
    \/ CreateLock(p)
    \/ DeadlinePasses(p)
    \/ TakeOver(p)
    \/ Recheck(p)
    \/ ImportNext(p)
    \/ ImportPart(p)
    \/ ImportEnds(p)
    \/ Unlock(p)
    \/ Scan(p)
    \/ Finish(p)
    \/ FillOpen(p)
    \/ FillWrite(p)
    \/ FillEnds(p)

Thread(p, r) ==
    \/ StartRun(p, r)
    \/ MakeDirectory(p, r)
    \/ Acquire(p, r)
    \/ RunCase(p, r)
    \/ WriteRecord(p, r)

Over == \A p \in Procs : pc[p] \in {"done", "aborted"}

Next ==
    \/ \E p \in Procs :
         \/ Open(p)
         \/ Main(p)
         \/ \E r \in Runs : Thread(p, r)
         \/ Refill(p)
         \/ Crash(p)
    \/ Over /\ UNCHANGED vars

(* Threads and processes are scheduled, time passes, models time out.  Who   *)
(* starts a process again is not the program's business.                     *)
Spec ==
    /\ Init /\ [][Next]_vars
    /\ \A p \in Procs :
         /\ WF_vars(Main(p))
         /\ WF_vars(Refill(p))
         /\ \A r \in Runs : WF_vars(Thread(p, r))

-----------------------------------------------------------------------------
PC == {"off", "lock", "recheck", "import", "unlock", "scan", "pool", "fill", "done", "aborted"}
Task == {"none", "queued", "filled", "failed"} \cup DOMAIN Result \cup Active \cup Rewriting

(* Types of the shared store and of the processes; a bucket never overflows. *)
TypeOK ==
    /\ lock \in Procs \cup {Unlocked}
    /\ table \in [Datasets -> 1 .. Complete]
    /\ record \in [Runs -> OnDisk]
    /\ opened \in [Runs -> SUBSET Procs]
    /\ pc \in [Procs -> PC]
    /\ late \in [Procs -> BOOLEAN]
    /\ todo \in [Procs -> SUBSET Datasets]
    /\ now \in [Procs -> Datasets \cup {NoDataset}]
    /\ task \in [Procs -> [Runs -> Task]]
    /\ bucket \in [Procs -> 0 .. Rpm]
    /\ tainted \subseteq Runs
    /\ {takeovers, overruns, crashes} \subseteq Nat

(* The lock file makes check and import one section ("互斥段"): a second     *)
(* importer gets in only where a waiting process has removed a lock file,    *)
(* one for each removal, although every importer removes whatever lock file  *)
(* it finds when it ends.                                                    *)
LockBrokenByTakeoverOnly ==
    Cardinality({p \in Procs : pc[p] \in Holding}) <= 1 + takeovers

(* What is written below is said of a run no other process has.              *)
Exclusive(p, r) == r \in Assigned[p] /\ \A q \in Procs \ {p} : r \notin Assigned[q]

Ok(p, r) == record[r] = "ok" \/ task[p][r] = Filling["ok"]

(* What a suite has recorded as ok stays so in every later start, after a    *)
(* crash at any point but one: a start takes it up only to write the same    *)
(* result again, and loses it only if it dies while the file is empty        *)
(* (run_suite, _fill_artifacts).                                             *)
OkRecordKept ==
    [][\A p \in Procs, r \in Runs :
          Exclusive(p, r) /\ Ok(p, r) => Ok(p, r)' \/ (task[p][r] = Filling["ok"] /\ Crash(p))]_vars

(* A resumed suite skips the runs that are complete, by their run_id         *)
(* (.sdd/features/16-agent-eval-framework/design.md:99): what is complete    *)
(* stays complete.                                                           *)
\* The code does not keep this, in a crash; no run checks it.
CompletedRunsStay ==
    [][\A p \in Procs, r \in Runs : Exclusive(p, r) /\ Ok(p, r) => Ok(p, r)']_vars

(* A suite that ends has a readable result of each of its runs on disk, be   *)
(* it from this start or from an earlier one.                                *)
FinishedSuiteIsRecorded ==
    \A p \in Procs, r \in Runs : pc[p] = "done" /\ Exclusive(p, r) => record[r] \in {"ok", "error"}

(* Every start of a process comes to an end of its own - a lock file left by *)
(* a dead importer, a used-up request budget and a failing run included -    *)
(* unless the process dies.                                                  *)
SuiteEnds ==
    \A p \in Procs : pc[p] # "off" ~> pc[p] \in {"off", "done", "aborted"}

(* A run that is accepted as ok saw the whole dataset: the file lock was put *)
(* there because readers hit half-imported rows (eval_tasks.py:283-286).     *)
\* The code does not keep this; no run checks it.
AcceptedOnFullData == \A r \in Runs : record[r] = "ok" => r \notin tainted
=============================================================================
