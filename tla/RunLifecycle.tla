----------------------------- MODULE RunLifecycle -----------------------------
(***************************************************************************)
(* The life of an investigation run: RunService, the SQLite runtime store  *)
(* it writes, and the services that act on a run from other threads        *)
(* (ApprovalService, DebugService, the intake and the replay endpoint).    *)
(*                                                                         *)
(* Every thread is a program counter with its local variables.  A step is  *)
(* one call on the store (each of which is atomic: it holds the store's    *)
(* lock) or one lock operation, so that whatever another thread may do     *)
(* between the read of a row and its write is a behaviour of the model.    *)
(*                                                                         *)
(* The row, event, audit, artifact and checkpoint tables survive a crash   *)
(* of the process; the threads and the two locks do not.                   *)
(***************************************************************************)
EXTENDS Naturals, Sequences

CONSTANTS
    Runs,            \* run identities, each used by at most one launch
    Alerts,          \* the runs whose source is an alert; the others replay a reference case
    Workers,         \* threads of the HTTP server and of the alert poller
    Main,            \* the thread that starts the process
    NoRun,           \* the run of a thread that has none
    Free,            \* the owner of a lock nobody holds
    BodyKinds,       \* event kinds an execution emits while it works
    MaxEmits,        \* bound: events one execution or one replay emits
    MaxDebugs,       \* bound: debug resumes requested (0: the debug service is disabled)
    MaxCrashes,      \* bound: crashes of the process
    RecoverAtStart   \* whether the process calls recover_orphans before it serves

Threads == Runs \cup Workers \cup {Main}

ASSUME ThreadsAssumption ==
    /\ Alerts \subseteq Runs
    /\ Runs \cap Workers = {}
    /\ Main \notin Runs \cup Workers
    /\ NoRun \notin Runs
    /\ Free \notin Threads

Status == {"absent", "queued", "running", "awaiting_approval", "completed", "failed"}
Stage  == {"absent", "queued", "initializing", "investigating", "judgment", "reporting",
           "response_advisory", "approval", "publishing", "published", "advised"}
Kind   == {"run", "graph", "tool", "verdict", "report", "response", "approval", "knowledge",
           "validation", "result", "complete", "error"}
Artifact == {"alert_payload", "demo_result", "investigation_report", "response_plan"}
AuditAction == {"run_created", "intake_alert_accepted", "run_replayed", "run_completed",
                "run_failed", "run_interrupted", "approval_requested", "approval_decided",
                "tool_invoked", "report_published", "knowledge_consulted", "debug_resumed"}

\* The decision an approver takes: accept and edit approve, ignore and respond deny.
Decision == {"approved", "denied"}

\* The newest checkpoint of the run's graph thread, as far as an approval can see it.
Checkpoint == {"none", "running", "interrupted", "finished"} \cup Decision

ASSUME BoundsAssumption ==
    /\ BodyKinds \subseteq Kind \ {"complete", "error"}   \* only _execute_locked ends a run
    /\ MaxEmits \in Nat
    /\ MaxDebugs \in Nat
    /\ MaxCrashes \in Nat
    /\ RecoverAtStart \in BOOLEAN

Row   == [status : Status, stage : Stage]
NoRow == [status |-> "absent", stage |-> "absent"]
Entry == [action : AuditAction \cup {"none"}, note : Decision \cup {"none"}]
Note(action, note) == [action |-> action, note |-> note]

VARIABLES
    row,        \* row[r]: the stored InvestigationRun
    events,     \* events[r]: kinds of the stored events, in sequence order
    audits,     \* audits[r]: the stored audit events, in sequence order
    artifacts,  \* artifacts[r]: types of the stored artifacts
    head,       \* head[r]: the newest checkpoint of the run's graph
    execLock,   \* RunService._execution_lock
    emitLock,   \* RunService._emit_lock
    thr,        \* thr[t]: program counter and local variables of thread t
    debugs,     \* debug resumes requested so far
    crashes,    \* crashes so far
    replayed    \* history: the runs a debug resume was requested of

tables == <<row, events, audits, artifacts, head>>
locks  == <<execLock, emitLock>>
counts == <<debugs, crashes, replayed>>
vars   == <<row, events, audits, artifacts, head, execLock, emitLock, thr, debugs, crashes,
            replayed>>
-------------------------------------------------------------------------------
(***************************************************************************)
(* Threads.  An executor is named by the run it executes.  _emit and _audit *)
(* are called from many places: `back' is where _emit returns to, `after'  *)
(* where _audit returns to.                                                *)
(***************************************************************************)
PC == {"idle", "serving", "boot", "recover_write",
       "launch_payload", "launch_spawn",
       "x_wait", "x_run", "x_body", "x_deny", "x_store", "x_close", "x_publish",
       "x_complete", "x_exit", "x_failed", "x_failwrite", "x_error",
       "emit", "emit_stage", "emit_seq", "emit_append", "emit_release",
       "audit_seq", "audit_append",
       "ap_load", "ap_resume", "ap_read", "ap_write",
       "db_body"}

Arg == {"none", "manual", "intake", "replay", "started", "pending", "done"} \cup Decision

ThreadState ==
    [pc : PC, run : Runs \cup {NoRun}, copy : Row, seq : Nat, kind : Kind \cup {"none"},
     entry : Entry, back : PC, after : PC, left : Nat, todo : Seq(Artifact),
     seen : Checkpoint, arg : Arg]

Idle ==
    [pc |-> "idle", run |-> NoRun, copy |-> NoRow, seq |-> 0, kind |-> "none",
     entry |-> Note("none", "none"), back |-> "idle", after |-> "idle", left |-> 0,
     todo |-> <<>>, seen |-> "none", arg |-> "none"]

Thread(pc, r) == [Idle EXCEPT !.pc = pc, !.run = r]

At(t, pc)    == thr[t].pc = pc
Become(t, s) == thr' = [thr EXCEPT ![t] = s]

CallEmit(s, kind, back)          == [s EXCEPT !.pc = "emit", !.kind = kind, !.back = back]
CallAudit(s, action, note, after) ==
    [s EXCEPT !.pc = "audit_seq", !.entry = Note(action, note), !.after = after]

Serving == At(Main, "serving")

UpdateRun(r, stored) == row' = [row EXCEPT ![r] = stored]
-------------------------------------------------------------------------------
(***************************************************************************)
(* _emit: under the emit lock, read the row, move its stage, store the     *)
(* event under the next sequence number, and audit the kinds that need it. *)
(***************************************************************************)
StageOf(kind, stage) ==
    CASE kind = "run" -> "initializing"
      [] kind \in {"graph", "tool"} -> "investigating"
      [] kind = "verdict" -> "judgment"
      [] kind = "report" -> "reporting"
      [] kind = "response" -> "response_advisory"
      [] kind = "approval" -> "approval"
      [] kind = "result" -> "publishing"
      [] kind = "complete" -> "published"
      [] OTHER -> stage

AuditedKinds == {"tool", "report", "approval", "knowledge"}

ActionOf(kind) ==
    CASE kind = "tool" -> "tool_invoked"
      [] kind = "report" -> "report_published"
      [] kind = "approval" -> "approval_decided"
      [] OTHER -> "knowledge_consulted"

\* Mutant: events of tool threads and replays are not serialised.
EmitRead_Unlocked(t) ==
    /\ At(t, "emit")
    /\ emitLock' = t
    /\ Become(t, [thr[t] EXCEPT !.copy = row[thr[t].run], !.pc = "emit_seq"])
    /\ UNCHANGED <<tables, execLock, counts>>

EmitRead(t) ==
    /\ At(t, "emit")
    /\ emitLock = Free
    /\ emitLock' = t
    /\ LET stored == row[thr[t].run]
           moved  == [stored EXCEPT !.stage = StageOf(thr[t].kind, stored.stage)]
       IN  Become(t, [thr[t] EXCEPT !.copy = moved,
                                    !.pc = IF moved = stored THEN "emit_seq" ELSE "emit_stage"])
    /\ UNCHANGED <<tables, execLock, counts>>

EmitStage(t) ==
    /\ At(t, "emit_stage")
    /\ UpdateRun(thr[t].run, thr[t].copy)
    /\ Become(t, [thr[t] EXCEPT !.pc = "emit_seq"])
    /\ UNCHANGED <<events, audits, artifacts, head, locks, counts>>

EmitSeq(t) ==
    /\ At(t, "emit_seq")
    /\ Become(t, [thr[t] EXCEPT !.pc = "emit_append", !.seq = Len(events[thr[t].run]) + 1])
    /\ UNCHANGED <<tables, locks, counts>>

EmitAppend(t) ==
    /\ At(t, "emit_append")
    /\ thr[t].seq = Len(events[thr[t].run]) + 1
    /\ events' = [events EXCEPT ![thr[t].run] = Append(@, thr[t].kind)]
    /\ Become(t, IF thr[t].kind \in AuditedKinds
                 THEN CallAudit(thr[t], ActionOf(thr[t].kind), "none", "emit_release")
                 ELSE [thr[t] EXCEPT !.pc = "emit_release"])
    /\ UNCHANGED <<row, audits, artifacts, head, locks, counts>>

Returned(s) == [s EXCEPT !.pc = s.back, !.back = "idle", !.kind = "none", !.copy = NoRow, !.seq = 0]

EmitRelease(t) ==
    /\ At(t, "emit_release")
    /\ emitLock' = Free
    /\ Become(t, Returned(thr[t]))
    /\ UNCHANGED <<tables, execLock, counts>>

Emit(t) == EmitRead(t) \/ EmitStage(t) \/ EmitSeq(t) \/ EmitAppend(t) \/ EmitRelease(t)
-------------------------------------------------------------------------------
(***************************************************************************)
(* _audit: allocate the next sequence number, then insert.  No lock spans  *)
(* the two calls; an insert whose number was taken meanwhile violates the  *)
(* table's primary key and raises in the thread that came second.          *)
(***************************************************************************)
AuditSeq(t) ==
    /\ At(t, "audit_seq")
    /\ Become(t, [thr[t] EXCEPT !.pc = "audit_append", !.seq = Len(audits[thr[t].run]) + 1])
    /\ UNCHANGED <<tables, locks, counts>>

NumberTaken(t) == thr[t].seq <= Len(audits[thr[t].run])

Audited(s) ==
    IF s.after = "idle"
    THEN Idle
    ELSE [s EXCEPT !.pc = s.after, !.after = "idle", !.seq = 0, !.entry = Note("none", "none")]

AuditAppend(t) ==
    /\ At(t, "audit_append")
    /\ ~NumberTaken(t)
    /\ audits' = [audits EXCEPT ![thr[t].run] = Append(@, thr[t].entry)]
    /\ Become(t, Audited(thr[t]))
    /\ UNCHANGED <<row, events, artifacts, head, locks, counts>>

(***************************************************************************)
(* Where the exception goes.  Raised inside an event of a running graph it *)
(* is either turned into a tool error by the safety net, and the graph     *)
(* works on, or it ends the graph; raised while the execution parks, it    *)
(* fails the run; anywhere else it ends the thread.                        *)
(***************************************************************************)
Unwound(s) ==
    LET out == [Returned(s) EXCEPT !.after = "idle", !.entry = Note("none", "none")]
    IN  IF s.after # "emit_release" THEN {Idle}
        ELSE CASE s.back = "x_body"  -> {out, [out EXCEPT !.pc = "x_failed"]}
               [] s.back = "db_body" -> {out, Idle}
               [] OTHER              -> {[out EXCEPT !.pc = "x_failed"]}

\* Mutant: _emit takes its lock without a with statement.
AuditCollide_KeepsEmitLock(t) ==
    /\ At(t, "audit_append")
    /\ NumberTaken(t)
    /\ \E s \in Unwound(thr[t]) :
          /\ Become(t, s)
          /\ execLock' = IF execLock = t /\ s = Idle THEN Free ELSE execLock
    /\ UNCHANGED <<tables, emitLock, counts>>

AuditCollide(t) ==
    /\ At(t, "audit_append")
    /\ NumberTaken(t)
    /\ \E s \in Unwound(thr[t]) :
          /\ Become(t, s)
          /\ execLock' = IF execLock = t /\ s = Idle THEN Free ELSE execLock
    /\ emitLock' = IF emitLock = t THEN Free ELSE emitLock
    /\ UNCHANGED <<tables, counts>>

Audit(t) == AuditSeq(t) \/ AuditAppend(t) \/ AuditCollide(t)
-------------------------------------------------------------------------------
(***************************************************************************)
(* _launch, from the start and intake endpoints, the alert poller and      *)
(* replay: row, payload, audit, thread.  The poller and replay then add an *)
(* audit record of their own, while the new thread already runs.           *)
(***************************************************************************)
Origins(r) ==
    IF r \in Alerts THEN {"manual", "intake"}
    ELSE {"manual"} \cup {o \in {"replay"} : \E old \in Runs \ Alerts : row[old].status # "absent"}

LaunchCreate(w) ==
    /\ Serving
    /\ At(w, "idle")
    /\ \E r \in Runs :
          /\ row[r].status = "absent"
          /\ \E origin \in Origins(r) :
                Become(w, IF r \in Alerts
                          THEN [Thread("launch_payload", r) EXCEPT !.arg = origin]
                          ELSE CallAudit([Thread("idle", r) EXCEPT !.arg = origin],
                                         "run_created", "none", "launch_spawn"))
          /\ UpdateRun(r, [status |-> "queued", stage |-> "queued"])
    /\ UNCHANGED <<events, audits, artifacts, head, locks, counts>>

LaunchPayload(w) ==
    /\ At(w, "launch_payload")
    /\ artifacts' = [artifacts EXCEPT ![thr[w].run] = @ \cup {"alert_payload"}]
    /\ Become(w, CallAudit(thr[w], "run_created", "none", "launch_spawn"))
    /\ UNCHANGED <<row, events, audits, head, locks, counts>>

LaunchSpawn(w) ==
    /\ At(w, "launch_spawn")
    /\ LET r == thr[w].run
           rest == CASE thr[w].arg = "intake" ->
                           CallAudit(thr[w], "intake_alert_accepted", "none", "idle")
                     [] thr[w].arg = "replay" -> CallAudit(thr[w], "run_replayed", "none", "idle")
                     [] OTHER -> Idle
       IN  thr' = [thr EXCEPT ![w] = rest, ![r] = Thread("x_wait", r)]
    /\ UNCHANGED <<tables, locks, counts>>

Launch(w) == LaunchPayload(w) \/ LaunchSpawn(w)
-------------------------------------------------------------------------------
(***************************************************************************)
(* _execute_locked: the thread of run r, under the execution lock.         *)
(***************************************************************************)
\* Mutant: the execution slot is not exclusive.
XAcquire_NoWait(r) ==
    /\ At(r, "x_wait")
    /\ execLock' = r
    /\ Become(r, [thr[r] EXCEPT !.pc = "x_run",
                                !.copy = [status |-> "running", stage |-> "initializing"]])
    /\ UNCHANGED <<tables, emitLock, counts>>

XAcquire(r) ==
    /\ At(r, "x_wait")
    /\ execLock = Free
    /\ execLock' = r
    /\ Become(r, [thr[r] EXCEPT !.pc = "x_run",
                                !.copy = [row[r] EXCEPT !.status = "running",
                                                        !.stage = "initializing"]])
    /\ UNCHANGED <<tables, emitLock, counts>>

XRun(r) ==
    /\ At(r, "x_run")
    /\ UpdateRun(r, thr[r].copy)
    /\ Become(r, CallEmit([thr[r] EXCEPT !.left = MaxEmits], "run", "x_body"))
    /\ UNCHANGED <<events, audits, artifacts, head, locks, counts>>

\* execution.execute starts the case graph: its first checkpoint is stored.
XGraphStart(r) ==
    /\ At(r, "x_body")
    /\ thr[r].arg = "none"
    /\ head' = [head EXCEPT ![r] = "running"]
    /\ Become(r, [thr[r] EXCEPT !.arg = "started"])
    /\ UNCHANGED <<row, events, audits, artifacts, locks, counts>>

XEmit(r) ==
    /\ At(r, "x_body")
    /\ thr[r].left > 0
    /\ \E kind \in BodyKinds :
          Become(r, CallEmit([thr[r] EXCEPT !.left = @ - 1], kind, "x_body"))
    /\ UNCHANGED <<tables, locks, counts>>

SourceArtifact(r) == IF r \in Alerts THEN "alert_payload" ELSE "demo_result"

\* The graph publishes its report before it plans a response; it may end without a plan.
Outcomes(r) == {<<SourceArtifact(r), "investigation_report">>,
                <<SourceArtifact(r), "investigation_report", "response_plan">>}

\* execute returns the artifacts of a finished graph; a reference run reports its result first.
Concluded(r, out) ==
    LET s == [thr[r] EXCEPT !.pc = "x_store", !.arg = "done", !.todo = out]
    IN  IF r \in Alerts THEN s ELSE CallEmit(s, "result", "x_store")

XFinish(r) ==
    /\ At(r, "x_body")
    /\ thr[r].arg = "started"
    /\ head' = [head EXCEPT ![r] = "finished"]
    /\ \E out \in Outcomes(r) : Become(r, Concluded(r, out))
    /\ UNCHANGED <<row, events, audits, artifacts, locks, counts>>

\* The graph stops at the response-approval interrupt.  An alert run parks; a
\* reference run is denied by the demo policy.
XInterrupt(r) ==
    /\ At(r, "x_body")
    /\ thr[r].arg = "started"
    /\ head' = [head EXCEPT ![r] = "interrupted"]
    /\ Become(r, IF r \in Alerts
                 THEN CallEmit([thr[r] EXCEPT !.arg = "pending",
                                  !.todo = <<"alert_payload", "response_plan", "investigation_report">>],
                               "approval", "x_store")
                 ELSE CallEmit(thr[r], "approval", "x_deny"))
    /\ UNCHANGED <<row, events, audits, artifacts, locks, counts>>

XDeny(r) ==
    /\ At(r, "x_deny")
    /\ head' = [head EXCEPT ![r] = "denied"]
    /\ Become(r, Concluded(r, <<SourceArtifact(r), "investigation_report", "response_plan">>))
    /\ UNCHANGED <<row, events, audits, artifacts, locks, counts>>

XRaise(r) ==
    /\ At(r, "x_body") \/ At(r, "x_deny")
    /\ Become(r, [thr[r] EXCEPT !.pc = "x_failed"])
    /\ UNCHANGED <<tables, locks, counts>>

\* Mutant: the row is published before its artifacts are stored.
XStore_AfterPublish(r) ==
    /\ At(r, "x_store")
    /\ Become(r, [thr[r] EXCEPT !.pc = "x_close"])
    /\ UNCHANGED <<tables, locks, counts>>

XStore(r) ==
    /\ At(r, "x_store")
    /\ IF thr[r].todo = <<>>
       THEN /\ Become(r, [thr[r] EXCEPT !.pc = "x_close"])
            /\ UNCHANGED artifacts
       ELSE /\ artifacts' = [artifacts EXCEPT ![r] = @ \cup {Head(thr[r].todo)}]
            /\ Become(r, [thr[r] EXCEPT !.todo = Tail(@)])
    /\ UNCHANGED <<row, events, audits, head, locks, counts>>

XClose(r) ==
    /\ At(r, "x_close")
    /\ Become(r, [thr[r] EXCEPT !.pc = "x_publish",
                     !.copy = IF thr[r].arg = "pending"
                              THEN [row[r] EXCEPT !.status = "awaiting_approval", !.stage = "approval"]
                              ELSE [row[r] EXCEPT !.status = "completed", !.stage = "published"]])
    /\ UNCHANGED <<tables, locks, counts>>

XPublish(r) ==
    /\ At(r, "x_publish")
    /\ UpdateRun(r, thr[r].copy)
    /\ Become(r, IF thr[r].arg = "pending"
                 THEN CallAudit(thr[r], "approval_requested", "none", "x_exit")
                 ELSE CallAudit(thr[r], "run_completed", "none", "x_complete"))
    /\ UNCHANGED <<events, audits, artifacts, head, locks, counts>>

\* Mutant: the last event is emitted inside the try whose handler fails the run.
XComplete_InTry(r) ==
    /\ At(r, "x_complete")
    /\ \/ Become(r, CallEmit(thr[r], "complete", "x_exit"))
       \/ Become(r, [thr[r] EXCEPT !.pc = "x_failed"])
    /\ UNCHANGED <<tables, locks, counts>>

XComplete(r) ==
    /\ At(r, "x_complete")
    /\ Become(r, CallEmit(thr[r], "complete", "x_exit"))
    /\ UNCHANGED <<tables, locks, counts>>

\* Mutant: a failure is reported in the event stream before the row says so.
XFailRead_EventFirst(r) ==
    /\ At(r, "x_failed")
    /\ Become(r, [thr[r] EXCEPT !.pc = "x_error"])
    /\ UNCHANGED <<tables, locks, counts>>

XFailRead(r) ==
    /\ At(r, "x_failed")
    /\ Become(r, [thr[r] EXCEPT !.pc = "x_failwrite", !.copy = [row[r] EXCEPT !.status = "failed"]])
    /\ UNCHANGED <<tables, locks, counts>>

XFailWrite(r) ==
    /\ At(r, "x_failwrite")
    /\ UpdateRun(r, thr[r].copy)
    /\ Become(r, CallAudit(thr[r], "run_failed", "none", "x_error"))
    /\ UNCHANGED <<events, audits, artifacts, head, locks, counts>>

XError(r) ==
    /\ At(r, "x_error")
    /\ Become(r, CallEmit(thr[r], "error", "x_exit"))
    /\ UNCHANGED <<tables, locks, counts>>

\* Mutant: a way out of the execution keeps the slot.
XExit_KeepsSlot(r) ==
    /\ At(r, "x_exit")
    /\ Become(r, Idle)
    /\ UNCHANGED <<tables, locks, counts>>

XExit(r) ==
    /\ At(r, "x_exit")
    /\ execLock' = Free
    /\ Become(r, Idle)
    /\ UNCHANGED <<tables, emitLock, counts>>

Execute(r) ==
    \/ XAcquire(r) \/ XRun(r)
    \/ XGraphStart(r) \/ XEmit(r) \/ XFinish(r) \/ XInterrupt(r) \/ XDeny(r) \/ XRaise(r)
    \/ XStore(r) \/ XClose(r) \/ XPublish(r) \/ XComplete(r)
    \/ XFailRead(r) \/ XFailWrite(r) \/ XError(r) \/ XExit(r)
-------------------------------------------------------------------------------
(***************************************************************************)
(* ApprovalService.decide, then RunService.complete_after_approval.  The   *)
(* request resumes the graph on its own thread, outside the execution lock.*)
(***************************************************************************)
\* Mutant: the run is closed without resuming its graph.
ApCheck_NoResume(w) ==
    /\ Serving
    /\ At(w, "idle")
    /\ \E r \in Runs, d \in Decision :
          /\ row[r].status = "awaiting_approval"
          /\ Become(w, [Thread("ap_read", r) EXCEPT !.arg = d])
    /\ UNCHANGED <<tables, locks, counts>>

ApCheck(w) ==
    /\ Serving
    /\ At(w, "idle")
    /\ \E r \in Runs, d \in Decision :
          /\ row[r].status = "awaiting_approval"
          /\ Become(w, [Thread("ap_load", r) EXCEPT !.arg = d])
    /\ UNCHANGED <<tables, locks, counts>>

\* Command(resume=...) loads the newest checkpoint ...
ApLoad(w) ==
    /\ At(w, "ap_load")
    /\ Become(w, [thr[w] EXCEPT !.pc = "ap_resume", !.seen = head[thr[w].run]])
    /\ UNCHANGED <<tables, locks, counts>>

\* ... and runs approve_response if that checkpoint is interrupted there; on a
\* finished graph it runs nothing and returns the stored values.
ApResume(w) ==
    /\ At(w, "ap_resume")
    /\ head' = IF thr[w].seen = "interrupted"
               THEN [head EXCEPT ![thr[w].run] = thr[w].arg]
               ELSE head
    /\ Become(w, [thr[w] EXCEPT !.pc = "ap_read", !.seen = "none"])
    /\ UNCHANGED <<row, events, audits, artifacts, locks, counts>>

\* The edited plan a decision carries does not satisfy the ResponsePlan contract:
\* the node raises and the interrupt stays pending.
ApRejectEdit(w) ==
    /\ At(w, "ap_resume")
    /\ thr[w].seen = "interrupted"
    /\ Become(w, Idle)
    /\ UNCHANGED <<tables, locks, counts>>

ApRead(w) ==
    /\ At(w, "ap_read")
    /\ Become(w, IF row[thr[w].run].status # "awaiting_approval"
                 THEN Idle
                 ELSE [thr[w] EXCEPT !.pc = "ap_write",
                          !.copy = [row[thr[w].run] EXCEPT !.status = "completed", !.stage = "advised"]])
    /\ UNCHANGED <<tables, locks, counts>>

ApWrite(w) ==
    /\ At(w, "ap_write")
    /\ UpdateRun(thr[w].run, thr[w].copy)
    /\ Become(w, CallAudit(thr[w], "approval_decided", thr[w].arg, "idle"))
    /\ UNCHANGED <<events, audits, artifacts, head, locks, counts>>

Approve(w) == ApLoad(w) \/ ApResume(w) \/ ApRejectEdit(w) \/ ApRead(w) \/ ApWrite(w)
-------------------------------------------------------------------------------
(***************************************************************************)
(* DebugService.resume on a background thread: an event, a replay of the   *)
(* graph from one of its checkpoints (which emits like an execution), and  *)
(* an audit record.  The endpoint asks whether the run exists and nothing  *)
(* else: the run may still be queued, or its launch be under way.  Which   *)
(* checkpoint the request names, and what the graph does with one it does  *)
(* not have, is not seen here: the replay may emit, end or raise.          *)
(***************************************************************************)
DbStart(w) ==
    /\ Serving
    /\ At(w, "idle")
    /\ debugs < MaxDebugs
    /\ debugs' = debugs + 1
    /\ \E r \in Runs :
          /\ row[r].status # "absent"
          /\ replayed' = replayed \cup {r}
          /\ Become(w, CallEmit([Thread("idle", r) EXCEPT !.left = MaxEmits], "graph", "db_body"))
    /\ UNCHANGED <<tables, locks, crashes>>

DbEmit(w) ==
    /\ At(w, "db_body")
    /\ thr[w].left > 0
    /\ \E kind \in BodyKinds :
          Become(w, CallEmit([thr[w] EXCEPT !.left = @ - 1], kind, "db_body"))
    /\ UNCHANGED <<tables, locks, counts>>

DbEnd(w) ==
    /\ At(w, "db_body")
    /\ \E h \in {"interrupted", "finished"} \cup Decision : head' = [head EXCEPT ![thr[w].run] = h]
    /\ Become(w, CallAudit(thr[w], "debug_resumed", "none", "idle"))
    /\ UNCHANGED <<row, events, audits, artifacts, locks, counts>>

DbRaise(w) ==
    /\ At(w, "db_body")
    /\ Become(w, Idle)
    /\ UNCHANGED <<tables, locks, counts>>

Debug(w) == DbEmit(w) \/ DbEnd(w) \/ DbRaise(w)
-------------------------------------------------------------------------------
(***************************************************************************)
(* A crash ends every thread.  The new process may run recover_orphans     *)
(* before it serves requests.                                              *)
(***************************************************************************)
Booted == Thread(IF RecoverAtStart THEN "boot" ELSE "serving", NoRun)

Crash ==
    /\ crashes < MaxCrashes
    /\ crashes' = crashes + 1
    /\ thr' = [t \in Threads |-> IF t = Main THEN Booted ELSE Idle]
    /\ execLock' = Free
    /\ emitLock' = Free
    /\ UNCHANGED <<tables, debugs, replayed>>

\* Mutants: recovery forgets the queue; recovery takes a parked run for an orphan.
Orphans_RunningOnly == {r \in Runs : row[r].status = "running"}
Orphans_AnyOpen == {r \in Runs : row[r].status \in {"queued", "running", "awaiting_approval"}}

Orphans == {r \in Runs : row[r].status \in {"queued", "running"}}

RecoverNext ==
    /\ At(Main, "boot")
    /\ \E r \in Orphans :
          Become(Main, [Thread("recover_write", r) EXCEPT !.copy = [row[r] EXCEPT !.status = "failed"]])
    /\ UNCHANGED <<tables, locks, counts>>

RecoverWrite ==
    /\ At(Main, "recover_write")
    /\ UpdateRun(thr[Main].run, thr[Main].copy)
    /\ Become(Main, CallAudit(thr[Main], "run_interrupted", "none", "boot"))
    /\ UNCHANGED <<events, audits, artifacts, head, locks, counts>>

RecoverDone ==
    /\ At(Main, "boot")
    /\ Orphans = {}
    /\ Become(Main, Thread("serving", NoRun))
    /\ UNCHANGED <<tables, locks, counts>>

Recover == RecoverNext \/ RecoverWrite \/ RecoverDone \/ Audit(Main)
-------------------------------------------------------------------------------
Init ==
    /\ row = [r \in Runs |-> NoRow]
    /\ events = [r \in Runs |-> <<>>]
    /\ audits = [r \in Runs |-> <<>>]
    /\ artifacts = [r \in Runs |-> {}]
    /\ head = [r \in Runs |-> "none"]
    /\ execLock = Free
    /\ emitLock = Free
    /\ thr = [t \in Threads |-> IF t = Main THEN Booted ELSE Idle]
    /\ debugs = 0
    /\ crashes = 0
    /\ replayed = {}

\* The requests of the workbench, the poller and the analysts.
Request(w) == LaunchCreate(w) \/ ApCheck(w) \/ DbStart(w)

ExecutorStep(r) == Execute(r) \/ Emit(r) \/ Audit(r)
WorkerStep(w)   == Launch(w) \/ Approve(w) \/ Debug(w) \/ Emit(w) \/ Audit(w)

\* Nothing is running: the server waits for requests.
Quiescent ==
    /\ Serving
    /\ \A t \in Runs \cup Workers : At(t, "idle")
    /\ UNCHANGED vars

Next ==
    \/ \E r \in Runs : ExecutorStep(r)
    \/ \E w \in Workers : Request(w) \/ WorkerStep(w)
    \/ Recover
    \/ Crash
    \/ Quiescent

Spec == Init /\ [][Next]_vars

(***************************************************************************)
(* Fairness: the operating system runs every thread, and an execution ends *)
(* (its budgets bound it).  Requests and crashes need not happen.          *)
(***************************************************************************)
Fairness ==
    /\ \A r \in Runs : WF_vars(ExecutorStep(r))
    /\ \A w \in Workers : WF_vars(WorkerStep(w))
    /\ WF_vars(Recover)

FairSpec == Spec /\ Fairness
-------------------------------------------------------------------------------
TypeOK ==
    /\ row \in [Runs -> Row]
    /\ events \in [Runs -> Seq(Kind)]
    /\ audits \in [Runs -> Seq(Entry)]
    /\ artifacts \in [Runs -> SUBSET Artifact]
    /\ head \in [Runs -> Checkpoint]
    /\ execLock \in Runs \cup {Free}
    /\ emitLock \in Threads \cup {Free}
    /\ thr \in [Threads -> ThreadState]
    /\ debugs \in 0..MaxDebugs
    /\ crashes \in 0..MaxCrashes
    /\ replayed \subseteq Runs

Has(sequence, x) == \E i \in 1..Len(sequence) : sequence[i] = x

\* The executor of r is between the acquisition of the execution lock and its release.
Executing(r) == thr[r].pc \notin {"idle", "x_wait"}

(***************************************************************************)
(* At most one run executes at a time ("execution must not overlap",       *)
(* tests/test_run_service.py): the lock is released on every way out,      *)
(* exceptions included, and by its owner only.                             *)
(***************************************************************************)
SingleExecutionSlot ==
    \A r \in Runs : Executing(r) <=> execLock = r

(***************************************************************************)
(* Inside _emit: reading the row, allocating a number, inserting.          *)
(***************************************************************************)
InEmit(t) ==
    \/ thr[t].pc \in {"emit_stage", "emit_seq", "emit_append", "emit_release"}
    \/ thr[t].pc \in {"audit_seq", "audit_append"} /\ thr[t].after = "emit_release"

(***************************************************************************)
(* The emit lock is held exactly by the thread that is inside _emit, also  *)
(* when an audit raises in there.                                          *)
(***************************************************************************)
EmitLockHeldByEmitter ==
    \A t \in Threads : InEmit(t) <=> emitLock = t

(***************************************************************************)
(* The number an event was given is still the next one when the event is   *)
(* inserted, whichever threads emit on the run (the executor's tool        *)
(* threads, a debug replay): the insert never hits the primary key, and    *)
(* the ledger the event stream pages through has no gap.                   *)
(***************************************************************************)
EventNumberStillFree ==
    \A t \in Threads : At(t, "emit_append") => thr[t].seq = Len(events[thr[t].run]) + 1

(***************************************************************************)
(* The runs nobody replayed.  A replay writes whole rows and checkpoints   *)
(* beside the threads that own them, so from its first replay on a run     *)
(* keeps only the lock and ledger properties above.  The other runs of the *)
(* process keep all that follows, whatever is replayed beside them.        *)
(***************************************************************************)
Unreplayed == Runs \ replayed

(***************************************************************************)
(* The event stream is the authoritative completion signal                 *)
(* (tests/test_run_service.py): whoever sees the last event of a run finds *)
(* the row in the state the event announces, also after a crash.           *)
(***************************************************************************)
TerminalEventMatchesRow ==
    \A r \in Unreplayed :
        /\ Has(events[r], "complete") => row[r].status = "completed"
        /\ Has(events[r], "error") => row[r].status = "failed"

(***************************************************************************)
(* A run is shown as published or offered for approval only once all its   *)
(* artifacts are stored: a crash may lose the status, never the report or  *)
(* the plan behind it.                                                     *)
(***************************************************************************)
PublishedAfterArtifacts ==
    \A r \in Unreplayed : row[r].status \in {"awaiting_approval", "completed"} =>
        /\ {SourceArtifact(r), "investigation_report"} \subseteq artifacts[r]
        /\ thr[r].todo = <<>>
        /\ row[r].status = "awaiting_approval" => "response_plan" \in artifacts[r]

(***************************************************************************)
(* The approval desk offers a run only if its graph is stopped at the      *)
(* interrupt (or was already resumed from it), and the run is closed as    *)
(* advised only after its graph took a decision.                           *)
(***************************************************************************)
ApprovalFollowsGraph ==
    \A r \in Unreplayed :
        /\ row[r].status = "awaiting_approval" => head[r] \in {"interrupted"} \cup Decision
        /\ row[r].stage = "advised" => head[r] \in Decision

(***************************************************************************)
(* Once the process serves, a queued or running row has a thread that will *)
(* move it: its executor, or the request that is about to start one.       *)
(***************************************************************************)
HasThread(r) ==
    \/ ~At(r, "idle")
    \/ \E w \in Workers : /\ thr[w].run = r
                          /\ \/ thr[w].pc \in {"launch_payload", "launch_spawn"}
                             \/ thr[w].after = "launch_spawn"

NoOrphanRun ==
    Serving => \A r \in Unreplayed : row[r].status \in {"queued", "running"} => HasThread(r)

(***************************************************************************)
(* A pending approval survives a restart and is closed by a decision only. *)
(***************************************************************************)
PendingClosedByDecision ==
    [][\A r \in Unreplayed : row[r].status = "awaiting_approval" /\ row'[r].status # "awaiting_approval"
           => /\ row'[r].status = "completed"
              /\ head[r] \in Decision
              /\ \E w \in Workers : thr'[w].run = r /\ thr'[w].entry.action = "approval_decided"]_vars

(***************************************************************************)
(* The decision the audit trail records is the one the graph acted on.     *)
(***************************************************************************)
\* The code does not keep this; no run checks it.
AuditedDecisionIsTheGraphs ==
    \A r \in Runs, d \in Decision : Has(audits[r], Note("approval_decided", d)) => head[r] = d

(***************************************************************************)
(* Deciding a completed run must fail (tests/test_approval_flow.py): one   *)
(* run has one recorded decision.                                          *)
(***************************************************************************)
\* The code does not keep this; no run checks it.
DecidedOnce ==
    \A r \in Runs :
        LET decided == {i \in 1..Len(audits[r]) : audits[r][i].action = "approval_decided"
                                                 /\ audits[r][i].note \in Decision}
        IN  \A i, j \in decided : i = j

(***************************************************************************)
(* Debug replay must not migrate run state (tests/test_debug_service.py):  *)
(* a completed or failed run keeps its status.                             *)
(***************************************************************************)
\* The code does not keep this; no run checks it.
TerminalStatusKept ==
    [][\A r \in Runs : row[r].status \in {"completed", "failed"} => row'[r].status = row[r].status]_vars

(***************************************************************************)
(* An audit record is inserted under a number nobody else took.            *)
(***************************************************************************)
\* The code does not keep this; no run checks it.
AuditNumberStillFree ==
    \A t \in Threads : At(t, "audit_append") => ~NumberTaken(t)

\* Every run that was accepted comes to an end or to the approval desk.
EveryRunSettles ==
    \A r \in Runs : row[r].status = "queued" ~> row[r].status \notin {"queued", "running"}

\* The status column behaves as RunContract promises, for each run until its first replay.
Contract ==
    INSTANCE RunContract
        WITH status <- [r \in Runs |-> IF r \in replayed THEN "replayed" ELSE row[r].status]
ImplementsContract == Contract!Spec
KeepsContract      == Contract!Safety
===============================================================================
