-------------------------- MODULE RunLifecycleProofs --------------------------
(***************************************************************************)
(* RunLifecycle for every set of runs and threads and for every bound:     *)
(* first its types, then its two locks, then what the row of a run means.  *)
(***************************************************************************)
EXTENDS RunLifecycle, SequenceTheorems, TLAPS

Resting == {"idle", "serving", "boot"}
InAudit == {"audit_seq", "audit_append"}
EmitPCs == {"emit", "emit_stage", "emit_seq", "emit_append", "emit_release"}
ApPCs   == {"ap_load", "ap_resume", "ap_read", "ap_write"}

\* Where _emit and _audit may return to, by the kind of thread that called them.
Backs(t) == IF t \in Runs THEN {"x_body", "x_deny", "x_store", "x_exit"}
            ELSE IF t \in Workers THEN {"db_body"} ELSE {}
Afters(t) == IF t \in Runs THEN {"emit_release", "x_exit", "x_complete", "x_error"}
             ELSE IF t \in Workers THEN {"emit_release", "launch_spawn", "idle"} ELSE {"boot"}

\* What the local state s of thread t always satisfies.
Local(t, s) ==
    /\ s \in ThreadState
    /\ s.pc \notin Resting => s.run \in Runs
    /\ s.pc \in ApPCs => s.arg \in Decision
    /\ s.pc \in EmitPCs => s.back \in Backs(t)
    /\ s.pc \in EmitPCs \ {"emit_release"} => s.kind \in Kind
    /\ s.pc \in InAudit => s.after \in Afters(t)
    /\ s.pc \in InAudit /\ s.after = "emit_release" => s.back \in Backs(t)

StoreTyped ==
    /\ row \in [Runs -> Row]
    /\ events \in [Runs -> Seq(Kind)]
    /\ audits \in [Runs -> Seq(Entry)]
    /\ artifacts \in [Runs -> SUBSET Artifact]
    /\ head \in [Runs -> Checkpoint]
    /\ execLock \in Runs \cup {Free}
    /\ emitLock \in Threads \cup {Free}
    /\ debugs \in 0..MaxDebugs
    /\ crashes \in 0..MaxCrashes
    /\ replayed \subseteq Runs

Typed == TypeOK /\ \A t \in Threads : Local(t, thr[t])
-------------------------------------------------------------------------------
(***************************************************************************)
(* Members of the enumerated sets.                                         *)
(***************************************************************************)
LEMMA NoRowType == NoRow \in Row
  BY SMT DEF NoRow, Row, Status, Stage

LEMMA NoteType ==
  ASSUME NEW a \in AuditAction \cup {"none"}, NEW n \in Decision \cup {"none"}
  PROVE  Note(a, n) \in Entry
  BY SMT DEF Note, Entry

LEMMA StageType ==
  ASSUME NEW k, NEW stored \in Row
  PROVE  [stored EXCEPT !.stage = StageOf(k, stored.stage)] \in Row
  BY SMT DEF StageOf, Row, Stage

LEMMA ActionType == \A k : ActionOf(k) \in AuditAction
  BY SMT DEF ActionOf, AuditAction

LEMMA ThreadKinds == Runs \subseteq Threads /\ Workers \subseteq Threads /\ Main \in Threads
  BY DEF Threads

LEMMA BacksPC == \A t : Backs(t) \subseteq PC /\ Afters(t) \subseteq PC
  BY SMT DEF Backs, Afters, PC
-------------------------------------------------------------------------------
(***************************************************************************)
(* Local states stay local states.                                         *)
(***************************************************************************)
LEMMA IdleType == Idle \in ThreadState
  BY NoRowType, SMT DEF Idle, ThreadState, Note, Entry, PC, Arg, Checkpoint

LEMMA IdleLocal == \A t : Local(t, Idle)
  BY IdleType, SMT DEF Idle, Local, Resting, ApPCs, EmitPCs, InAudit

LEMMA ThreadType ==
  ASSUME NEW place \in PC, NEW r \in Runs \cup {NoRun}
  PROVE  /\ Thread(place, r) \in ThreadState
         /\ Thread(place, r).pc = place
         /\ Thread(place, r).run = r
<1>1. [Idle EXCEPT !.pc = place] \in ThreadState
  BY IdleType, Zenon DEF ThreadState
<1>2. [[Idle EXCEPT !.pc = place] EXCEPT !.run = r] \in ThreadState
  BY <1>1, Zenon DEF ThreadState
<1>3. Thread(place, r) = [[Idle EXCEPT !.pc = place] EXCEPT !.run = r]
  BY SMT DEF Thread
<1>4. QED
  BY <1>2, <1>3, IdleType, SMT DEF ThreadState

LEMMA CallEmitLocal ==
  ASSUME NEW t, NEW s \in ThreadState, s.run \in Runs, NEW k \in Kind, NEW b \in Backs(t)
  PROVE  Local(t, CallEmit(s, k, b))
<1>1. CallEmit(s, k, b) \in ThreadState
  BY BacksPC, Zenon DEF CallEmit, ThreadState, PC
<1>2. QED
  BY <1>1, SMT DEF CallEmit, Local, ThreadState, ApPCs, EmitPCs, InAudit

LEMMA CallAuditLocal ==
  ASSUME NEW t, NEW s \in ThreadState, s.run \in Runs, NEW a \in AuditAction,
         NEW n \in Decision \cup {"none"}, NEW b \in Afters(t),
         b = "emit_release" => s.back \in Backs(t)
  PROVE  Local(t, CallAudit(s, a, n, b))
<1>1. Note(a, n) \in Entry
  BY NoteType
<1>2. CallAudit(s, a, n, b) \in ThreadState
  BY <1>1, BacksPC, Zenon DEF CallAudit, ThreadState, PC
<1>3. QED
  BY <1>2, SMT DEF CallAudit, Local, ThreadState, ApPCs, EmitPCs, InAudit

LEMMA ReturnedLocal ==
  ASSUME NEW t, NEW s \in ThreadState, s.run \in Runs, s.back \in Backs(t)
  PROVE  Local(t, Returned(s))
<1>1. s.back \in PC /\ "idle" \in PC
  BY BacksPC, SMT DEF PC
<1>2. Returned(s) \in ThreadState
  BY <1>1, NoRowType, Zenon DEF Returned, ThreadState
<1>3. s.back \notin ApPCs \cup EmitPCs \cup InAudit
  BY SMT DEF Backs, ApPCs, EmitPCs, InAudit
<1>4. Returned(s).pc = s.back /\ Returned(s).run = s.run
  BY SMT DEF Returned, ThreadState
<1>5. QED
  BY <1>2, <1>3, <1>4, SMT DEF Local

LEMMA AuditedLocal ==
  ASSUME NEW t, NEW s \in ThreadState, s.run \in Runs, s.after \in Afters(t),
         s.after = "emit_release" => s.back \in Backs(t)
  PROVE  Local(t, Audited(s))
<1>1. CASE s.after = "idle"
  BY <1>1, IdleLocal DEF Audited
<1>2. CASE s.after # "idle"
  <2> DEFINE out == [s EXCEPT !.pc = s.after, !.after = "idle", !.seq = 0, !.entry = Note("none", "none")]
  <2>1. Audited(s) = out
    BY <1>2 DEF Audited
  <2>2. s.after \in PC /\ "idle" \in PC /\ Note("none", "none") \in Entry
    BY BacksPC, NoteType, SMT DEF PC
  <2>3. out \in ThreadState
    BY <2>2, Zenon DEF ThreadState
  <2>4. s.after \in {"emit_release", "x_exit", "x_complete", "x_error", "launch_spawn", "boot"}
    BY <1>2, SMT DEF Afters
  <2>5. out.pc = s.after /\ out.run = s.run /\ out.back = s.back
    BY SMT DEF ThreadState
  <2> HIDE DEF out
  <2>6. QED
    BY <2>1, <2>3, <2>4, <2>5, SMT DEF Local, ApPCs, EmitPCs, InAudit
<1>3. QED
  BY <1>1, <1>2

LEMMA UnwoundLocal ==
  ASSUME NEW t \in Threads, NEW s \in ThreadState, s.run \in Runs, s.after \in Afters(t),
         s.after = "emit_release" => s.back \in Backs(t)
  PROVE  \A u \in Unwound(s) : Local(t, u)
<1> DEFINE back == Returned(s)
           out  == [back EXCEPT !.after = "idle", !.entry = Note("none", "none")]
           fail == [out EXCEPT !.pc = "x_failed"]
<1>1. CASE s.after # "emit_release"
  <2>1. Unwound(s) = {Idle}
    BY <1>1, Zenon DEF Unwound
  <2>2. QED
    BY <2>1, IdleLocal
<1>2. CASE s.after = "emit_release"
  <2>1. back \in ThreadState /\ back.run \in Runs /\ back.pc = s.back
    <3>1. back \in ThreadState
      BY <1>2, ReturnedLocal DEF Local
    <3>2. QED
      BY <3>1, SMT DEF Returned, ThreadState
  <2> HIDE DEF back
  <2>2. "idle" \in PC /\ "x_failed" \in PC /\ Note("none", "none") \in Entry
    BY NoteType, SMT DEF PC
  <2>3. out \in ThreadState
    BY <2>1, <2>2, Zenon DEF ThreadState
  <2>4. out.pc = s.back /\ out.run \in Runs
    BY <2>1, SMT DEF ThreadState
  <2>5. fail \in ThreadState
    BY <2>2, <2>3, Zenon DEF ThreadState
  <2>6. fail.pc = "x_failed" /\ fail.run \in Runs
    BY <2>3, <2>4, SMT DEF ThreadState
  <2>7. Unwound(s) \subseteq {Idle, out, fail}
    BY <1>2, SMT DEF Unwound, back
  <2> HIDE DEF out, fail
  <2>8. Local(t, fail)
    BY <2>5, <2>6, SMT DEF Local, ApPCs, EmitPCs, InAudit
  <2>9. Local(t, out)
    BY <1>2, <2>3, <2>4, SMT DEF Local, ApPCs, EmitPCs, InAudit, Backs
  <2>10. QED
    BY <2>7, <2>8, <2>9, IdleLocal
<1>3. QED
  BY <1>1, <1>2

(***************************************************************************)
(* One thread moves, the others stay what they were.                       *)
(***************************************************************************)
LEMMA BecomeLocal ==
  ASSUME Typed, NEW t \in Threads, NEW s, Local(t, s), Become(t, s)
  PROVE  /\ thr' \in [Threads -> ThreadState]
         /\ \A u \in Threads : Local(u, thr'[u])
  BY SMT DEF Typed, TypeOK, Become, Local

LEMMA TypedBy ==
  ASSUME NEW t \in Threads, NEW s, Typed, Local(t, s), Become(t, s), StoreTyped'
  PROVE  Typed'
  BY BecomeLocal, Zenon DEF Typed, TypeOK, StoreTyped
-------------------------------------------------------------------------------
(***************************************************************************)
(* Type correctness, one lemma per group of actions.                       *)
(***************************************************************************)
LEMMA UpdateRunType ==
  ASSUME row \in [Runs -> Row], NEW r \in Runs, NEW stored \in Row, UpdateRun(r, stored)
  PROVE  row' \in [Runs -> Row]
  BY SMT DEF UpdateRun

LEMMA AppendType ==
  ASSUME NEW S, NEW f \in [Runs -> Seq(S)], NEW r \in Runs, NEW x \in S
  PROVE  [f EXCEPT ![r] = Append(@, x)] \in [Runs -> Seq(S)]
<1>1. Append(f[r], x) \in Seq(S)
  BY AppendProperties
<1>2. QED
  BY <1>1, Zenon

LEMMA EmitTyped ==
  ASSUME Typed, NEW t \in Threads, Emit(t)
  PROVE  Typed'
<1> DEFINE s == thr[t]
<1> USE DEF At
<1>1. s \in ThreadState /\ Local(t, s)
  BY DEF Typed, TypeOK
<1>2. CASE EmitRead(t)
  <2> DEFINE stored == row[s.run]
             moved  == [stored EXCEPT !.stage = StageOf(s.kind, stored.stage)]
             pc     == IF moved = stored THEN "emit_seq" ELSE "emit_stage"
             next   == [s EXCEPT !.copy = moved, !.pc = pc]
  <2>1. s.run \in Runs /\ s.back \in Backs(t) /\ s.kind \in Kind
    BY <1>1, <1>2, SMT DEF EmitRead, Local, Resting, EmitPCs
  <2>2. moved \in Row
    BY <2>1, StageType, Zenon DEF Typed, TypeOK
  <2>3. pc \in {"emit_seq", "emit_stage"}
    OBVIOUS
  <2> HIDE DEF stored, moved, pc
  <2>4. next \in ThreadState
    BY <1>1, <2>2, <2>3, Zenon DEF ThreadState, PC
  <2>5. /\ next.pc \in {"emit_seq", "emit_stage"} /\ next.run = s.run
        /\ next.back = s.back /\ next.kind = s.kind
    BY <1>1, <2>3, SMT DEF ThreadState
  <2> USE DEF stored, moved, pc
  <2>6. Become(t, next)
    BY <1>2, Zenon DEF EmitRead
  <2> HIDE DEF next
  <2>7. Local(t, next)
    BY <2>1, <2>4, <2>5, SMT DEF Local, Resting, ApPCs, EmitPCs, InAudit
  <2>8. StoreTyped'
    BY <1>2, SMT DEF EmitRead, tables, counts, Typed, TypeOK, StoreTyped
  <2>9. QED
    BY <2>6, <2>7, <2>8, TypedBy
<1>3. CASE EmitStage(t)
  <2> DEFINE next == [s EXCEPT !.pc = "emit_seq"]
  <2>1. next \in ThreadState
    BY <1>1, Zenon DEF ThreadState, PC
  <2>2. Local(t, next)
    BY <1>1, <1>3, <2>1, SMT DEF EmitStage, Local, ThreadState, Resting, ApPCs, EmitPCs, InAudit
  <2>3. row' \in [Runs -> Row]
    <3>1. s.run \in Runs /\ s.copy \in Row /\ UpdateRun(s.run, s.copy)
      BY <1>1, <1>3, SMT DEF EmitStage, Local, Resting, ThreadState
    <3>2. QED
      BY <3>1, UpdateRunType DEF Typed, TypeOK
  <2>4. StoreTyped'
    BY <1>3, <2>3, SMT DEF EmitStage, locks, counts, Typed, TypeOK, StoreTyped
  <2>5. Become(t, next)
    BY <1>3 DEF EmitStage
  <2>6. QED
    BY <2>2, <2>4, <2>5, TypedBy
<1>4. CASE EmitSeq(t)
  <2> DEFINE next == [s EXCEPT !.pc = "emit_append", !.seq = Len(events[s.run]) + 1]
  <2>1. s.run \in Runs
    BY <1>1, <1>4, SMT DEF EmitSeq, Local, Resting
  <2>2. Len(events[s.run]) + 1 \in Nat
    BY <2>1, LenProperties, SMT DEF Typed, TypeOK
  <2>3. next \in ThreadState
    BY <1>1, <2>2, Zenon DEF ThreadState, PC
  <2>4. next.pc = "emit_append" /\ next.run = s.run /\ next.back = s.back /\ next.kind = s.kind
    BY <1>1, SMT DEF ThreadState
  <2>5. Become(t, next)
    BY <1>4, Zenon DEF EmitSeq
  <2> HIDE DEF next
  <2>6. Local(t, next)
    BY <1>1, <1>4, <2>3, <2>4, SMT DEF EmitSeq, Local, Resting, ApPCs, EmitPCs, InAudit
  <2>7. StoreTyped'
    BY <1>4, SMT DEF EmitSeq, tables, locks, counts, Typed, TypeOK, StoreTyped
  <2>8. QED
    BY <2>5, <2>6, <2>7, TypedBy
<1>5. CASE EmitAppend(t)
  <2> DEFINE called == CallAudit(s, ActionOf(s.kind), "none", "emit_release")
             next   == [s EXCEPT !.pc = "emit_release"]
  <2>1. s.run \in Runs /\ s.back \in Backs(t) /\ s.kind \in Kind
    BY <1>1, <1>5, SMT DEF EmitAppend, Local, Resting, EmitPCs
  <2>2. "emit_release" \in Afters(t)
    BY <2>1, SMT DEF Backs, Afters
  <2>3. Local(t, called)
    BY <1>1, <2>1, <2>2, ActionType, CallAuditLocal
  <2>4. next \in ThreadState
    BY <1>1, Zenon DEF ThreadState, PC
  <2>5. next.pc = "emit_release" /\ next.run = s.run /\ next.back = s.back
    BY <1>1, SMT DEF ThreadState
  <2> HIDE DEF called
  <2>6. PICK u \in {called, next} : Become(t, u)
    BY <1>5, Zenon DEF EmitAppend, called
  <2> HIDE DEF next
  <2>7. Local(t, next)
    BY <2>1, <2>4, <2>5, SMT DEF Local, Resting, ApPCs, EmitPCs, InAudit
  <2>8. events' \in [Runs -> Seq(Kind)]
    <3>1. events \in [Runs -> Seq(Kind)]
      BY DEF Typed, TypeOK
    <3>2. events' = [events EXCEPT ![s.run] = Append(@, s.kind)]
      BY <1>5 DEF EmitAppend
    <3>3. QED
      BY <2>1, <3>1, <3>2, AppendType
  <2>9. StoreTyped'
    BY <1>5, <2>8, SMT DEF EmitAppend, locks, counts, Typed, TypeOK, StoreTyped
  <2>10. QED
    BY <2>3, <2>6, <2>7, <2>9, TypedBy
<1>6. CASE EmitRelease(t)
  <2>1. Local(t, Returned(s))
    BY <1>1, <1>6, ReturnedLocal, SMT DEF EmitRelease, Local, Resting, EmitPCs
  <2>2. StoreTyped'
    BY <1>6, SMT DEF EmitRelease, tables, counts, Typed, TypeOK, StoreTyped
  <2>3. Become(t, Returned(s))
    BY <1>6 DEF EmitRelease
  <2>4. QED
    BY <2>1, <2>2, <2>3, TypedBy
<1>7. QED
  BY <1>2, <1>3, <1>4, <1>5, <1>6 DEF Emit

LEMMA AuditTyped ==
  ASSUME Typed, NEW t \in Threads, Audit(t)
  PROVE  Typed'
<1> DEFINE s == thr[t]
<1> USE DEF At
<1>1. s \in ThreadState /\ Local(t, s)
  BY DEF Typed, TypeOK
<1>2. /\ s.run \in Runs /\ s.pc \in InAudit /\ s.after \in Afters(t)
      /\ s.after = "emit_release" => s.back \in Backs(t)
  BY <1>1, SMT DEF Audit, AuditSeq, AuditAppend, AuditCollide, Local, Resting, InAudit
<1>3. CASE AuditSeq(t)
  <2> DEFINE next == [s EXCEPT !.pc = "audit_append", !.seq = Len(audits[s.run]) + 1]
  <2>1. Len(audits[s.run]) + 1 \in Nat
    BY <1>2, LenProperties, SMT DEF Typed, TypeOK
  <2>2. next \in ThreadState
    BY <1>1, <2>1, Zenon DEF ThreadState, PC
  <2>3. next.pc = "audit_append" /\ next.run = s.run /\ next.back = s.back /\ next.after = s.after
    BY <1>1, SMT DEF ThreadState
  <2>4. Become(t, next)
    BY <1>3, Zenon DEF AuditSeq
  <2> HIDE DEF next
  <2>5. Local(t, next)
    BY <1>2, <2>2, <2>3, SMT DEF Local, Resting, ApPCs, EmitPCs, InAudit
  <2>6. StoreTyped'
    BY <1>3, SMT DEF AuditSeq, tables, locks, counts, Typed, TypeOK, StoreTyped
  <2>7. QED
    BY <2>4, <2>5, <2>6, TypedBy
<1>4. CASE AuditAppend(t)
  <2>1. Local(t, Audited(s))
    BY <1>1, <1>2, AuditedLocal
  <2>2. audits' \in [Runs -> Seq(Entry)]
    <3>1. s.entry \in Entry
      BY <1>1, Zenon DEF ThreadState
    <3>2. audits \in [Runs -> Seq(Entry)]
      BY DEF Typed, TypeOK
    <3>3. audits' = [audits EXCEPT ![s.run] = Append(@, s.entry)]
      BY <1>4 DEF AuditAppend
    <3>4. QED
      BY <1>2, <3>1, <3>2, <3>3, AppendType
  <2>3. StoreTyped'
    BY <1>4, <2>2, SMT DEF AuditAppend, locks, counts, Typed, TypeOK, StoreTyped
  <2>4. Become(t, Audited(s))
    BY <1>4 DEF AuditAppend
  <2>5. QED
    BY <2>1, <2>3, <2>4, TypedBy
<1>5. CASE AuditCollide(t)
  <2>1. PICK u \in Unwound(s) : Become(t, u) /\ execLock' \in {Free, execLock}
    BY <1>5, Zenon DEF AuditCollide
  <2>2. Local(t, u)
    BY <1>1, <1>2, <2>1, UnwoundLocal
  <2>3. StoreTyped'
    BY <1>5, <2>1, SMT DEF AuditCollide, tables, counts, Typed, TypeOK, StoreTyped
  <2>4. QED
    BY <2>1, <2>2, <2>3, TypedBy
<1>6. QED
  BY <1>3, <1>4, <1>5 DEF Audit

\* A thread of run r that is neither in a helper nor in an approval.
LEMMA PlainLocal ==
  ASSUME NEW t, NEW s \in ThreadState, s.run \in Runs, s.pc \notin ApPCs \cup EmitPCs \cup InAudit
  PROVE  Local(t, s)
  BY SMT DEF Local

LEMMA LaunchTyped ==
  ASSUME Typed, NEW w \in Workers, LaunchCreate(w) \/ Launch(w)
  PROVE  Typed'
<1> DEFINE s == thr[w]
<1> USE DEF At
<1>1. w \in Threads /\ w \notin Runs /\ Runs \subseteq Threads
  BY ThreadsAssumption DEF Threads
<1>2. s \in ThreadState /\ Local(w, s)
  BY <1>1 DEF Typed, TypeOK
<1>3. {"launch_spawn", "idle"} \subseteq Afters(w)
  BY <1>1 DEF Afters
<1>4. CASE LaunchCreate(w)
  <2>1. PICK r \in Runs, origin \in {"manual", "intake", "replay"} :
           /\ Become(w, IF r \in Alerts
                        THEN [Thread("launch_payload", r) EXCEPT !.arg = origin]
                        ELSE CallAudit([Thread("idle", r) EXCEPT !.arg = origin],
                                       "run_created", "none", "launch_spawn"))
           /\ UpdateRun(r, [status |-> "queued", stage |-> "queued"])
    BY <1>4, SMT DEF LaunchCreate, Origins
  <2> DEFINE alert == [Thread("launch_payload", r) EXCEPT !.arg = origin]
             ref   == [Thread("idle", r) EXCEPT !.arg = origin]
  <2>2. "launch_payload" \in PC /\ "idle" \in PC /\ origin \in Arg /\ "run_created" \in AuditAction
    BY SMT DEF PC, Arg, AuditAction
  <2>3. alert \in ThreadState /\ ref \in ThreadState
    <3>1. Thread("launch_payload", r) \in ThreadState /\ Thread("idle", r) \in ThreadState
      BY <2>2, ThreadType
    <3>2. QED
      BY <2>2, <3>1, Zenon DEF ThreadState
  <2>4. alert.pc = "launch_payload" /\ alert.run = r /\ ref.run = r
    BY <2>2, ThreadType, SMT DEF ThreadState
  <2> HIDE DEF alert, ref
  <2>5. Local(w, alert)
    BY <2>3, <2>4, PlainLocal, SMT DEF ApPCs, EmitPCs, InAudit
  <2>6. Local(w, CallAudit(ref, "run_created", "none", "launch_spawn"))
    BY <1>3, <2>2, <2>3, <2>4, CallAuditLocal
  <2>7. PICK u : Become(w, u) /\ Local(w, u)
    BY <2>1, <2>5, <2>6, Zenon DEF alert, ref
  <2>8. row' \in [Runs -> Row]
    <3>1. [status |-> "queued", stage |-> "queued"] \in Row
      BY SMT DEF Row, Status, Stage
    <3>2. QED
      BY <2>1, <3>1, UpdateRunType DEF Typed, TypeOK
  <2>9. StoreTyped'
    BY <1>4, <2>8, SMT DEF LaunchCreate, locks, counts, Typed, TypeOK, StoreTyped
  <2>10. QED
    BY <1>1, <2>7, <2>9, TypedBy
<1>5. CASE LaunchPayload(w)
  <2>1. s.run \in Runs
    BY <1>2, <1>5, SMT DEF LaunchPayload, Local, Resting
  <2>2. Local(w, CallAudit(s, "run_created", "none", "launch_spawn"))
    <3>1. "run_created" \in AuditAction
      BY DEF AuditAction
    <3>2. QED
      BY <1>2, <1>3, <2>1, <3>1, CallAuditLocal
  <2>3. artifacts' \in [Runs -> SUBSET Artifact]
    BY <1>5, <2>1, SMT DEF LaunchPayload, Typed, TypeOK, Artifact
  <2>4. StoreTyped'
    BY <1>5, <2>3, SMT DEF LaunchPayload, locks, counts, Typed, TypeOK, StoreTyped
  <2>5. Become(w, CallAudit(s, "run_created", "none", "launch_spawn"))
    BY <1>5 DEF LaunchPayload
  <2>6. QED
    BY <1>1, <2>2, <2>4, <2>5, TypedBy
<1>6. CASE LaunchSpawn(w)
  <2> DEFINE r == s.run
             rest == CASE s.arg = "intake" -> CallAudit(s, "intake_alert_accepted", "none", "idle")
                       [] s.arg = "replay" -> CallAudit(s, "run_replayed", "none", "idle")
                       [] OTHER -> Idle
  <2>1. r \in Runs
    BY <1>2, <1>6, SMT DEF LaunchSpawn, Local, Resting
  <2>2. Local(w, CallAudit(s, "intake_alert_accepted", "none", "idle"))
    BY <1>2, <1>3, <2>1, CallAuditLocal, SMT DEF AuditAction
  <2>3. Local(w, CallAudit(s, "run_replayed", "none", "idle"))
    BY <1>2, <1>3, <2>1, CallAuditLocal, SMT DEF AuditAction
  <2>4. Local(w, rest)
    BY <2>2, <2>3, IdleLocal
  <2>5. Local(r, Thread("x_wait", r))
    <3>1. "x_wait" \in PC
      BY SMT DEF PC
    <3>2. QED
      BY <2>1, <3>1, ThreadType, PlainLocal, SMT DEF ApPCs, EmitPCs, InAudit
  <2>6. thr' = [thr EXCEPT ![w] = rest, ![r] = Thread("x_wait", r)]
    BY <1>6, Zenon DEF LaunchSpawn
  <2> HIDE DEF rest
  <2>7. thr \in [Threads -> ThreadState] /\ rest \in ThreadState /\ Thread("x_wait", r) \in ThreadState
    BY <2>4, <2>5 DEF Typed, TypeOK, Local
  <2>8. /\ thr' \in [Threads -> ThreadState]
        /\ \A u \in Threads : thr'[u] = IF u = r THEN Thread("x_wait", r) ELSE IF u = w THEN rest ELSE thr[u]
    BY <1>1, <2>1, <2>6, <2>7, SMT
  <2>9. StoreTyped'
    BY <1>6, Zenon DEF LaunchSpawn, tables, locks, counts, Typed, TypeOK, StoreTyped
  <2>10. QED
    BY <2>4, <2>5, <2>8, <2>9, Zenon DEF Typed, TypeOK, StoreTyped
<1>7. QED
  BY <1>4, <1>5, <1>6 DEF Launch

LEMMA RowMoveType ==
  ASSUME NEW stored \in Row, NEW status \in Status, NEW stage \in Stage
  PROVE  /\ [stored EXCEPT !.status = status] \in Row
         /\ [stored EXCEPT !.status = status, !.stage = stage] \in Row
<1>1. [stored EXCEPT !.status = status] \in Row
  BY Zenon DEF Row
<1>2. QED
  BY <1>1, Zenon DEF Row

LEMMA OutcomeType ==
  \A r : Outcomes(r) \cup {<<"alert_payload", "response_plan", "investigation_report">>} \subseteq Seq(Artifact)
  BY SMT DEF Outcomes, SourceArtifact, Artifact

\* The executor: what its local state becomes.
LEMMA ExecuteTyped ==
  ASSUME Typed, NEW r \in Runs, Execute(r)
  PROVE  Typed'
<1> DEFINE s == thr[r]
           Plain(u) == u \in ThreadState /\ u.run \in Runs /\ u.pc \notin ApPCs \cup EmitPCs \cup InAudit
<1> USE DEF At
<1>1. r \in Threads /\ s \in ThreadState /\ Local(r, s) /\ row[r] \in Row
  BY DEF Typed, TypeOK, Threads
<1>2. s.run \in Runs /\ s.pc \notin ApPCs \cup EmitPCs \cup InAudit
  <2>1. s.pc \in {"x_wait", "x_run", "x_body", "x_deny", "x_store", "x_close", "x_publish",
                  "x_complete", "x_exit", "x_failed", "x_failwrite", "x_error"}
    BY Zenon DEF Execute, XAcquire, XRun, XGraphStart, XEmit, XFinish, XInterrupt, XDeny, XRaise,
       XStore, XClose, XPublish, XComplete, XFailRead, XFailWrite, XError, XExit
  <2>2. QED
    BY <1>1, <2>1, SMT DEF Local, Resting, ApPCs, EmitPCs, InAudit
<1>3. /\ {"x_body", "x_deny", "x_store", "x_exit"} \subseteq Backs(r)
      /\ {"x_exit", "x_complete", "x_error"} \subseteq Afters(r)
  BY DEF Backs, Afters
<1>4. ASSUME NEW u, Become(r, u), Plain(u), StoreTyped'
      PROVE  Typed'
  BY <1>1, <1>4, PlainLocal, TypedBy
<1>5. ASSUME NEW u \in ThreadState, u.run \in Runs, NEW k \in Kind, NEW b \in {"x_body", "x_deny", "x_store", "x_exit"},
             Become(r, CallEmit(u, k, b)), StoreTyped'
      PROVE  Typed'
  BY <1>1, <1>3, <1>5, CallEmitLocal, TypedBy
<1>6. ASSUME NEW a \in AuditAction, NEW b \in {"x_exit", "x_complete", "x_error"},
             Become(r, CallAudit(s, a, "none", b)), StoreTyped'
      PROVE  Typed'
  <2>1. Local(r, CallAudit(s, a, "none", b))
    BY <1>1, <1>2, <1>3, <1>6, CallAuditLocal
  <2>2. QED
    BY <1>1, <1>6, <2>1, TypedBy
<1>7. ASSUME NEW p \in PC \ (ApPCs \cup EmitPCs \cup InAudit)
      PROVE  Plain([s EXCEPT !.pc = p])
  <2>1. [s EXCEPT !.pc = p] \in ThreadState
    BY <1>1, Zenon DEF ThreadState
  <2>2. QED
    BY <1>1, <1>2, <2>1, SMT DEF ThreadState
<1>8. ASSUME NEW u \in ThreadState, u.run \in Runs, NEW p \in PC \ (ApPCs \cup EmitPCs \cup InAudit), NEW stored \in Row
      PROVE  Plain([u EXCEPT !.pc = p, !.copy = stored])
  <2>1. [u EXCEPT !.pc = p, !.copy = stored] \in ThreadState
    BY <1>8, Zenon DEF ThreadState
  <2>2. QED
    BY <1>8, <2>1, SMT DEF ThreadState
<1>9. {"x_run", "x_body", "x_deny", "x_store", "x_close", "x_publish", "x_complete", "x_exit", "x_failed",
       "x_failwrite", "x_error"} \subseteq PC \ (ApPCs \cup EmitPCs \cup InAudit)
  BY SMT DEF PC, ApPCs, EmitPCs, InAudit
<1>10. {"running", "awaiting_approval", "completed", "failed"} \subseteq Status
       /\ {"initializing", "approval", "published"} \subseteq Stage
  BY SMT DEF Status, Stage
<1>11. {"run", "approval", "complete", "error"} \subseteq Kind /\ BodyKinds \subseteq Kind
  BY BoundsAssumption, SMT DEF Kind
<1> HIDE DEF Plain
<1>12. CASE XAcquire(r)
  <2> DEFINE stored == [row[r] EXCEPT !.status = "running", !.stage = "initializing"]
  <2>1. Plain([s EXCEPT !.pc = "x_run", !.copy = stored])
    BY <1>1, <1>2, <1>8, <1>9, <1>10, RowMoveType
  <2>2. StoreTyped'
    BY <1>12, SMT DEF XAcquire, tables, counts, Typed, TypeOK, StoreTyped
  <2>3. QED
    BY <1>4, <1>12, <2>1, <2>2 DEF XAcquire
<1>13. CASE XRun(r)
  <2> DEFINE u == [s EXCEPT !.left = MaxEmits]
  <2>1. u \in ThreadState
    BY <1>1, BoundsAssumption, Zenon DEF ThreadState
  <2>2. u.run \in Runs
    BY <1>1, <1>2, SMT DEF ThreadState
  <2>3. row' \in [Runs -> Row]
    BY <1>1, <1>13, UpdateRunType, SMT DEF XRun, ThreadState, Typed, TypeOK
  <2>4. StoreTyped'
    BY <1>13, <2>3, Zenon DEF XRun, locks, counts, Typed, TypeOK, StoreTyped
  <2>5. Become(r, CallEmit(u, "run", "x_body"))
    BY <1>13 DEF XRun
  <2> HIDE DEF u
  <2>6. QED
    BY <1>5, <1>11, <2>1, <2>2, <2>4, <2>5
<1>14. CASE XGraphStart(r)
  <2> DEFINE u == [s EXCEPT !.arg = "started"]
  <2>1. "started" \in Arg
    BY DEF Arg
  <2>2. u \in ThreadState
    BY <1>1, <2>1, Zenon DEF ThreadState
  <2>3. Plain(u)
    BY <1>1, <1>2, <2>2, SMT DEF Plain, ThreadState
  <2>4. StoreTyped'
    BY <1>14, SMT DEF XGraphStart, locks, counts, Typed, TypeOK, StoreTyped, Checkpoint
  <2>5. Become(r, u)
    BY <1>14 DEF XGraphStart
  <2>6. QED
    BY <1>4, <2>3, <2>4, <2>5
<1>15. CASE XEmit(r)
  <2>1. PICK k \in BodyKinds : s.left > 0 /\ Become(r, CallEmit([s EXCEPT !.left = @ - 1], k, "x_body"))
    BY <1>15 DEF XEmit
  <2> DEFINE u == [s EXCEPT !.left = s.left - 1]
  <2>2. s.left - 1 \in Nat
    BY <1>1, <2>1, SMT DEF ThreadState
  <2>3. u \in ThreadState
    BY <1>1, <2>2, Zenon DEF ThreadState
  <2>4. u.run \in Runs
    BY <1>1, <1>2, SMT DEF ThreadState
  <2>5. StoreTyped'
    BY <1>15, Zenon DEF XEmit, tables, locks, counts, Typed, TypeOK, StoreTyped
  <2>6. Become(r, CallEmit(u, k, "x_body"))
    BY <2>1
  <2> HIDE DEF u
  <2>7. QED
    BY <1>5, <1>11, <2>3, <2>4, <2>5, <2>6
<1>16. ASSUME NEW out \in Seq(Artifact), Become(r, Concluded(r, out)), StoreTyped'
       PROVE  Typed'
  <2> DEFINE u == [s EXCEPT !.pc = "x_store", !.arg = "done", !.todo = out]
  <2>1. "x_store" \in PC /\ "done" \in Arg /\ "result" \in Kind
    BY SMT DEF PC, Arg, Kind
  <2>2. u \in ThreadState
    BY <1>1, <2>1, <1>16, Zenon DEF ThreadState
  <2>3. u.pc = "x_store" /\ u.run = s.run
    BY <1>1, SMT DEF ThreadState
  <2>4. Become(r, u) \/ Become(r, CallEmit(u, "result", "x_store"))
    BY <1>16 DEF Concluded
  <2> HIDE DEF u
  <2>5. Plain(u)
    BY <1>2, <2>2, <2>3, SMT DEF Plain, ApPCs, EmitPCs, InAudit
  <2>6. QED
    BY <1>2, <1>4, <1>5, <1>16, <2>1, <2>2, <2>3, <2>4, <2>5
<1>17. CASE XFinish(r)
  <2>1. StoreTyped'
    BY <1>17, SMT DEF XFinish, locks, counts, Typed, TypeOK, StoreTyped, Checkpoint
  <2>2. PICK out \in Outcomes(r) : Become(r, Concluded(r, out))
    BY <1>17 DEF XFinish
  <2>3. QED
    BY <1>16, <2>1, <2>2, OutcomeType
<1>18. CASE XDeny(r)
  <2>1. StoreTyped'
    BY <1>18, SMT DEF XDeny, locks, counts, Typed, TypeOK, StoreTyped, Checkpoint, Decision
  <2>2. PICK out \in Outcomes(r) : Become(r, Concluded(r, out))
    BY <1>18, Zenon DEF XDeny, Outcomes
  <2>3. QED
    BY <1>16, <2>1, <2>2, OutcomeType
<1>19. CASE XInterrupt(r)
  <2> DEFINE parked == <<"alert_payload", "response_plan", "investigation_report">>
             u == [s EXCEPT !.arg = "pending", !.todo = parked]
  <2>1. StoreTyped'
    BY <1>19, SMT DEF XInterrupt, locks, counts, Typed, TypeOK, StoreTyped, Checkpoint
  <2>2. parked \in Seq(Artifact) /\ "pending" \in Arg
    BY OutcomeType DEF Arg
  <2> HIDE DEF parked
  <2>3. u \in ThreadState
    BY <1>1, <2>2, Zenon DEF ThreadState
  <2>4. u.run = s.run
    BY <1>1, SMT DEF ThreadState
  <2>5. Become(r, CallEmit(u, "approval", "x_store")) \/ Become(r, CallEmit(s, "approval", "x_deny"))
    BY <1>19, Zenon DEF XInterrupt, parked
  <2> HIDE DEF u
  <2>6. QED
    BY <1>1, <1>2, <1>5, <1>11, <2>1, <2>3, <2>4, <2>5
<1>20. CASE XRaise(r)
  <2>1. StoreTyped'
    BY <1>20, Zenon DEF XRaise, tables, locks, counts, Typed, TypeOK, StoreTyped
  <2>2. QED
    BY <1>4, <1>7, <1>9, <1>20, <2>1 DEF XRaise
<1>21. CASE XStore(r)
  <2>1. CASE s.todo = <<>>
    <3>1. StoreTyped'
      BY <1>21, <2>1, Zenon DEF XStore, locks, counts, Typed, TypeOK, StoreTyped
    <3>2. QED
      BY <1>4, <1>7, <1>9, <1>21, <2>1, <3>1 DEF XStore
  <2>2. CASE s.todo # <<>>
    <3> DEFINE u == [s EXCEPT !.todo = Tail(s.todo)]
    <3>1. s.todo \in Seq(Artifact)
      BY <1>1, Zenon DEF ThreadState
    <3>2. Head(s.todo) \in Artifact /\ Tail(s.todo) \in Seq(Artifact)
      BY <2>2, <3>1, HeadTailProperties
    <3>3. u \in ThreadState
      BY <1>1, <3>2, Zenon DEF ThreadState
    <3>4. u.pc = s.pc /\ u.run = s.run
      BY <1>1, SMT DEF ThreadState
    <3>5. artifacts' = [artifacts EXCEPT ![r] = @ \cup {Head(s.todo)}] /\ Become(r, u)
      BY <1>21, <2>2 DEF XStore
    <3>6. artifacts' \in [Runs -> SUBSET Artifact]
      BY <3>2, <3>5, SMT DEF Typed, TypeOK
    <3>7. StoreTyped'
      BY <1>21, <3>6, Zenon DEF XStore, locks, counts, Typed, TypeOK, StoreTyped
    <3> HIDE DEF u
    <3>8. QED
      BY <1>2, <1>4, <3>3, <3>4, <3>5, <3>7 DEF Plain
  <2>3. QED
    BY <2>1, <2>2
<1>22. CASE XClose(r)
  <2> DEFINE parked == [row[r] EXCEPT !.status = "awaiting_approval", !.stage = "approval"]
             closed == [row[r] EXCEPT !.status = "completed", !.stage = "published"]
  <2>1. parked \in Row /\ closed \in Row
    BY <1>1, <1>10, RowMoveType
  <2>2. StoreTyped'
    BY <1>22, Zenon DEF XClose, tables, locks, counts, Typed, TypeOK, StoreTyped
  <2>3. \E stored \in {parked, closed} : Become(r, [s EXCEPT !.pc = "x_publish", !.copy = stored])
    BY <1>22, Zenon DEF XClose
  <2> HIDE DEF parked, closed
  <2>4. QED
    BY <1>1, <1>2, <1>4, <1>8, <1>9, <2>1, <2>2, <2>3
<1>23. CASE XPublish(r) \/ XFailWrite(r)
  <2>1. row' \in [Runs -> Row]
    BY <1>1, <1>23, UpdateRunType, SMT DEF XPublish, XFailWrite, ThreadState, Typed, TypeOK
  <2>2. StoreTyped'
    BY <1>23, <2>1, Zenon DEF XPublish, XFailWrite, locks, counts, Typed, TypeOK, StoreTyped
  <2>3. \E a \in {"approval_requested", "run_completed", "run_failed"}, b \in {"x_exit", "x_complete", "x_error"} :
           Become(r, CallAudit(s, a, "none", b))
    BY <1>23, Zenon DEF XPublish, XFailWrite
  <2>4. QED
    BY <1>6, <2>2, <2>3, SMT DEF AuditAction
<1>24. CASE XComplete(r) \/ XError(r)
  <2>1. StoreTyped'
    BY <1>24, Zenon DEF XComplete, XError, tables, locks, counts, Typed, TypeOK, StoreTyped
  <2>2. Become(r, CallEmit(s, "complete", "x_exit")) \/ Become(r, CallEmit(s, "error", "x_exit"))
    BY <1>24 DEF XComplete, XError
  <2>3. QED
    BY <1>1, <1>2, <1>5, <1>11, <2>1, <2>2
<1>25. CASE XFailRead(r)
  <2> DEFINE failed == [row[r] EXCEPT !.status = "failed"]
  <2>1. failed \in Row
    <3>1. "initializing" \in Stage /\ "failed" \in Status
      BY <1>10
    <3>2. QED
      BY <1>1, <3>1, RowMoveType
  <2>2. StoreTyped'
    BY <1>25, Zenon DEF XFailRead, tables, locks, counts, Typed, TypeOK, StoreTyped
  <2>3. Become(r, [s EXCEPT !.pc = "x_failwrite", !.copy = failed])
    BY <1>25 DEF XFailRead
  <2> HIDE DEF failed
  <2>4. QED
    BY <1>1, <1>2, <1>4, <1>8, <1>9, <2>1, <2>2, <2>3
<1>26. CASE XExit(r)
  <2>1. StoreTyped'
    BY <1>26, SMT DEF XExit, tables, counts, Typed, TypeOK, StoreTyped
  <2>2. Become(r, Idle)
    BY <1>26 DEF XExit
  <2>3. QED
    BY <1>1, <2>1, <2>2, IdleLocal, TypedBy
<1>27. QED
  BY <1>12, <1>13, <1>14, <1>15, <1>17, <1>18, <1>19, <1>20, <1>21, <1>22, <1>23, <1>24, <1>25, <1>26 DEF Execute

LEMMA ApproveTyped ==
  ASSUME Typed, NEW w \in Workers, ApCheck(w) \/ Approve(w)
  PROVE  Typed'
<1> DEFINE s == thr[w]
<1> USE DEF At
<1>1. w \in Threads /\ w \notin Runs /\ s \in ThreadState /\ Local(w, s)
  BY ThreadsAssumption DEF Typed, TypeOK, Threads
<1>2. ASSUME NEW u \in ThreadState, Become(w, u), StoreTyped', u.pc \in ApPCs, u.run \in Runs, u.arg \in Decision
      PROVE  Typed'
  <2>1. Local(w, u)
    BY <1>2, SMT DEF Local, ApPCs, EmitPCs, InAudit
  <2>2. QED
    BY <1>1, <1>2, <2>1, TypedBy
<1>3. ApPCs \subseteq PC /\ Decision \subseteq Arg /\ "none" \in Checkpoint
  BY SMT DEF ApPCs, PC, Decision, Arg, Checkpoint
<1>4. CASE ApCheck(w)
  <2>1. PICK r \in Runs, d \in Decision : Become(w, [Thread("ap_load", r) EXCEPT !.arg = d])
    BY <1>4 DEF ApCheck
  <2> DEFINE u == [Thread("ap_load", r) EXCEPT !.arg = d]
  <2>2. /\ Thread("ap_load", r) \in ThreadState
        /\ Thread("ap_load", r).pc = "ap_load" /\ Thread("ap_load", r).run = r
    BY <1>3, ThreadType DEF ApPCs
  <2>3. u \in ThreadState
    BY <1>3, <2>2, Zenon DEF ThreadState
  <2>4. u.pc \in ApPCs /\ u.run = r /\ u.arg = d
    BY <2>2, SMT DEF ThreadState, ApPCs
  <2>5. StoreTyped'
    BY <1>4, Zenon DEF ApCheck, tables, locks, counts, Typed, TypeOK, StoreTyped
  <2> HIDE DEF u
  <2>6. Become(w, u)
    BY <2>1 DEF u
  <2>7. QED
    BY <1>2, <2>3, <2>4, <2>5, <2>6
<1>5. CASE ApLoad(w)
  <2> DEFINE u == [s EXCEPT !.pc = "ap_resume", !.seen = head[s.run]]
  <2>1. s.run \in Runs /\ s.arg \in Decision
    BY <1>1, <1>5, SMT DEF ApLoad, Local, Resting, ApPCs
  <2>2. head[s.run] \in Checkpoint
    BY <2>1 DEF Typed, TypeOK
  <2>3. u \in ThreadState
    BY <1>1, <1>3, <2>2, Zenon DEF ThreadState, ApPCs
  <2>4. u.pc \in ApPCs /\ u.run = s.run /\ u.arg = s.arg
    BY <1>1, SMT DEF ThreadState, ApPCs
  <2>5. StoreTyped'
    BY <1>5, Zenon DEF ApLoad, tables, locks, counts, Typed, TypeOK, StoreTyped
  <2>6. Become(w, u)
    BY <1>5 DEF ApLoad
  <2> HIDE DEF u
  <2>7. QED
    BY <1>2, <2>1, <2>3, <2>4, <2>5, <2>6
<1>6. CASE ApResume(w)
  <2> DEFINE u == [s EXCEPT !.pc = "ap_read", !.seen = "none"]
  <2>1. s.run \in Runs /\ s.arg \in Decision
    BY <1>1, <1>6, SMT DEF ApResume, Local, Resting, ApPCs
  <2>2. u \in ThreadState
    BY <1>1, <1>3, Zenon DEF ThreadState, ApPCs
  <2>3. u.pc \in ApPCs /\ u.run = s.run /\ u.arg = s.arg
    BY <1>1, SMT DEF ThreadState, ApPCs
  <2>4. head' \in [Runs -> Checkpoint]
    BY <1>6, <2>1, SMT DEF ApResume, Checkpoint, Typed, TypeOK
  <2>5. StoreTyped'
    BY <1>6, <2>4, Zenon DEF ApResume, locks, counts, Typed, TypeOK, StoreTyped
  <2>6. Become(w, u)
    BY <1>6 DEF ApResume
  <2> HIDE DEF u
  <2>7. QED
    BY <1>2, <2>1, <2>2, <2>3, <2>5, <2>6
<1>7. CASE ApRejectEdit(w)
  <2>1. StoreTyped'
    BY <1>7, Zenon DEF ApRejectEdit, tables, locks, counts, Typed, TypeOK, StoreTyped
  <2>2. QED
    BY <1>1, <1>7, <2>1, IdleLocal, TypedBy DEF ApRejectEdit
<1>8. CASE ApRead(w)
  <2>1. s.run \in Runs /\ s.arg \in Decision
    BY <1>1, <1>8, SMT DEF ApRead, Local, Resting, ApPCs
  <2> DEFINE stored == [row[s.run] EXCEPT !.status = "completed", !.stage = "advised"]
             u == [s EXCEPT !.pc = "ap_write", !.copy = stored]
  <2>2. stored \in Row
    <3>1. "completed" \in Status /\ "advised" \in Stage /\ row[s.run] \in Row
      BY <2>1, SMT DEF Status, Stage, Typed, TypeOK
    <3>2. QED
      BY <3>1, RowMoveType
  <2>3. StoreTyped'
    BY <1>8, Zenon DEF ApRead, tables, locks, counts, Typed, TypeOK, StoreTyped
  <2>4. Become(w, Idle) \/ Become(w, u)
    BY <1>8, Zenon DEF ApRead
  <2> HIDE DEF stored
  <2>5. u \in ThreadState
    BY <1>1, <1>3, <2>2, Zenon DEF ThreadState, ApPCs
  <2>6. u.pc \in ApPCs /\ u.run = s.run /\ u.arg = s.arg
    BY <1>1, SMT DEF ThreadState, ApPCs
  <2> HIDE DEF u
  <2>7. QED
    BY <1>1, <1>2, <2>1, <2>3, <2>4, <2>5, <2>6, IdleLocal, TypedBy
<1>9. CASE ApWrite(w)
  <2>1. s.run \in Runs /\ s.arg \in Decision
    BY <1>1, <1>9, SMT DEF ApWrite, Local, Resting, ApPCs
  <2>2. s.copy \in Row
    BY <1>1, Zenon DEF ThreadState
  <2>3. row' \in [Runs -> Row]
    BY <1>9, <2>1, <2>2, UpdateRunType DEF ApWrite, Typed, TypeOK
  <2>4. StoreTyped'
    BY <1>9, <2>3, Zenon DEF ApWrite, locks, counts, Typed, TypeOK, StoreTyped
  <2>5. "approval_decided" \in AuditAction /\ "idle" \in Afters(w) /\ s.arg \in Decision \cup {"none"}
    BY <1>1, <2>1, SMT DEF AuditAction, Afters
  <2>6. Local(w, CallAudit(s, "approval_decided", s.arg, "idle"))
    BY <1>1, <2>1, <2>5, CallAuditLocal
  <2>7. QED
    BY <1>1, <1>9, <2>4, <2>6, TypedBy DEF ApWrite
<1>10. QED
  BY <1>4, <1>5, <1>6, <1>7, <1>8, <1>9 DEF Approve

LEMMA DebugTyped ==
  ASSUME Typed, NEW w \in Workers, DbStart(w) \/ Debug(w)
  PROVE  Typed'
<1> DEFINE s == thr[w]
<1> USE DEF At
<1>1. w \in Threads /\ w \notin Runs /\ s \in ThreadState /\ Local(w, s)
  BY ThreadsAssumption DEF Typed, TypeOK, Threads
<1>2. "db_body" \in Backs(w) /\ "idle" \in Afters(w) /\ BodyKinds \cup {"graph"} \subseteq Kind
  BY <1>1, BoundsAssumption, SMT DEF Backs, Afters, Kind
<1>3. ASSUME NEW u \in ThreadState, u.run \in Runs, NEW k \in Kind, Become(w, CallEmit(u, k, "db_body")), StoreTyped'
      PROVE  Typed'
  BY <1>1, <1>2, <1>3, CallEmitLocal, TypedBy
<1>4. CASE DbStart(w)
  <2>1. PICK r \in Runs : /\ Become(w, CallEmit([Thread("idle", r) EXCEPT !.left = MaxEmits], "graph", "db_body"))
                          /\ replayed' = replayed \cup {r}
    BY <1>4 DEF DbStart
  <2> DEFINE u == [Thread("idle", r) EXCEPT !.left = MaxEmits]
  <2>2. Thread("idle", r) \in ThreadState /\ Thread("idle", r).run = r
    BY ThreadType, SMT DEF PC
  <2>3. u \in ThreadState
    BY <2>2, BoundsAssumption, Zenon DEF ThreadState
  <2>4. u.run = r
    BY <2>2, SMT DEF ThreadState
  <2>5. StoreTyped'
    BY <1>4, <2>1, BoundsAssumption, SMT DEF DbStart, tables, locks, Typed, TypeOK, StoreTyped
  <2>6. Become(w, CallEmit(u, "graph", "db_body"))
    BY <2>1
  <2> HIDE DEF u
  <2>7. QED
    BY <1>2, <1>3, <2>3, <2>4, <2>5, <2>6
<1>5. CASE Debug(w)
  <2>1. s.run \in Runs
    BY <1>1, <1>5, SMT DEF Debug, DbEmit, DbEnd, DbRaise, Local, Resting
  <2>2. CASE DbEmit(w)
    <3>1. PICK k \in BodyKinds : s.left > 0 /\ Become(w, CallEmit([s EXCEPT !.left = @ - 1], k, "db_body"))
      BY <2>2 DEF DbEmit
    <3> DEFINE u == [s EXCEPT !.left = s.left - 1]
    <3>2. s.left - 1 \in Nat
      BY <1>1, <3>1, SMT DEF ThreadState
    <3>3. u \in ThreadState
      BY <1>1, <3>2, Zenon DEF ThreadState
    <3>4. u.run = s.run
      BY <1>1, SMT DEF ThreadState
    <3>5. StoreTyped'
      BY <2>2, Zenon DEF DbEmit, tables, locks, counts, Typed, TypeOK, StoreTyped
    <3>6. Become(w, CallEmit(u, k, "db_body"))
      BY <3>1
    <3> HIDE DEF u
    <3>7. QED
      BY <1>2, <1>3, <2>1, <3>3, <3>4, <3>5, <3>6
  <2>3. CASE DbEnd(w)
    <3>1. head' \in [Runs -> Checkpoint]
      BY <2>1, <2>3, SMT DEF DbEnd, Checkpoint, Typed, TypeOK
    <3>2. StoreTyped'
      BY <2>3, <3>1, Zenon DEF DbEnd, locks, counts, Typed, TypeOK, StoreTyped
    <3>3. "debug_resumed" \in AuditAction
      BY DEF AuditAction
    <3>4. Local(w, CallAudit(s, "debug_resumed", "none", "idle"))
      BY <1>1, <1>2, <2>1, <3>3, CallAuditLocal
    <3>5. QED
      BY <1>1, <2>3, <3>2, <3>4, TypedBy DEF DbEnd
  <2>4. CASE DbRaise(w)
    <3>1. StoreTyped'
      BY <2>4, Zenon DEF DbRaise, tables, locks, counts, Typed, TypeOK, StoreTyped
    <3>2. QED
      BY <1>1, <2>4, <3>1, IdleLocal, TypedBy DEF DbRaise
  <2>5. QED
    BY <1>5, <2>2, <2>3, <2>4 DEF Debug
<1>6. QED
  BY <1>4, <1>5

LEMMA BootedLocal == Booted \in ThreadState /\ Local(Main, Booted)
<1>1. {"boot", "serving"} \subseteq PC /\ {"boot", "serving"} \subseteq Resting
  BY SMT DEF PC, Resting
<1>2. \A p \in {"boot", "serving"} : Thread(p, NoRun) \in ThreadState /\ Thread(p, NoRun).pc = p
  BY <1>1, ThreadType
<1>3. \A p \in {"boot", "serving"} : Local(Main, Thread(p, NoRun))
  BY <1>1, <1>2, SMT DEF Local, Resting, ApPCs, EmitPCs, InAudit
<1>4. QED
  BY <1>2, <1>3 DEF Booted

LEMMA ProcessTyped ==
  ASSUME Typed, Recover \/ Crash
  PROVE  Typed'
<1> DEFINE s == thr[Main]
<1> USE DEF At
<1>1. Main \in Threads /\ Main \notin Runs \cup Workers /\ s \in ThreadState /\ Local(Main, s)
  BY ThreadsAssumption DEF Typed, TypeOK, Threads
<1>2. CASE RecoverNext
  <2>1. PICK r \in Runs : Become(Main, [Thread("recover_write", r) EXCEPT !.copy = [row[r] EXCEPT !.status = "failed"]])
    BY <1>2 DEF RecoverNext, Orphans
  <2> DEFINE failed == [row[r] EXCEPT !.status = "failed"]
             u == [Thread("recover_write", r) EXCEPT !.copy = failed]
  <2>2. failed \in Row
    <3>1. "failed" \in Status /\ "published" \in Stage /\ row[r] \in Row
      BY SMT DEF Status, Stage, Typed, TypeOK
    <3>2. QED
      BY <3>1, RowMoveType
  <2> HIDE DEF failed
  <2>3. /\ Thread("recover_write", r) \in ThreadState
        /\ Thread("recover_write", r).pc = "recover_write" /\ Thread("recover_write", r).run = r
    BY ThreadType, SMT DEF PC
  <2>4. u \in ThreadState
    BY <2>2, <2>3, Zenon DEF ThreadState
  <2>5. u.pc = "recover_write" /\ u.run = r
    BY <2>3, SMT DEF ThreadState
  <2>6. Become(Main, u)
    BY <2>1 DEF failed
  <2> HIDE DEF u
  <2>7. Local(Main, u)
    BY <2>4, <2>5, PlainLocal, SMT DEF ApPCs, EmitPCs, InAudit
  <2>8. StoreTyped'
    BY <1>2, Zenon DEF RecoverNext, tables, locks, counts, Typed, TypeOK, StoreTyped
  <2>9. QED
    BY <1>1, <2>6, <2>7, <2>8, TypedBy
<1>3. CASE RecoverWrite
  <2>1. s.run \in Runs
    BY <1>1, <1>3, SMT DEF RecoverWrite, Local, Resting
  <2>2. s.copy \in Row
    BY <1>1, Zenon DEF ThreadState
  <2>3. row' \in [Runs -> Row]
    BY <1>3, <2>1, <2>2, UpdateRunType DEF RecoverWrite, Typed, TypeOK
  <2>4. StoreTyped'
    BY <1>3, <2>3, Zenon DEF RecoverWrite, locks, counts, Typed, TypeOK, StoreTyped
  <2>5. "run_interrupted" \in AuditAction /\ "boot" \in Afters(Main)
    BY <1>1, SMT DEF AuditAction, Afters
  <2>6. Local(Main, CallAudit(s, "run_interrupted", "none", "boot"))
    BY <1>1, <2>1, <2>5, CallAuditLocal
  <2>7. QED
    BY <1>1, <1>3, <2>4, <2>6, TypedBy DEF RecoverWrite
<1>4. CASE RecoverDone
  <2>1. "serving" \in PC
    BY DEF PC
  <2>2. Thread("serving", NoRun) \in ThreadState /\ Thread("serving", NoRun).pc = "serving"
    BY <2>1, ThreadType
  <2>3. Local(Main, Thread("serving", NoRun))
    BY <2>2, SMT DEF Local, Resting, ApPCs, EmitPCs, InAudit
  <2>4. StoreTyped'
    BY <1>4, Zenon DEF RecoverDone, tables, locks, counts, Typed, TypeOK, StoreTyped
  <2>5. QED
    BY <1>1, <1>4, <2>3, <2>4, TypedBy DEF RecoverDone
<1>5. CASE Crash
  <2>1. StoreTyped'
    BY <1>5, BoundsAssumption, SMT DEF Crash, tables, Typed, TypeOK, StoreTyped
  <2>2. thr' = [t \in Threads |-> IF t = Main THEN Booted ELSE Idle]
    BY <1>5 DEF Crash
  <2>3. thr' \in [Threads -> ThreadState] /\ \A t \in Threads : Local(t, thr'[t])
    BY <2>2, BootedLocal, IdleType, IdleLocal
  <2>4. QED
    BY <2>1, <2>3, Zenon DEF Typed, TypeOK, StoreTyped
<1>6. QED
  BY <1>1, <1>2, <1>3, <1>4, <1>5, AuditTyped DEF Recover

LEMMA InitTyped == Init => Typed
<1> SUFFICES ASSUME Init PROVE Typed
  OBVIOUS
<1>1. row \in [Runs -> Row]
  BY NoRowType DEF Init
<1>2. events \in [Runs -> Seq(Kind)] /\ audits \in [Runs -> Seq(Entry)]
  BY EmptySeq DEF Init
<1>3. thr \in [Threads -> ThreadState] /\ \A t \in Threads : Local(t, thr[t])
  BY BootedLocal, IdleType, IdleLocal DEF Init
<1>4. /\ artifacts \in [Runs -> SUBSET Artifact] /\ head \in [Runs -> Checkpoint]
      /\ execLock \in Runs \cup {Free} /\ emitLock \in Threads \cup {Free}
      /\ debugs \in 0..MaxDebugs /\ crashes \in 0..MaxCrashes /\ replayed \subseteq Runs
  BY BoundsAssumption, SMT DEF Init, Checkpoint
<1>5. QED
  BY <1>1, <1>2, <1>3, <1>4 DEF Typed, TypeOK

LEMMA StutterTyped == Typed /\ UNCHANGED vars => Typed'
  BY Zenon DEF Typed, TypeOK, Local, vars

LEMMA StepTyped == Typed /\ [Next]_vars => Typed'
<1> SUFFICES ASSUME Typed, [Next]_vars PROVE Typed'
  OBVIOUS
<1>1. ASSUME NEW r \in Runs, ExecutorStep(r) PROVE Typed'
  BY <1>1, ThreadKinds, ExecuteTyped, EmitTyped, AuditTyped DEF ExecutorStep
<1>2. ASSUME NEW w \in Workers, Request(w) \/ WorkerStep(w) PROVE Typed'
  BY <1>2, ThreadKinds, LaunchTyped, ApproveTyped, DebugTyped, EmitTyped, AuditTyped DEF Request, WorkerStep
<1>3. CASE Recover \/ Crash
  BY <1>3, ProcessTyped
<1>4. CASE Quiescent \/ UNCHANGED vars
  BY <1>4, StutterTyped DEF Quiescent
<1>5. QED
  BY <1>1, <1>2, <1>3, <1>4 DEF Next

(***************************************************************************)
(* Every variable keeps its type in every reachable state, and every       *)
(* thread's program counter is consistent with the call it is inside: the  *)
(* helpers _emit and _audit return only to callers of that thread.         *)
(***************************************************************************)
THEOREM TypeCorrect == Spec => []TypeOK
<1>1. Init => Typed
  BY InitTyped
<1>2. Typed /\ [Next]_vars => Typed'
  BY StepTyped
<1>3. Typed => TypeOK
  BY DEF Typed
<1>4. QED
  BY <1>1, <1>2, <1>3, PTL DEF Spec
-------------------------------------------------------------------------------
(***************************************************************************)
(* The execution lock and the emit lock of RunService, and what the second *)
(* one protects.                                                           *)
(*                                                                         *)
(* A step of most actions neither takes nor gives back a lock, and it      *)
(* leaves the launches alone: the lemmas LockKept and LaunchKept say so    *)
(* once, and each such action is shown to be one of them.                  *)
(***************************************************************************)
Exec(s) == s.pc \notin {"idle", "x_wait"}
InLock(s) ==
    \/ s.pc \in {"emit_stage", "emit_seq", "emit_append", "emit_release"}
    \/ s.pc \in InAudit /\ s.after = "emit_release"

(***************************************************************************)
(* A run that is being launched has no executor yet and one launcher; a    *)
(* row, once created, is never absent again.                               *)
(***************************************************************************)
Launches(s) ==
    \/ s.pc \in {"launch_payload", "launch_spawn"}
    \/ s.pc \in InAudit /\ s.after = "launch_spawn"

Writes == {"x_run", "emit_stage", "x_publish", "x_failwrite", "ap_write", "recover_write"}

Created(r) == row[r].status # "absent"

OneLaunch ==
    /\ \A t \in Threads : thr[t].pc \notin Resting => Created(thr[t].run)
    /\ \A t \in Threads : thr[t].pc \in Writes => thr[t].copy.status # "absent"
    /\ \A r \in Runs : head[r] # "none" => Created(r)
    /\ \A r \in Runs : thr[r].pc # "idle" => Created(r)
    /\ \A v, w \in Workers : Launches(thr[w]) =>
          /\ At(thr[w].run, "idle")
          /\ Launches(thr[v]) /\ thr[v].run = thr[w].run => v = w

Locked == SingleExecutionSlot /\ EmitLockHeldByEmitter /\ EventNumberStillFree

IInv == Typed /\ OneLaunch /\ Locked
-------------------------------------------------------------------------------
\* Thread t moves to u and neither takes nor gives back a lock.
KeepsLocks(t, u) ==
    /\ u \in ThreadState
    /\ t \in Runs => (Exec(u) <=> Exec(thr[t]))
    /\ InLock(u) <=> InLock(thr[t])
    /\ u.pc # "emit_append"

LEMMA LockKept ==
  ASSUME Typed, Locked, NEW t \in Threads, NEW u, Become(t, u), KeepsLocks(t, u),
         UNCHANGED <<execLock, emitLock, events>>
  PROVE  Locked'
<1>1. \A v \in Threads : thr'[v] = IF v = t THEN u ELSE thr[v]
  BY SMT DEF Become, Typed, TypeOK
<1>2. SingleExecutionSlot'
  BY <1>1, ThreadKinds, SMT DEF SingleExecutionSlot, Executing, Locked, KeepsLocks, Exec
<1>3. EmitLockHeldByEmitter'
  BY <1>1, SMT DEF EmitLockHeldByEmitter, InEmit, Locked, KeepsLocks, InLock, InAudit
<1>4. EventNumberStillFree'
  BY <1>1, SMT DEF EventNumberStillFree, At, Locked, KeepsLocks
<1>5. QED
  BY <1>2, <1>3, <1>4 DEF Locked

\* Thread t moves to u, works on a created run, and starts no launch and no execution.
KeepsLaunches(t, u) ==
    /\ u.pc \notin Resting => Created(u.run)
    /\ u.pc \in Writes => u.copy.status # "absent"
    /\ t \in Runs /\ u.pc # "idle" => thr[t].pc # "idle"
    /\ t \in Workers /\ Launches(u) => Launches(thr[t]) /\ u.run = thr[t].run

RowsKept == \A r \in Runs : Created(r) => Created(r)'
HeadsKept == \A r \in Runs : head'[r] # "none" => Created(r)

LEMMA LaunchKept ==
  ASSUME Typed, OneLaunch, NEW t \in Threads, NEW u, Local(t, u), Become(t, u), KeepsLaunches(t, u),
         RowsKept, HeadsKept
  PROVE  OneLaunch'
<1>1. \A v \in Threads : thr'[v] = IF v = t THEN u ELSE thr[v]
  BY SMT DEF Become, Typed, TypeOK
<1>2. \A v \in Threads : Local(v, thr[v])
  BY DEF Typed
<1>3. \A v \in Threads : thr'[v].pc \notin Resting => row'[thr'[v].run].status # "absent"
  <2>1. \A v \in Threads : thr'[v].pc \notin Resting => thr'[v].run \in Runs /\ Created(thr'[v].run)
    BY <1>1, <1>2, SMT DEF OneLaunch, KeepsLaunches, Local
  <2>2. QED
    BY <2>1 DEF RowsKept, Created
<1>4. \A v \in Threads : thr'[v].pc \in Writes => thr'[v].copy.status # "absent"
  BY <1>1, SMT DEF OneLaunch, KeepsLaunches
<1>5. \A r \in Runs : head'[r] # "none" => Created(r)'
  BY DEF RowsKept, HeadsKept
<1>6. \A r \in Runs : thr'[r].pc # "idle" => Created(r)'
  BY <1>1, ThreadKinds, SMT DEF OneLaunch, KeepsLaunches, RowsKept
<1>7. \A v \in Workers : Launches(thr'[v]) => Launches(thr[v]) /\ thr'[v].run = thr[v].run
  BY <1>1, ThreadKinds, SMT DEF KeepsLaunches
<1>8. \A v \in Workers : Launches(thr[v]) => thr[v].run \in Runs
  BY <1>2, ThreadKinds, SMT DEF Launches, Local, Resting, InAudit
<1>9. \A r \in Runs : thr[r].pc = "idle" => thr'[r].pc = "idle"
  BY <1>1, ThreadKinds, SMT DEF KeepsLaunches
<1>10. \A v, w \in Workers : Launches(thr'[w]) =>
          /\ thr'[thr'[w].run].pc = "idle"
          /\ Launches(thr'[v]) /\ thr'[v].run = thr'[w].run => v = w
  BY <1>7, <1>8, <1>9, SMT DEF OneLaunch, At
<1>11. QED
  BY <1>3, <1>4, <1>5, <1>6, <1>10, Zenon DEF OneLaunch, At, Created, Launches

\* Both at once, for the state a thread has moved to.
LEMMA QuietStep ==
  ASSUME Typed, Typed', OneLaunch, Locked, NEW t \in Threads, NEW u, Become(t, u),
         KeepsLocks(t, u), KeepsLaunches(t, u), RowsKept, HeadsKept,
         UNCHANGED <<execLock, emitLock, events>>
  PROVE  OneLaunch' /\ Locked'
<1>1. thr'[t] = u
  BY SMT DEF Become, Typed, TypeOK
<1>2. Local(t, u)
  BY <1>1, Zenon DEF Typed
<1>3. QED
  BY <1>2, LaunchKept, LockKept

\* The run of a working thread is created; a step keeps it so.
LEMMA WorkingThread ==
  ASSUME Typed, OneLaunch, NEW t \in Threads, thr[t].pc \notin Resting
  PROVE  thr[t] \in ThreadState /\ thr[t].run \in Runs /\ Created(thr[t].run)
  BY DEF Typed, TypeOK, Local, OneLaunch

LEMMA RowWritten ==
  ASSUME Typed, NEW r \in Runs, NEW stored \in Row, stored.status # "absent", UpdateRun(r, stored)
  PROVE  RowsKept
  BY SMT DEF RowsKept, Created, UpdateRun, Typed, TypeOK

LEMMA RowsUntouched == row' = row => RowsKept
  BY DEF RowsKept, Created

LEMMA HeadsUntouched == OneLaunch /\ head' = head => HeadsKept
  BY DEF HeadsKept, OneLaunch

LEMMA HeadWritten ==
  ASSUME Typed, OneLaunch, NEW r \in Runs, Created(r), NEW h, head' = [head EXCEPT ![r] = h]
  PROVE  HeadsKept
  BY SMT DEF HeadsKept, OneLaunch, Typed, TypeOK
-------------------------------------------------------------------------------
(***************************************************************************)
(* The executor, except where it takes and gives back the execution lock.  *)
(***************************************************************************)
Working == {"x_run", "x_body", "x_deny", "x_store", "x_close", "x_publish", "x_complete",
            "x_exit", "x_failed", "x_failwrite", "x_error"}

\* A state inside an execution: at a step of its own, or calling _emit or _audit.
Within(u) ==
    /\ u.pc \in Working \cup {"emit", "audit_seq"}
    /\ u.pc = "audit_seq" => u.after \in {"x_exit", "x_complete", "x_error"}
    /\ u.pc \in Writes => u.copy.status # "absent"

LEMMA CallFields ==
  ASSUME NEW s \in ThreadState
  PROVE  /\ \A k, b : /\ CallEmit(s, k, b).pc = "emit" /\ CallEmit(s, k, b).run = s.run
                      /\ CallEmit(s, k, b).after = s.after
         /\ \A a, n, b : /\ CallAudit(s, a, n, b).pc = "audit_seq" /\ CallAudit(s, a, n, b).run = s.run
                         /\ CallAudit(s, a, n, b).after = b
  BY SMT DEF CallEmit, CallAudit, ThreadState

LEMMA ExecuteWithin ==
  ASSUME Typed, OneLaunch, NEW r \in Runs, Execute(r), ~XAcquire(r), ~XExit(r)
  PROVE  \E u : Become(r, u) /\ Within(u) /\ u.run = thr[r].run /\ thr[r].pc \in Working
<1> DEFINE s == thr[r]
           Good(u) == Within(u) /\ u.run = s.run
<1> USE DEF At
<1>1. s \in ThreadState /\ row[r] \in Row /\ Local(r, s)
  BY DEF Typed, TypeOK, Threads
<1>2. s.pc \in Working
  BY Zenon DEF Execute, XRun, XGraphStart, XEmit, XFinish, XInterrupt, XDeny, XRaise,
     XStore, XClose, XPublish, XComplete, XFailRead, XFailWrite, XError, XExit, Working
<1>3. ASSUME NEW u \in ThreadState, u.run = s.run, NEW k, NEW b
      PROVE  Good(CallEmit(u, k, b))
  BY <1>3, CallFields, SMT DEF Within, Writes
<1>4. ASSUME NEW a, NEW b \in {"x_exit", "x_complete", "x_error"}
      PROVE  Good(CallAudit(s, a, "none", b))
  BY <1>1, CallFields, SMT DEF Within, Writes
<1>5. CASE XRun(r) \/ XEmit(r)
  <2> DEFINE from(n) == [s EXCEPT !.left = n]
  <2>1. PICK n \in Nat, k \in BodyKinds \cup {"run"}, b \in {"x_body"} : Become(r, CallEmit(from(n), k, b))
    <3>1. s.left - 1 \in Nat \/ ~ (s.left > 0)
      BY <1>1, SMT DEF ThreadState
    <3>2. QED
      BY <1>5, <3>1, BoundsAssumption, Zenon DEF XRun, XEmit
  <2>2. from(n) \in ThreadState
    BY <1>1, Zenon DEF ThreadState
  <2>3. from(n).run = s.run
    BY <1>1, SMT DEF ThreadState
  <2> HIDE DEF from
  <2>4. QED
    BY <1>2, <1>3, <2>1, <2>2, <2>3
<1>6. CASE XGraphStart(r)
  <2>1. Good([s EXCEPT !.arg = "started"])
    BY <1>1, <1>6, SMT DEF XGraphStart, ThreadState, Within, Working, Writes
  <2>2. QED
    BY <1>2, <1>6, <2>1 DEF XGraphStart
<1>7. CASE XFinish(r) \/ XDeny(r)
  <2>1. PICK out \in Outcomes(r) : Become(r, Concluded(r, out))
    BY <1>7, Zenon DEF XFinish, XDeny, Outcomes
  <2> DEFINE u == [s EXCEPT !.pc = "x_store", !.arg = "done", !.todo = out]
  <2>2. out \in Seq(Artifact) /\ "x_store" \in PC /\ "done" \in Arg
    BY OutcomeType, SMT DEF PC, Arg
  <2>3. u \in ThreadState
    BY <1>1, <2>2, Zenon DEF ThreadState
  <2>4. u.pc = "x_store" /\ u.run = s.run
    BY <1>1, SMT DEF ThreadState
  <2>5. Become(r, u) \/ Become(r, CallEmit(u, "result", "x_store"))
    BY <2>1 DEF Concluded
  <2> HIDE DEF u
  <2>6. Good(u)
    BY <2>4, SMT DEF Within, Working, Writes
  <2>7. QED
    BY <1>2, <1>3, <2>3, <2>4, <2>5, <2>6
<1>8. CASE XInterrupt(r)
  <2> DEFINE parked == <<"alert_payload", "response_plan", "investigation_report">>
             u == [s EXCEPT !.arg = "pending", !.todo = parked]
  <2>1. parked \in Seq(Artifact) /\ "pending" \in Arg
    BY OutcomeType DEF Arg
  <2> HIDE DEF parked
  <2>2. u \in ThreadState
    BY <1>1, <2>1, Zenon DEF ThreadState
  <2>3. u.run = s.run
    BY <1>1, SMT DEF ThreadState
  <2>4. Become(r, CallEmit(u, "approval", "x_store")) \/ Become(r, CallEmit(s, "approval", "x_deny"))
    BY <1>8, Zenon DEF XInterrupt, parked
  <2> HIDE DEF u
  <2>5. QED
    BY <1>1, <1>2, <1>3, <2>2, <2>3, <2>4
<1>9. CASE XRaise(r)
  <2>1. Good([s EXCEPT !.pc = "x_failed"])
    BY <1>1, SMT DEF ThreadState, Within, Working, Writes
  <2>2. QED
    BY <1>2, <1>9, <2>1 DEF XRaise
<1>10. CASE XStore(r)
  <2>1. Good([s EXCEPT !.pc = "x_close"])
    BY <1>1, SMT DEF ThreadState, Within, Working, Writes
  <2>2. Good([s EXCEPT !.todo = Tail(@)])
    BY <1>1, <1>10, SMT DEF XStore, ThreadState, Within, Working, Writes
  <2>3. QED
    BY <1>2, <1>10, <2>1, <2>2, Zenon DEF XStore
<1>11. CASE XClose(r)
  <2>1. \A stored : stored.status # "absent" => Good([s EXCEPT !.pc = "x_publish", !.copy = stored])
    BY <1>1, SMT DEF ThreadState, Within, Working, Writes
  <2>2. /\ [row[r] EXCEPT !.status = "awaiting_approval", !.stage = "approval"].status # "absent"
        /\ [row[r] EXCEPT !.status = "completed", !.stage = "published"].status # "absent"
    BY <1>1, SMT DEF Row
  <2>3. QED
    BY <1>2, <1>11, <2>1, <2>2, Zenon DEF XClose
<1>12. CASE XPublish(r) \/ XFailWrite(r)
  <2>1. \E a, b : b \in {"x_exit", "x_complete", "x_error"} /\ Become(r, CallAudit(s, a, "none", b))
    BY <1>12, Zenon DEF XPublish, XFailWrite
  <2>2. QED
    BY <1>2, <1>4, <2>1
<1>13. CASE XComplete(r) \/ XError(r)
  BY <1>1, <1>2, <1>3, <1>13 DEF XComplete, XError
<1>14. CASE XFailRead(r)
  <2>1. Good([s EXCEPT !.pc = "x_failwrite", !.copy = [row[r] EXCEPT !.status = "failed"]])
    BY <1>1, SMT DEF ThreadState, Row, Within, Working, Writes
  <2>2. QED
    BY <1>2, <1>14, <2>1 DEF XFailRead
<1>15. QED
  BY <1>5, <1>6, <1>7, <1>8, <1>9, <1>10, <1>11, <1>12, <1>13, <1>14 DEF Execute

LEMMA ExecuteLocked ==
  ASSUME Typed, Typed', OneLaunch, Locked, NEW r \in Runs, Execute(r)
  PROVE  OneLaunch' /\ Locked'
<1> DEFINE s == thr[r]
<1> USE DEF At
<1>1. /\ r \in Threads /\ r \notin Workers /\ r # Free
      /\ s \in ThreadState /\ row[r] \in Row
  BY ThreadsAssumption DEF Typed, TypeOK, Threads
<1>2. CASE XAcquire(r)
  <2> DEFINE started == [row[r] EXCEPT !.status = "running", !.stage = "initializing"]
             u == [s EXCEPT !.pc = "x_run", !.copy = started]
  <2>1. Become(r, u) /\ s.pc = "x_wait" /\ execLock = Free /\ execLock' = r
    BY <1>2 DEF XAcquire
  <2>2. u.pc = "x_run" /\ u.run = s.run /\ u.copy.status = "running"
    <3>1. started.status = "running"
      BY <1>1, SMT DEF Row
    <3> HIDE DEF started
    <3>2. QED
      BY <1>1, <3>1, SMT DEF ThreadState
  <2> HIDE DEF u
  <2>3. s.run \in Runs /\ Created(s.run)
    BY <1>1, <2>1, WorkingThread, SMT DEF Resting
  <2>4. Local(r, u) /\ \A v \in Threads : thr'[v] = IF v = r THEN u ELSE thr[v]
    BY <1>1, <2>1, SMT DEF Typed, TypeOK, Become
  <2>5. RowsKept /\ HeadsKept
    BY <1>2, RowsUntouched, HeadsUntouched, Zenon DEF XAcquire, tables
  <2>6. KeepsLaunches(r, u)
    BY <1>1, <2>1, <2>2, <2>3, SMT DEF KeepsLaunches
  <2>7. OneLaunch'
    BY <1>1, <2>1, <2>4, <2>5, <2>6, LaunchKept
  <2>8. SingleExecutionSlot'
    BY <1>1, <2>1, <2>2, <2>4, ThreadKinds, ThreadsAssumption, SMT DEF SingleExecutionSlot, Executing, Locked
  <2>9. UNCHANGED <<emitLock, events>>
    BY <1>2, Zenon DEF XAcquire, tables
  <2>10. EmitLockHeldByEmitter' /\ EventNumberStillFree'
    BY <2>1, <2>2, <2>4, <2>9, SMT DEF EmitLockHeldByEmitter, InEmit, EventNumberStillFree, Locked
  <2>11. QED
    BY <2>7, <2>8, <2>10 DEF Locked
<1>3. CASE XExit(r)
  <2>1. Become(r, Idle) /\ s.pc = "x_exit" /\ execLock' = Free
    BY <1>3 DEF XExit
  <2>2. Idle.pc = "idle" /\ Idle.after = "idle"
    BY DEF Idle
  <2>3. \A v \in Threads : thr'[v] = IF v = r THEN Idle ELSE thr[v]
    BY <1>1, <2>1, SMT DEF Typed, TypeOK, Become
  <2>4. RowsKept /\ HeadsKept
    BY <1>3, RowsUntouched, HeadsUntouched, Zenon DEF XExit, tables
  <2>5. KeepsLaunches(r, Idle)
    BY <2>2, SMT DEF KeepsLaunches, Resting, Writes, Launches, InAudit
  <2>6. OneLaunch'
    BY <1>1, <2>1, <2>4, <2>5, IdleLocal, LaunchKept
  <2>7. SingleExecutionSlot'
    BY <1>1, <2>1, <2>2, <2>3, ThreadKinds, ThreadsAssumption, SMT DEF SingleExecutionSlot, Executing, Locked
  <2>8. UNCHANGED <<emitLock, events>>
    BY <1>3, Zenon DEF XExit, tables
  <2>9. EmitLockHeldByEmitter' /\ EventNumberStillFree'
    BY <2>1, <2>2, <2>3, <2>8, SMT DEF EmitLockHeldByEmitter, InEmit, EventNumberStillFree, Locked
  <2>10. QED
    BY <2>6, <2>7, <2>9 DEF Locked
<1>4. CASE ~XAcquire(r) /\ ~XExit(r)
  <2>1. PICK u : Become(r, u) /\ Within(u) /\ u.run = s.run /\ s.pc \in Working
    BY <1>4, ExecuteWithin
  <2>2. s.run \in Runs /\ Created(s.run) /\ Created(r)
    BY <1>1, <2>1, WorkingThread, SMT DEF Working, Resting, OneLaunch
  <2>3. u \in ThreadState
    BY <1>1, <2>1, SMT DEF Become, Typed, TypeOK
  <2>4. KeepsLocks(r, u)
    BY <1>1, <2>1, <2>3, SMT DEF KeepsLocks, Exec, InLock, InAudit, Within, Working
  <2>5. KeepsLaunches(r, u)
    BY <1>1, <2>1, <2>2, SMT DEF KeepsLaunches, Within, Working, Resting
  <2>6. RowsKept
    <3>1. CASE XRun(r) \/ XPublish(r) \/ XFailWrite(r)
      <4>1. s.pc \in Writes /\ UpdateRun(r, s.copy)
        BY <3>1, SMT DEF XRun, XPublish, XFailWrite, Writes
      <4>2. s.copy \in Row /\ s.copy.status # "absent"
        BY <1>1, <4>1, SMT DEF ThreadState, OneLaunch
      <4>3. QED
        BY <4>1, <4>2, RowWritten
    <3>2. CASE ~(XRun(r) \/ XPublish(r) \/ XFailWrite(r))
      <4>1. row' = row
        BY <1>4, <3>2, Zenon DEF Execute, XGraphStart, XEmit, XFinish, XInterrupt, XDeny, XRaise,
           XStore, XClose, XComplete, XFailRead, XError, tables
      <4>2. QED
        BY <4>1, RowsUntouched
    <3>3. QED
      BY <3>1, <3>2
  <2>7. HeadsKept
    <3>1. CASE XGraphStart(r) \/ XFinish(r) \/ XInterrupt(r) \/ XDeny(r)
      <4>1. \E h : head' = [head EXCEPT ![r] = h]
        BY <3>1, Zenon DEF XGraphStart, XFinish, XInterrupt, XDeny
      <4>2. QED
        BY <2>2, <4>1, HeadWritten
    <3>2. CASE ~(XGraphStart(r) \/ XFinish(r) \/ XInterrupt(r) \/ XDeny(r))
      <4>1. head' = head
        BY <1>4, <3>2, Zenon DEF Execute, XRun, XEmit, XRaise, XStore, XClose, XPublish,
           XComplete, XFailRead, XFailWrite, XError, tables
      <4>2. QED
        BY <4>1, HeadsUntouched
    <3>3. QED
      BY <3>1, <3>2
  <2>8. UNCHANGED <<execLock, emitLock, events>>
    BY <1>4, Zenon DEF Execute, XRun, XGraphStart, XEmit, XFinish, XInterrupt, XDeny, XRaise, XStore, XClose,
       XPublish, XComplete, XFailRead, XFailWrite, XError, tables, locks
  <2>9. QED
    BY <1>1, <2>1, <2>4, <2>5, <2>6, <2>7, <2>8, QuietStep
<1>5. QED
  BY <1>2, <1>3, <1>4
-------------------------------------------------------------------------------
(***************************************************************************)
(* _emit: the steps that take and give back the emit lock, and the two     *)
(* between which the number of the event must stay free.                   *)
(***************************************************************************)
LEMMA EmitLocked ==
  ASSUME Typed, Typed', OneLaunch, Locked, NEW t \in Threads, Emit(t)
  PROVE  OneLaunch' /\ Locked'
<1> DEFINE s == thr[t]
<1> USE DEF At
<1>1. s \in ThreadState /\ Local(t, s) /\ t # Free
  BY ThreadsAssumption DEF Typed, TypeOK
<1>2. s.pc \in EmitPCs
  BY SMT DEF Emit, EmitRead, EmitStage, EmitSeq, EmitAppend, EmitRelease, EmitPCs
<1>3. s.run \in Runs /\ Created(s.run) /\ s.back \in Backs(t)
  BY <1>1, <1>2, WorkingThread, SMT DEF EmitPCs, Resting, Local
<1>4. row[s.run] \in Row /\ row[s.run].status # "absent"
  BY <1>3 DEF Typed, TypeOK, Created
<1>5. execLock' = execLock /\ HeadsKept
  BY HeadsUntouched, Zenon DEF Emit, EmitRead, EmitStage, EmitSeq, EmitAppend, EmitRelease, tables, locks
<1>6. ASSUME NEW u, Become(t, u)
      PROVE  \A v \in Threads : thr'[v] = IF v = t THEN u ELSE thr[v]
  BY <1>6, SMT DEF Become, Typed, TypeOK
<1>7. ASSUME NEW u, Become(t, u), u.pc \in EmitPCs \cup {"audit_seq"} \cup Backs(t), u.run = s.run,
             u.pc = "audit_seq" => u.after = "emit_release",
             u.pc = "emit_stage" => u.copy.status # "absent", RowsKept
      PROVE  OneLaunch' /\ SingleExecutionSlot'
  <2>1. KeepsLaunches(t, u)
    BY <1>2, <1>3, <1>7, SMT DEF KeepsLaunches, EmitPCs, Backs, Resting, Writes, Launches, InAudit
  <2>2. Local(t, u)
    BY <1>6, <1>7, Zenon DEF Typed
  <2>3. OneLaunch'
    BY <1>5, <1>7, <2>1, <2>2, LaunchKept
  <2>4. t \in Runs => u.pc \notin {"idle", "x_wait"}
    BY <1>7, SMT DEF EmitPCs, Backs
  <2>5. SingleExecutionSlot'
    BY <1>2, <1>5, <1>6, <1>7, <2>4, ThreadKinds, SMT DEF SingleExecutionSlot, Executing, Locked, EmitPCs
  <2>6. QED
    BY <2>3, <2>5
<1>8. CASE EmitRead(t)
  <2> DEFINE stored == row[s.run]
             moved  == [stored EXCEPT !.stage = StageOf(s.kind, stored.stage)]
             next   == [s EXCEPT !.copy = moved, !.pc = IF moved = stored THEN "emit_seq" ELSE "emit_stage"]
  <2>1. moved.status # "absent"
    BY <1>4, SMT DEF Row
  <2> HIDE DEF moved
  <2>2. next.pc \in {"emit_seq", "emit_stage"} /\ next.run = s.run /\ next.copy = moved
    BY <1>1, SMT DEF ThreadState
  <2>3. Become(t, next)
    BY <1>8, Zenon DEF EmitRead, moved
  <2> HIDE DEF next
  <2>4. row' = row /\ events' = events /\ emitLock = Free /\ emitLock' = t
    BY <1>8, Zenon DEF EmitRead, tables
  <2>5. OneLaunch' /\ SingleExecutionSlot'
    BY <1>7, <2>1, <2>2, <2>3, <2>4, RowsUntouched, SMT DEF EmitPCs
  <2>6. EmitLockHeldByEmitter'
    BY <1>1, <1>6, <2>2, <2>3, <2>4, ThreadsAssumption, SMT DEF EmitLockHeldByEmitter, InEmit, Locked
  <2>7. EventNumberStillFree'
    BY <1>6, <2>2, <2>3, <2>4, SMT DEF EventNumberStillFree, Locked
  <2>8. QED
    BY <2>5, <2>6, <2>7 DEF Locked
<1>9. CASE EmitStage(t)
  <2> DEFINE next == [s EXCEPT !.pc = "emit_seq"]
  <2>1. next.pc = "emit_seq" /\ next.run = s.run
    BY <1>1, SMT DEF ThreadState
  <2>2. s.pc = "emit_stage" /\ Become(t, next) /\ UpdateRun(s.run, s.copy) /\ events' = events /\ emitLock' = emitLock
    BY <1>9, Zenon DEF EmitStage, locks
  <2> HIDE DEF next
  <2>3. s.copy \in Row /\ s.copy.status # "absent"
    BY <1>1, <2>2, SMT DEF ThreadState, OneLaunch, Writes
  <2>4. RowsKept
    BY <1>3, <2>2, <2>3, RowWritten
  <2>5. OneLaunch' /\ SingleExecutionSlot'
    BY <1>7, <2>1, <2>2, <2>4, SMT DEF EmitPCs
  <2>6. EmitLockHeldByEmitter'
    BY <1>6, <2>1, <2>2, SMT DEF EmitLockHeldByEmitter, InEmit, Locked
  <2>7. EventNumberStillFree'
    BY <1>6, <2>1, <2>2, SMT DEF EventNumberStillFree, Locked
  <2>8. QED
    BY <2>5, <2>6, <2>7 DEF Locked
<1>10. CASE EmitSeq(t)
  <2> DEFINE next == [s EXCEPT !.pc = "emit_append", !.seq = Len(events[s.run]) + 1]
  <2>1. next.pc = "emit_append" /\ next.run = s.run /\ next.seq = Len(events[s.run]) + 1
    BY <1>1, SMT DEF ThreadState
  <2>2. s.pc = "emit_seq" /\ Become(t, next) /\ row' = row /\ events' = events /\ emitLock' = emitLock
    BY <1>10, Zenon DEF EmitSeq, tables, locks
  <2> HIDE DEF next
  <2>3. OneLaunch' /\ SingleExecutionSlot'
    BY <1>7, <2>1, <2>2, RowsUntouched, SMT DEF EmitPCs
  <2>4. EmitLockHeldByEmitter'
    BY <1>6, <2>1, <2>2, SMT DEF EmitLockHeldByEmitter, InEmit, Locked
  <2>5. EventNumberStillFree'
    BY <1>6, <2>1, <2>2, SMT DEF EventNumberStillFree, Locked
  <2>6. QED
    BY <2>3, <2>4, <2>5 DEF Locked
<1>11. CASE EmitAppend(t)
  <2> DEFINE called == CallAudit(s, ActionOf(s.kind), "none", "emit_release")
             next   == [s EXCEPT !.pc = "emit_release"]
  <2>1. /\ called.pc = "audit_seq" /\ called.after = "emit_release" /\ called.run = s.run
        /\ next.pc = "emit_release" /\ next.run = s.run
    <3>1. next.pc = "emit_release" /\ next.run = s.run
      BY <1>1, SMT DEF ThreadState
    <3>2. QED
      BY <1>1, <3>1, CallFields
  <2> HIDE DEF called
  <2>2. PICK u \in {called, next} : Become(t, u)
    BY <1>11, Zenon DEF EmitAppend, called
  <2> HIDE DEF next
  <2>3. s.pc = "emit_append" /\ row' = row /\ emitLock' = emitLock
    BY <1>11, Zenon DEF EmitAppend, locks
  <2>4. OneLaunch' /\ SingleExecutionSlot'
    BY <1>7, <2>1, <2>2, <2>3, RowsUntouched, SMT DEF EmitPCs
  <2>5. EmitLockHeldByEmitter'
    BY <1>6, <2>1, <2>2, <2>3, SMT DEF EmitLockHeldByEmitter, InEmit, Locked
  <2>6. \A v \in Threads : thr[v].pc = "emit_append" => v = t
    BY <2>3, SMT DEF EmitLockHeldByEmitter, InEmit, Locked
  <2>7. EventNumberStillFree'
    BY <1>6, <2>1, <2>2, <2>6, SMT DEF EventNumberStillFree
  <2>8. QED
    BY <2>4, <2>5, <2>7 DEF Locked
<1>12. CASE EmitRelease(t)
  <2> DEFINE next == Returned(s)
  <2>1. next.pc = s.back /\ next.run = s.run /\ next.after = s.after
    BY <1>1, SMT DEF Returned, ThreadState
  <2>2. s.back \notin EmitPCs \cup InAudit
    BY <1>3, SMT DEF Backs, EmitPCs, InAudit
  <2>3. s.pc = "emit_release" /\ Become(t, next) /\ row' = row /\ events' = events /\ emitLock' = Free
    BY <1>12, Zenon DEF EmitRelease, tables
  <2> HIDE DEF next
  <2>4. next.pc \in Backs(t) /\ next.pc # "audit_seq" /\ next.pc # "emit_stage" /\ next.pc \notin EmitPCs \cup InAudit
    BY <1>3, <2>1, <2>2, SMT DEF EmitPCs, InAudit
  <2>5. OneLaunch' /\ SingleExecutionSlot'
    BY <1>7, <2>1, <2>3, <2>4, RowsUntouched
  <2>6. EmitLockHeldByEmitter'
    BY <1>1, <1>6, <2>3, <2>4, ThreadsAssumption, SMT DEF EmitLockHeldByEmitter, InEmit, Locked, EmitPCs, InAudit
  <2>7. EventNumberStillFree'
    BY <1>6, <2>3, <2>4, SMT DEF EventNumberStillFree, Locked, EmitPCs
  <2>8. QED
    BY <2>5, <2>6, <2>7 DEF Locked
<1>13. QED
  BY <1>8, <1>9, <1>10, <1>11, <1>12 DEF Emit
-------------------------------------------------------------------------------
(***************************************************************************)
(* _audit: only the way an exception takes out of _emit touches the locks. *)
(***************************************************************************)
LEMMA AuditLocked ==
  ASSUME Typed, Typed', OneLaunch, Locked, NEW t \in Threads, Audit(t)
  PROVE  OneLaunch' /\ Locked'
<1> DEFINE s == thr[t]
<1> USE DEF At
<1>1. s \in ThreadState /\ Local(t, s) /\ t # Free
  BY ThreadsAssumption DEF Typed, TypeOK
<1>2. s.pc \in InAudit
  BY SMT DEF Audit, AuditSeq, AuditAppend, AuditCollide, InAudit
<1>3. /\ s.run \in Runs /\ Created(s.run) /\ s.after \in Afters(t)
      /\ s.after = "emit_release" => s.back \in Backs(t)
  BY <1>1, <1>2, WorkingThread, SMT DEF InAudit, Resting, Local
<1>4. /\ Idle.pc = "idle" /\ Idle.after = "idle"
      /\ t \in Runs => s.after # "idle"
  BY <1>3, SMT DEF Idle, Afters
<1>5. RowsKept /\ HeadsKept /\ UNCHANGED events
  BY RowsUntouched, HeadsUntouched, Zenon DEF Audit, AuditSeq, AuditAppend, AuditCollide, tables
<1>6. ASSUME NEW u, Become(t, u)
      PROVE  \A v \in Threads : thr'[v] = IF v = t THEN u ELSE thr[v]
  BY <1>6, SMT DEF Become, Typed, TypeOK
<1>7. CASE AuditSeq(t)
  <2> DEFINE next == [s EXCEPT !.pc = "audit_append", !.seq = Len(audits[s.run]) + 1]
  <2>1. next.pc = "audit_append" /\ next.run = s.run /\ next.after = s.after
    BY <1>1, SMT DEF ThreadState
  <2>2. Become(t, next) /\ UNCHANGED <<execLock, emitLock>>
    BY <1>7, Zenon DEF AuditSeq, locks
  <2> HIDE DEF next
  <2>3. KeepsLaunches(t, next)
    BY <1>2, <1>3, <2>1, SMT DEF KeepsLaunches, Resting, Writes, Launches, InAudit
  <2>4. next \in ThreadState
    BY <1>6, <2>2, SMT DEF Typed, TypeOK
  <2>5. KeepsLocks(t, next)
    BY <1>2, <2>1, <2>4, SMT DEF KeepsLocks, Exec, InLock, InAudit
  <2>6. QED
    BY <1>5, <2>2, <2>3, <2>5, QuietStep
<1>8. CASE AuditAppend(t)
  <2> DEFINE next == Audited(s)
  <2>1. /\ s.after = "idle" => next = Idle
        /\ s.after # "idle" => next.pc = s.after /\ next.run = s.run
    BY <1>1, SMT DEF Audited, ThreadState
  <2>2. Become(t, next) /\ UNCHANGED <<execLock, emitLock>>
    BY <1>8, Zenon DEF AuditAppend, locks
  <2> HIDE DEF next
  <2>3. KeepsLaunches(t, next)
    BY <1>2, <1>3, <1>4, <2>1, SMT DEF KeepsLaunches, Resting, Writes, Launches, InAudit, Afters
  <2>4. next \in ThreadState
    BY <1>6, <2>2, SMT DEF Typed, TypeOK
  <2>5. KeepsLocks(t, next)
    BY <1>2, <1>3, <1>4, <2>1, <2>4, SMT DEF KeepsLocks, Exec, InLock, InAudit, Afters
  <2>6. QED
    BY <1>5, <2>2, <2>3, <2>5, QuietStep
<1>9. CASE AuditCollide(t)
  <2>1. PICK u \in Unwound(s) : /\ Become(t, u)
                                /\ execLock' = IF execLock = t /\ u = Idle THEN Free ELSE execLock
    BY <1>9 DEF AuditCollide
  <2>2. emitLock' = IF emitLock = t THEN Free ELSE emitLock
    BY <1>9 DEF AuditCollide
  <2>3. \/ u = Idle /\ (s.after # "emit_release" \/ s.back = "db_body")
        \/ s.after = "emit_release" /\ u.run = s.run /\ u.pc \in {"x_failed", s.back}
           /\ u.pc # "x_wait" /\ u.pc # "idle"
    <3> DEFINE back == Returned(s)
               out  == [back EXCEPT !.after = "idle", !.entry = Note("none", "none")]
               fail == [out EXCEPT !.pc = "x_failed"]
    <3>1. CASE s.after # "emit_release"
      BY <2>1, <3>1, Zenon DEF Unwound
    <3>2. CASE s.after = "emit_release"
      <4>1. back \in ThreadState /\ back.run = s.run /\ back.pc = s.back
        <5>1. back \in ThreadState
          BY <1>1, <1>3, <3>2, ReturnedLocal DEF Local
        <5>2. QED
          BY <1>1, <5>1, SMT DEF Returned, ThreadState
      <4>2. u \in {out, fail} \/ (u = Idle /\ s.back = "db_body")
        <5> HIDE DEF out, fail
        <5>1. Unwound(s) \subseteq IF s.back = "db_body" THEN {out, Idle} ELSE {out, fail}
          BY <3>2, SMT DEF Unwound, out, fail
        <5>2. QED
          BY <2>1, <5>1
      <4> HIDE DEF back
      <4>3. out.pc = s.back /\ out.run = s.run /\ fail.pc = "x_failed" /\ fail.run = s.run
        BY <4>1, SMT DEF ThreadState
      <4>4. s.back # "x_wait" /\ s.back # "idle"
        BY <1>3, <3>2, SMT DEF Backs
      <4> HIDE DEF out, fail
      <4>5. QED
        BY <3>2, <4>2, <4>3, <4>4
    <3>3. QED
      BY <3>1, <3>2
  <2>4. Local(t, u) /\ \A v \in Threads : thr'[v] = IF v = t THEN u ELSE thr[v]
    BY <1>6, <2>1, Zenon DEF Typed
  <2>5. u.pc \notin EmitPCs \cup InAudit \cup Writes \cup {"launch_payload", "launch_spawn", "x_wait"}
    BY <1>3, <1>4, <2>3, SMT DEF Backs, EmitPCs, InAudit, Writes
  <2>6. KeepsLaunches(t, u)
    BY <1>2, <1>3, <1>4, <2>3, <2>5, SMT DEF KeepsLaunches, Resting, Launches, InAudit
  <2>7. OneLaunch'
    BY <1>5, <2>1, <2>4, <2>6, LaunchKept
  <2>8. t \in Runs => execLock = t /\ (u = Idle \/ u.pc # "idle")
    BY <1>2, <2>3, SMT DEF SingleExecutionSlot, Executing, Locked, InAudit
  <2>9. SingleExecutionSlot'
    <3>1. CASE t \in Runs
      <4>1. \A v \in Runs : v # t => execLock # v /\ execLock' # v
        BY <2>1, <2>8, <3>1, ThreadsAssumption, ThreadKinds
      <4>2. execLock' = t <=> u # Idle
        BY <1>1, <2>1, <2>8, <3>1
      <4>3. u # Idle <=> u.pc \notin {"idle", "x_wait"}
        BY <1>4, <2>5, <2>8, <3>1
      <4>4. QED
        BY <2>4, <3>1, <4>1, <4>2, <4>3, ThreadKinds, SMT DEF SingleExecutionSlot, Executing, Locked
    <3>2. CASE t \notin Runs
      <4>1. execLock' = execLock
        BY <1>1, <2>1, <3>2, SMT DEF Typed, TypeOK
      <4>2. QED
        BY <2>4, <3>2, <4>1, ThreadKinds, SMT DEF SingleExecutionSlot, Executing, Locked
    <3>3. QED
      BY <3>1, <3>2
  <2>10. EmitLockHeldByEmitter'
    BY <1>1, <2>2, <2>4, <2>5, ThreadsAssumption, SMT DEF EmitLockHeldByEmitter, InEmit, Locked, EmitPCs, InAudit
  <2>11. EventNumberStillFree'
    BY <1>5, <2>4, <2>5, SMT DEF EventNumberStillFree, Locked, EmitPCs
  <2>12. QED
    BY <2>7, <2>9, <2>10, <2>11 DEF Locked
<1>10. QED
  BY <1>7, <1>8, <1>9 DEF Audit
-------------------------------------------------------------------------------
(***************************************************************************)
(* A launch is the only step that starts another thread.                   *)
(***************************************************************************)
LEMMA LaunchLocked ==
  ASSUME Typed, Typed', OneLaunch, Locked, NEW w \in Workers, LaunchCreate(w) \/ Launch(w)
  PROVE  OneLaunch' /\ Locked'
<1> DEFINE s == thr[w]
<1> USE DEF At
<1>1. w \in Threads /\ w \notin Runs /\ s \in ThreadState /\ Local(w, s)
  BY ThreadsAssumption DEF Typed, TypeOK, Threads
<1>2. CASE LaunchCreate(w)
  <2>1. PICK r \in Runs, origin \in {"manual", "intake", "replay"} :
           /\ row[r].status = "absent"
           /\ Become(w, IF r \in Alerts
                        THEN [Thread("launch_payload", r) EXCEPT !.arg = origin]
                        ELSE CallAudit([Thread("idle", r) EXCEPT !.arg = origin],
                                       "run_created", "none", "launch_spawn"))
           /\ UpdateRun(r, [status |-> "queued", stage |-> "queued"])
    BY <1>2, SMT DEF LaunchCreate, Origins
  <2> DEFINE alert == [Thread("launch_payload", r) EXCEPT !.arg = origin]
             ref   == [Thread("idle", r) EXCEPT !.arg = origin]
  <2>2. alert.pc = "launch_payload" /\ alert.run = r /\ ref.run = r /\ ref \in ThreadState
    <3>1. "launch_payload" \in PC /\ "idle" \in PC /\ origin \in Arg
      BY SMT DEF PC, Arg
    <3>2. /\ Thread("launch_payload", r) \in ThreadState /\ Thread("idle", r) \in ThreadState
          /\ Thread("launch_payload", r).pc = "launch_payload"
          /\ Thread("launch_payload", r).run = r /\ Thread("idle", r).run = r
      BY <3>1, ThreadType
    <3>3. ref \in ThreadState
      BY <3>1, <3>2, Zenon DEF ThreadState
    <3>4. QED
      BY <3>2, <3>3, SMT DEF ThreadState
  <2> HIDE DEF alert, ref
  <2>3. PICK u : Become(w, u) /\ u.run = r /\ u.pc \in {"launch_payload", "audit_seq"} /\ Launches(u)
                 /\ ~ InLock(u)
    <3>1. LET c == CallAudit(ref, "run_created", "none", "launch_spawn")
          IN  c.pc = "audit_seq" /\ c.run = r /\ c.after = "launch_spawn"
      BY <2>2, CallFields
    <3>2. \E u \in {alert, CallAudit(ref, "run_created", "none", "launch_spawn")} : Become(w, u)
      BY <2>1, Zenon DEF alert, ref
    <3>3. QED
      BY <2>2, <3>1, <3>2, SMT DEF Launches, InLock, InAudit
  <2>4. \A v \in Threads : thr'[v] = IF v = w THEN u ELSE thr[v]
    BY <1>1, <2>3, SMT DEF Become, Typed, TypeOK
  <2>5. \A q \in Runs : row'[q].status = IF q = r THEN "queued" ELSE row[q].status
    BY <2>1, SMT DEF UpdateRun, Typed, TypeOK
  <2>6. UNCHANGED <<head, events, execLock, emitLock>> /\ s.pc = "idle"
    BY <1>2, Zenon DEF LaunchCreate, locks
  <2>7. KeepsLocks(w, u)
    <3>1. u \in ThreadState
      BY <1>1, <2>4, SMT DEF Typed, TypeOK
    <3>2. QED
      BY <1>1, <2>3, <2>6, <3>1, SMT DEF KeepsLocks, InLock, InAudit
  <2>8. Locked'
    BY <1>1, <2>3, <2>6, <2>7, LockKept
  <2>9. At(r, "idle") /\ \A v \in Workers : Launches(thr[v]) => thr[v].run # r
    <3>1. \A v \in Threads : Launches(thr[v]) => thr[v].pc \notin Resting
      BY SMT DEF Launches, Resting, InAudit
    <3>2. QED
      BY <2>1, <3>1, ThreadKinds, SMT DEF OneLaunch, Created
  <2>10. \A v \in Threads : thr[v].pc \notin Resting => thr[v].run \in Runs
    BY DEF Typed, Local
  <2>11. /\ \A t \in Threads : thr'[t].pc \notin Resting => row'[thr'[t].run].status # "absent"
         /\ \A t \in Threads : thr'[t].pc \in Writes => thr'[t].copy.status # "absent"
    BY <2>3, <2>4, <2>5, <2>10, SMT DEF OneLaunch, Created, Writes
  <2>12. /\ \A q \in Runs : head'[q] # "none" => row'[q].status # "absent"
         /\ \A q \in Runs : thr'[q].pc # "idle" => row'[q].status # "absent"
    BY <1>1, <2>4, <2>5, <2>6, ThreadKinds, SMT DEF OneLaunch, Created
  <2>13. \A x, v \in Workers : Launches(thr'[v]) =>
            /\ thr'[thr'[v].run].pc = "idle"
            /\ Launches(thr'[x]) /\ thr'[x].run = thr'[v].run => x = v
    <3>1. \A v \in Workers : Launches(thr[v]) => thr[v].run \in Runs
      BY <2>10, ThreadKinds, SMT DEF Launches, Resting, InAudit
    <3>2. \A q \in Runs : thr'[q] = thr[q]
      BY <1>1, <2>4, ThreadKinds
    <3>3. QED
      BY <2>3, <2>4, <2>9, <3>1, <3>2, ThreadKinds, SMT DEF OneLaunch
  <2>14. QED
    BY <2>8, <2>11, <2>12, <2>13, Zenon DEF OneLaunch, Created, Launches
<1>3. CASE LaunchPayload(w)
  <2> DEFINE u == CallAudit(s, "run_created", "none", "launch_spawn")
  <2>1. u.pc = "audit_seq" /\ u.run = s.run /\ u.after = "launch_spawn"
    BY <1>1, CallFields
  <2>2. Become(w, u) /\ UNCHANGED <<row, head, events, execLock, emitLock>> /\ s.pc = "launch_payload"
    BY <1>3, Zenon DEF LaunchPayload, locks
  <2> HIDE DEF u
  <2>3. s.run \in Runs /\ Created(s.run)
    BY <1>1, <2>2, WorkingThread, SMT DEF Resting
  <2>4. u \in ThreadState
    BY <1>1, <2>2, SMT DEF Become, Typed, TypeOK
  <2>5. KeepsLocks(w, u) /\ KeepsLaunches(w, u)
    BY <1>1, <2>1, <2>2, <2>3, <2>4, SMT DEF KeepsLocks, KeepsLaunches, Exec, InLock, Launches, InAudit, Writes
  <2>6. QED
    BY <1>1, <2>2, <2>5, QuietStep, RowsUntouched, HeadsUntouched
<1>4. CASE LaunchSpawn(w)
  <2> DEFINE r == s.run
             rest == CASE s.arg = "intake" -> CallAudit(s, "intake_alert_accepted", "none", "idle")
                       [] s.arg = "replay" -> CallAudit(s, "run_replayed", "none", "idle")
                       [] OTHER -> Idle
             x == Thread("x_wait", r)
  <2>1. r \in Runs /\ Created(r) /\ s.pc = "launch_spawn"
    <3>1. s.pc = "launch_spawn"
      BY <1>4 DEF LaunchSpawn
    <3>2. QED
      BY <1>1, <3>1, WorkingThread, SMT DEF Resting
  <2>2. thr[r].pc = "idle" /\ \A v \in Workers : Launches(thr[v]) /\ thr[v].run = r => v = w
    BY <2>1, SMT DEF OneLaunch, Launches
  <2>3. /\ rest.pc \in {"idle", "audit_seq"} /\ (rest.pc = "audit_seq" => rest.run = r /\ rest.after = "idle")
    <3>1. Idle.pc = "idle"
      BY DEF Idle
    <3>2. \A a : LET c == CallAudit(s, a, "none", "idle")
                 IN  c.pc = "audit_seq" /\ c.run = r /\ c.after = "idle"
      BY <1>1, CallFields
    <3>3. QED
      BY <3>1, <3>2, SMT
  <2>4. x.pc = "x_wait" /\ x.run = r
    <3>1. "x_wait" \in PC
      BY DEF PC
    <3>2. QED
      BY <2>1, <3>1, ThreadType
  <2>5. thr' = [thr EXCEPT ![w] = rest, ![r] = x]
    BY <1>4, Zenon DEF LaunchSpawn
  <2> HIDE DEF rest, x
  <2>6. \A v \in Threads : thr'[v] = IF v = r THEN x ELSE IF v = w THEN rest ELSE thr[v]
    BY <1>1, <2>1, <2>5, SMT DEF Typed, TypeOK
  <2>7. UNCHANGED <<row, head, events, execLock, emitLock>>
    BY <1>4, Zenon DEF LaunchSpawn, tables, locks
  <2>8. SingleExecutionSlot'
    BY <1>1, <2>2, <2>4, <2>6, <2>7, ThreadKinds, SMT DEF SingleExecutionSlot, Executing, Locked
  <2>9. EmitLockHeldByEmitter' /\ EventNumberStillFree'
    BY <1>1, <2>1, <2>2, <2>3, <2>4, <2>6, <2>7, ThreadKinds,
       SMT DEF EmitLockHeldByEmitter, EventNumberStillFree, InEmit, Locked
  <2>10. \A v \in Threads : thr[v].pc \notin Resting => thr[v].run \in Runs
    BY DEF Typed, Local
  <2>11. \A t \in Threads : /\ thr'[t].pc \notin Resting => row'[thr'[t].run].status # "absent"
                            /\ thr'[t].pc \in Writes => thr'[t].copy.status # "absent"
    BY <2>1, <2>3, <2>4, <2>6, <2>7, SMT DEF OneLaunch, Created, Resting, Writes
  <2>12. \A q \in Runs : /\ head'[q] # "none" => row'[q].status # "absent"
                         /\ thr'[q].pc # "idle" => row'[q].status # "absent"
    BY <1>1, <2>1, <2>6, <2>7, ThreadKinds, SMT DEF OneLaunch, Created
  <2>13. \A v \in Workers : Launches(thr'[v]) => v # w /\ Launches(thr[v]) /\ thr'[v] = thr[v] /\ thr[v].run # r
    <3>1. \A v \in Workers : v # r
      BY <2>1, ThreadsAssumption
    <3>2. QED
      BY <2>2, <2>3, <2>6, <3>1, ThreadKinds, SMT DEF Launches, InAudit
  <2>14. \A y, v \in Workers : Launches(thr'[v]) =>
            /\ thr'[thr'[v].run].pc = "idle"
            /\ Launches(thr'[y]) /\ thr'[y].run = thr'[v].run => y = v
    <3>1. \A v \in Workers : Launches(thr[v]) => thr[v].run \in Runs
      BY <2>10, ThreadKinds, SMT DEF Launches, Resting, InAudit
    <3>2. \A q \in Runs : q # r => thr'[q] = thr[q]
      BY <1>1, <2>6, ThreadKinds
    <3>3. QED
      BY <2>13, <3>1, <3>2, SMT DEF OneLaunch, At
  <2>15. QED
    BY <2>8, <2>9, <2>11, <2>12, <2>14, Zenon DEF OneLaunch, Created, Launches, Locked
<1>5. QED
  BY <1>2, <1>3, <1>4 DEF Launch
-------------------------------------------------------------------------------
(***************************************************************************)
(* Approvals and debug replays run beside the execution and touch no lock  *)
(* outside _emit.                                                          *)
(***************************************************************************)
Beside(w) == ApCheck(w) \/ Approve(w) \/ DbStart(w) \/ Debug(w)

LEMMA BesideState ==
  ASSUME Typed, OneLaunch, NEW w \in Workers, Beside(w)
  PROVE  \E u : /\ Become(w, u)
                /\ u.pc \in ApPCs \cup {"idle", "emit", "audit_seq"}
                /\ u.pc = "audit_seq" => u.after = "idle"
                /\ u.pc # "idle" => Created(u.run)
                /\ u.pc = "ap_write" => u.copy.status = "completed"
                /\ u.pc # "idle" /\ thr[w].pc # "idle" => u.run = thr[w].run
                /\ u.pc = "emit" => DbStart(w) \/ DbEmit(w)
<1> DEFINE s == thr[w]
           Good(u) == /\ u.pc \in ApPCs \cup {"idle", "emit", "audit_seq"}
                      /\ u.pc = "audit_seq" => u.after = "idle"
                      /\ u.pc # "idle" => Created(u.run)
                      /\ u.pc = "ap_write" => u.copy.status = "completed"
                      /\ u.pc # "idle" /\ s.pc # "idle" => u.run = s.run
                      /\ u.pc = "emit" => DbStart(w) \/ DbEmit(w)
<1> USE DEF At
<1>1. w \in Threads /\ s \in ThreadState
  BY ThreadKinds DEF Typed, TypeOK
<1>2. Good(Idle)
  BY DEF Idle
<1>3. ASSUME NEW u \in ThreadState, Created(u.run), s.pc # "idle" => u.run = s.run, DbStart(w) \/ DbEmit(w),
             NEW k, NEW b
      PROVE  Good(CallEmit(u, k, b))
  BY <1>3, CallFields, SMT
<1>4. ASSUME NEW a, NEW n, Created(s.run)
      PROVE  Good(CallAudit(s, a, n, "idle"))
  BY <1>1, <1>4, CallFields, SMT
<1>5. CASE ApCheck(w)
  <2>1. PICK r \in Runs, d \in Decision : /\ row[r].status = "awaiting_approval"
                                          /\ Become(w, [Thread("ap_load", r) EXCEPT !.arg = d])
    BY <1>5 DEF ApCheck
  <2>2. /\ Thread("ap_load", r) \in ThreadState
        /\ Thread("ap_load", r).pc = "ap_load" /\ Thread("ap_load", r).run = r
    BY ThreadType, SMT DEF PC
  <2>3. [Thread("ap_load", r) EXCEPT !.arg = d].pc = "ap_load" /\ [Thread("ap_load", r) EXCEPT !.arg = d].run = r
    BY <2>2, SMT DEF ThreadState
  <2>4. Good([Thread("ap_load", r) EXCEPT !.arg = d])
    BY <1>5, <2>1, <2>3, SMT DEF ApCheck, ApPCs, Created
  <2>5. QED
    BY <2>1, <2>4
<1>6. CASE DbStart(w)
  <2>1. PICK r \in Runs : /\ row[r].status # "absent"
                          /\ Become(w, CallEmit([Thread("idle", r) EXCEPT !.left = MaxEmits], "graph", "db_body"))
    BY <1>6 DEF DbStart
  <2> DEFINE u == [Thread("idle", r) EXCEPT !.left = MaxEmits]
  <2>2. Thread("idle", r) \in ThreadState /\ Thread("idle", r).run = r
    BY ThreadType, SMT DEF PC
  <2>3. u \in ThreadState
    BY <2>2, BoundsAssumption, Zenon DEF ThreadState
  <2>4. u.run = r
    BY <2>2, SMT DEF ThreadState
  <2>5. Created(r)
    BY <2>1 DEF Created
  <2> HIDE DEF u
  <2>6. Good(CallEmit(u, "graph", "db_body"))
    BY <1>3, <1>6, <2>3, <2>4, <2>5 DEF DbStart
  <2>7. QED
    BY <2>1, <2>6 DEF u
<1>7. CASE Approve(w) \/ Debug(w)
  <2>1. s.pc \in ApPCs \cup {"db_body"}
    BY <1>7, SMT DEF Approve, ApLoad, ApResume, ApRejectEdit, ApRead, ApWrite, Debug, DbEmit, DbEnd, DbRaise, ApPCs
  <2>2. s.run \in Runs /\ Created(s.run)
    BY <1>1, <2>1, WorkingThread, SMT DEF ApPCs, Resting
  <2>3. row[s.run] \in Row
    BY <2>2 DEF Typed, TypeOK
  <2>4. CASE ApLoad(w) \/ ApResume(w)
    <3>1. /\ Good([s EXCEPT !.pc = "ap_resume", !.seen = head[s.run]])
          /\ Good([s EXCEPT !.pc = "ap_read", !.seen = "none"])
      BY <1>1, <2>2, SMT DEF ThreadState, ApPCs
    <3>2. QED
      BY <2>4, <3>1 DEF ApLoad, ApResume
  <2>5. CASE ApRejectEdit(w) \/ DbRaise(w)
    BY <1>2, <2>5 DEF ApRejectEdit, DbRaise
  <2>6. CASE ApRead(w)
    <3> DEFINE stored == [row[s.run] EXCEPT !.status = "completed", !.stage = "advised"]
    <3>1. stored.status = "completed"
      BY <2>3, SMT DEF Row
    <3>2. Become(w, Idle) \/ Become(w, [s EXCEPT !.pc = "ap_write", !.copy = stored])
      BY <2>6, Zenon DEF ApRead
    <3> HIDE DEF stored
    <3>3. Good([s EXCEPT !.pc = "ap_write", !.copy = stored])
      BY <1>1, <2>2, <3>1, SMT DEF ThreadState, ApPCs
    <3>4. QED
      BY <1>2, <3>2, <3>3
  <2>7. CASE ApWrite(w) \/ DbEnd(w)
    BY <1>4, <2>2, <2>7 DEF ApWrite, DbEnd
  <2>8. CASE DbEmit(w)
    <3>1. PICK k : s.left > 0 /\ Become(w, CallEmit([s EXCEPT !.left = @ - 1], k, "db_body"))
      BY <2>8 DEF DbEmit
    <3> DEFINE u == [s EXCEPT !.left = s.left - 1]
    <3>2. s.left - 1 \in Nat
      BY <1>1, <3>1, SMT DEF ThreadState
    <3>3. u \in ThreadState
      BY <1>1, <3>2, Zenon DEF ThreadState
    <3>4. u.run = s.run
      BY <1>1, SMT DEF ThreadState
    <3>5. Become(w, CallEmit(u, k, "db_body"))
      BY <3>1
    <3> HIDE DEF u
    <3>6. QED
      BY <1>3, <2>2, <2>8, <3>3, <3>4, <3>5
  <2>9. QED
    BY <1>7, <2>4, <2>5, <2>6, <2>7, <2>8 DEF Approve, Debug
<1>8. QED
  BY <1>5, <1>6, <1>7 DEF Beside

LEMMA BesideLocked ==
  ASSUME Typed, Typed', OneLaunch, Locked, NEW w \in Workers, Beside(w)
  PROVE  OneLaunch' /\ Locked'
<1> DEFINE s == thr[w]
<1> USE DEF At
<1>1. w \in Threads /\ w \notin Runs /\ s \in ThreadState
  BY ThreadsAssumption, ThreadKinds DEF Typed, TypeOK
<1>2. PICK u : /\ Become(w, u)
               /\ u.pc \in ApPCs \cup {"idle", "emit", "audit_seq"}
               /\ u.pc = "audit_seq" => u.after = "idle"
               /\ u.pc # "idle" => Created(u.run)
               /\ u.pc = "ap_write" => u.copy.status = "completed"
  BY BesideState
<1>3. s.pc \in ApPCs \cup {"idle", "db_body"}
  BY SMT DEF Beside, ApCheck, DbStart, Approve, ApLoad, ApResume, ApRejectEdit, ApRead, ApWrite,
     Debug, DbEmit, DbEnd, DbRaise, ApPCs
<1>4. u \in ThreadState
  BY <1>1, <1>2, SMT DEF Become, Typed, TypeOK
<1>5. KeepsLocks(w, u)
  BY <1>1, <1>2, <1>3, <1>4, SMT DEF KeepsLocks, InLock, InAudit, ApPCs
<1>6. KeepsLaunches(w, u)
  BY <1>1, <1>2, SMT DEF KeepsLaunches, Resting, Writes, Launches, InAudit, ApPCs
<1>7. RowsKept
  <2>1. CASE ApWrite(w)
    <3>1. s.pc = "ap_write" /\ UpdateRun(s.run, s.copy)
      BY <2>1 DEF ApWrite
    <3>2. s.run \in Runs /\ s.copy \in Row /\ s.copy.status # "absent"
      BY <1>1, <3>1, WorkingThread, SMT DEF Resting, Writes, ThreadState, OneLaunch
    <3>3. QED
      BY <3>1, <3>2, RowWritten
  <2>2. CASE ~ApWrite(w)
    <3>1. row' = row
      BY <2>2, Zenon DEF Beside, ApCheck, DbStart, Approve, ApLoad, ApResume, ApRejectEdit, ApRead,
         Debug, DbEmit, DbEnd, DbRaise, tables
    <3>2. QED
      BY <3>1, RowsUntouched
  <2>3. QED
    BY <2>1, <2>2
<1>8. HeadsKept
  <2>1. CASE ApResume(w) \/ DbEnd(w)
    <3>1. s.pc \in {"ap_resume", "db_body"} /\ (head' = head \/ \E h : head' = [head EXCEPT ![s.run] = h])
      BY <2>1, Zenon DEF ApResume, DbEnd
    <3>2. s.run \in Runs /\ Created(s.run)
      BY <1>1, <3>1, WorkingThread, SMT DEF Resting
    <3>3. QED
      BY <3>1, <3>2, HeadsUntouched, HeadWritten
  <2>2. CASE ~(ApResume(w) \/ DbEnd(w))
    <3>1. head' = head
      BY <2>2, Zenon DEF Beside, ApCheck, DbStart, Approve, ApLoad, ApRejectEdit, ApRead, ApWrite,
         Debug, DbEmit, DbRaise, tables
    <3>2. QED
      BY <3>1, HeadsUntouched
  <2>3. QED
    BY <2>1, <2>2
<1>9. UNCHANGED <<execLock, emitLock, events>>
  BY Zenon DEF Beside, ApCheck, DbStart, Approve, ApLoad, ApResume, ApRejectEdit, ApRead, ApWrite,
     Debug, DbEmit, DbEnd, DbRaise, tables, locks
<1>10. QED
  BY <1>1, <1>2, <1>5, <1>6, <1>7, <1>8, <1>9, QuietStep
-------------------------------------------------------------------------------
(***************************************************************************)
(* The main thread, and a crash, which frees both locks with the threads.  *)
(***************************************************************************)
LEMMA RecoverLocked ==
  ASSUME Typed, Typed', OneLaunch, Locked, RecoverNext \/ RecoverWrite \/ RecoverDone
  PROVE  OneLaunch' /\ Locked'
<1> DEFINE s == thr[Main]
<1> USE DEF At
<1>1. Main \in Threads /\ Main \notin Runs /\ Main \notin Workers /\ s \in ThreadState
  BY ThreadsAssumption, ThreadKinds DEF Typed, TypeOK
<1>2. UNCHANGED <<head, execLock, emitLock, events>> /\ s.pc \in {"boot", "recover_write"}
  BY Zenon DEF RecoverNext, RecoverWrite, RecoverDone, tables, locks
<1>3. \E u : /\ Become(Main, u) /\ u.pc \in {"recover_write", "audit_seq", "serving"}
             /\ u.pc = "audit_seq" => u.after = "boot"
             /\ u.pc # "serving" => Created(u.run)
             /\ u.pc = "recover_write" => u.copy.status # "absent"
  <2>1. CASE RecoverNext
    <3>1. PICK r \in Orphans : Become(Main, [Thread("recover_write", r) EXCEPT !.copy = [row[r] EXCEPT !.status = "failed"]])
      BY <2>1 DEF RecoverNext
    <3> DEFINE failed == [row[r] EXCEPT !.status = "failed"]
               u == [Thread("recover_write", r) EXCEPT !.copy = failed]
    <3>2. r \in Runs /\ Created(r) /\ row[r] \in Row
      BY <3>1, SMT DEF Orphans, Created, Typed, TypeOK
    <3>3. failed.status = "failed"
      BY <3>2, SMT DEF Row
    <3>4. /\ Thread("recover_write", r) \in ThreadState
          /\ Thread("recover_write", r).pc = "recover_write" /\ Thread("recover_write", r).run = r
      BY <3>2, ThreadType, SMT DEF PC
    <3>5. Become(Main, u)
      BY <3>1
    <3> HIDE DEF failed
    <3>6. u.pc = "recover_write" /\ u.run = r /\ u.copy = failed
      BY <3>4, SMT DEF ThreadState
    <3> HIDE DEF u
    <3>7. QED
      BY <3>2, <3>3, <3>5, <3>6
  <2>2. CASE RecoverWrite
    <3>1. s.run \in Runs /\ Created(s.run)
      BY <1>1, <2>2, WorkingThread, SMT DEF RecoverWrite, Resting
    <3>2. Become(Main, CallAudit(s, "run_interrupted", "none", "boot"))
      BY <2>2 DEF RecoverWrite
    <3>3. QED
      BY <1>1, <3>1, <3>2, CallFields, SMT
  <2>3. CASE RecoverDone
    <3>1. Thread("serving", NoRun).pc = "serving"
      BY ThreadType, SMT DEF PC
    <3>2. QED
      BY <2>3, <3>1 DEF RecoverDone
  <2>4. QED
    BY <2>1, <2>2, <2>3
<1>4. PICK u : /\ Become(Main, u) /\ u.pc \in {"recover_write", "audit_seq", "serving"}
               /\ u.pc = "audit_seq" => u.after = "boot"
               /\ u.pc # "serving" => Created(u.run)
               /\ u.pc = "recover_write" => u.copy.status # "absent"
  BY <1>3
<1>5. u \in ThreadState
  BY <1>1, <1>4, SMT DEF Become, Typed, TypeOK
<1>6. KeepsLocks(Main, u) /\ KeepsLaunches(Main, u)
  BY <1>1, <1>2, <1>4, <1>5, SMT DEF KeepsLocks, KeepsLaunches, InLock, InAudit, Resting, Writes
<1>7. RowsKept
  <2>1. CASE RecoverWrite
    <3>1. s.pc = "recover_write" /\ UpdateRun(s.run, s.copy)
      BY <2>1 DEF RecoverWrite
    <3>2. s.run \in Runs /\ s.copy \in Row /\ s.copy.status # "absent"
      BY <1>1, <3>1, WorkingThread, SMT DEF Resting, Writes, ThreadState, OneLaunch
    <3>3. QED
      BY <3>1, <3>2, RowWritten
  <2>2. CASE ~RecoverWrite
    <3>1. row' = row
      BY <2>2, Zenon DEF RecoverNext, RecoverDone, tables
    <3>2. QED
      BY <3>1, RowsUntouched
  <2>3. QED
    BY <2>1, <2>2
<1>8. QED
  BY <1>1, <1>2, <1>4, <1>6, <1>7, QuietStep, HeadsUntouched

\* Right after a start: no thread of a run, and both locks free.
Restart ==
    thr = [t \in Threads |-> IF t = Main THEN Booted ELSE Idle] /\ execLock = Free /\ emitLock = Free
AllRest == \A t \in Threads : thr[t].pc \in Resting /\ (t # Main => thr[t].pc = "idle")

LEMMA Restarted == Restart => Locked /\ AllRest
<1> SUFFICES ASSUME Restart PROVE Locked /\ AllRest
  OBVIOUS
<1> USE DEF Restart, AllRest
<1>1. Idle.pc = "idle" /\ Idle.after = "idle" /\ Booted.pc \in {"boot", "serving"}
  <2>1. Thread("boot", NoRun).pc = "boot" /\ Thread("serving", NoRun).pc = "serving"
    BY ThreadType, SMT DEF PC
  <2>2. QED
    BY <2>1, SMT DEF Idle, Booted
<1>2. \A t \in Threads : thr[t] = IF t = Main THEN Booted ELSE Idle
  OBVIOUS
<1>3. \A t \in Threads : thr[t].pc \in Resting /\ (t # Main => thr[t].pc = "idle") /\ t # Free
  BY <1>1, <1>2, ThreadsAssumption, SMT DEF Resting
<1>4. SingleExecutionSlot /\ EmitLockHeldByEmitter /\ EventNumberStillFree
  BY <1>3, ThreadKinds, ThreadsAssumption,
     SMT DEF SingleExecutionSlot, Executing, EmitLockHeldByEmitter, InEmit, EventNumberStillFree, At, Resting
<1>5. QED
  BY <1>3, <1>4 DEF Locked

LEMMA CrashLocked ==
  ASSUME Typed, OneLaunch, Crash
  PROVE  OneLaunch' /\ Locked'
<1>1. /\ thr' = [t \in Threads |-> IF t = Main THEN Booted ELSE Idle]
      /\ execLock' = Free /\ emitLock' = Free /\ row' = row /\ head' = head
  BY Zenon DEF Crash, tables
<1>2. Locked' /\ AllRest'
  <2>1. Restart'
    BY <1>1 DEF Restart
  <2>2. QED
    BY <2>1, Restarted, PTL
<1>3. \A r \in Runs : thr'[r].pc = "idle"
  BY <1>2, ThreadKinds, ThreadsAssumption DEF AllRest
<1>4. \A t \in Threads : ~ Launches(thr'[t]) /\ thr'[t].pc \notin Writes
  BY <1>2, SMT DEF AllRest, Resting, Launches, Writes, InAudit
<1>5. OneLaunch'
  BY <1>1, <1>2, <1>3, <1>4, ThreadKinds, Zenon DEF OneLaunch, Created, Launches, AllRest
<1>6. QED
  BY <1>2, <1>5
-------------------------------------------------------------------------------
LEMMA InitInv == Init => IInv
<1> SUFFICES ASSUME Init PROVE IInv
  OBVIOUS
<1>1. Typed
  BY InitTyped
<1>2. Restart
  BY DEF Init, Restart
<1>3. Locked /\ AllRest
  BY <1>2, Restarted
<1>4. \A t \in Threads : ~ Launches(thr[t]) /\ thr[t].pc \notin Writes
  BY <1>3, SMT DEF AllRest, Resting, Launches, Writes, InAudit
<1>5. OneLaunch
  BY <1>3, <1>4, ThreadKinds, ThreadsAssumption, Zenon DEF OneLaunch, AllRest, Init, Created
<1>6. QED
  BY <1>1, <1>3, <1>5 DEF IInv

LEMMA StutterLocked ==
  ASSUME OneLaunch, Locked, UNCHANGED vars
  PROVE  OneLaunch' /\ Locked'
<1>1. row' = row /\ head' = head /\ thr' = thr /\ events' = events /\ execLock' = execLock /\ emitLock' = emitLock
  BY DEF vars
<1>2. OneLaunch'
  BY <1>1, SMT DEF OneLaunch, Created, At
<1>3. Locked'
  BY <1>1, SMT DEF Locked, SingleExecutionSlot, Executing, EmitLockHeldByEmitter, InEmit, EventNumberStillFree, At
<1>4. QED
  BY <1>2, <1>3

LEMMA StepInv == IInv /\ [Next]_vars => IInv'
<1> SUFFICES ASSUME IInv, [Next]_vars PROVE IInv'
  OBVIOUS
<1>1. Typed /\ Typed' /\ OneLaunch /\ Locked
  BY StepTyped DEF IInv
<1>2. OneLaunch' /\ Locked'
  <2>1. ASSUME NEW r \in Runs, ExecutorStep(r) PROVE OneLaunch' /\ Locked'
    BY <1>1, <2>1, ThreadKinds, ExecuteLocked, EmitLocked, AuditLocked DEF ExecutorStep
  <2>2. ASSUME NEW w \in Workers, Request(w) \/ WorkerStep(w) PROVE OneLaunch' /\ Locked'
    BY <1>1, <2>2, ThreadKinds, LaunchLocked, BesideLocked, EmitLocked, AuditLocked
       DEF Request, WorkerStep, Beside
  <2>3. CASE Recover
    BY <1>1, <2>3, ThreadKinds, RecoverLocked, AuditLocked DEF Recover
  <2>4. CASE Crash
    BY <1>1, <2>4, CrashLocked
  <2>5. CASE Quiescent \/ UNCHANGED vars
    BY <1>1, <2>5, StutterLocked DEF Quiescent
  <2>6. QED
    BY <2>1, <2>2, <2>3, <2>4, <2>5 DEF Next
<1>3. QED
  BY <1>1, <1>2 DEF IInv

LEMMA Invariant == Spec => []IInv
  BY InitInv, StepInv, PTL DEF Spec

(***************************************************************************)
(* Executions never overlap: a run is inside _execute_locked exactly when  *)
(* it owns the execution lock, whatever raises in there and whatever the   *)
(* approval, debug and audit threads do beside it.                         *)
(***************************************************************************)
THEOREM ExecutionsExclusive == Spec => []SingleExecutionSlot
<1>1. IInv => SingleExecutionSlot
  BY DEF IInv, Locked
<1>2. QED
  BY <1>1, Invariant, PTL

(***************************************************************************)
(* The emit lock is held exactly by the thread inside _emit: no exception  *)
(* leaks it and no thread releases it for another.                         *)
(***************************************************************************)
THEOREM EmitLockOwned == Spec => []EmitLockHeldByEmitter
<1>1. IInv => EmitLockHeldByEmitter
  BY DEF IInv, Locked
<1>2. QED
  BY <1>1, Invariant, PTL

(***************************************************************************)
(* append_event is always called with the next free number, so the event   *)
(* ledger of a run is numbered 1, 2, 3, ... without a gap or a collision,  *)
(* for any number of threads that emit on it.                              *)
(***************************************************************************)
THEOREM EventNumbersFree == Spec => []EventNumberStillFree
<1>1. IInv => EventNumberStillFree
  BY DEF IInv, Locked
<1>2. QED
  BY <1>1, Invariant, PTL
-----------------------------------------------------------------------------
(***************************************************************************)
(* What the row of a run means while threads work on it: proofs for every  *)
(* set of runs and threads, every number of crashes and of debug replays.  *)
(*                                                                         *)
(* The invariant says, for the place each thread is at, which status its   *)
(* run has, what the row it is about to write back contains, and which     *)
(* artifacts and checkpoint stand behind it.  The status column, and       *)
(* nothing else, decides which threads may work on a run: an executor      *)
(* while it is queued or running, approvals once it is offered.  A replay  *)
(* follows no such rule, so all this is said of the runs never replayed;   *)
(* a thread works on one run, so what a replay does stays with its own.    *)
(***************************************************************************)

Terminal == {"complete", "error"}
Offered  == {"awaiting_approval", "completed"}
Settled  == Offered \cup {"failed"}
Stopped  == {"interrupted"} \cup Decision

\* Where the code of a thread is, or will be when _emit and _audit have returned.
Doing(s) ==
    IF s.pc \in EmitPCs \/ (s.pc \in InAudit /\ s.after = "emit_release") THEN s.back
    ELSE IF s.pc \in InAudit THEN s.after
    ELSE s.pc

\* The statuses a run has while its executor is at a place.
StatusAt(place) ==
    CASE place \in {"x_wait", "x_run"} -> {"queued"}
      [] place \in {"x_body", "x_deny", "x_store", "x_close", "x_publish", "x_failed", "x_failwrite"}
            -> {"running"}
      [] place = "x_complete" -> {"completed"}
      [] place = "x_error" -> {"failed"}
      [] place = "x_exit" -> Settled
      [] OTHER -> Status

\* A terminal event is emitted last, when the row R already says so.
Announces(s, R) ==
    /\ s.pc \in EmitPCs =>
          /\ s.kind \in Terminal <=> s.back = "x_exit"
          /\ s.kind = "complete" => R.status = "completed"
          /\ s.kind = "error" => R.status = "failed"
    /\ s.pc \in InAudit /\ s.after = "emit_release" => s.back # "x_exit" /\ s.kind \notin Terminal

Target(s) == IF s.arg = "pending" THEN "awaiting_approval" ELSE "completed"

\* The row an executor is about to write back.
CopyFits(s, R) ==
    /\ s.pc = "x_run" => s.copy.status = "running"
    /\ s.pc = "emit_stage" => s.copy.status = R.status
    /\ s.pc = "x_publish" => s.copy.status = Target(s)
    /\ s.pc = "x_failwrite" => s.copy.status = "failed"
    /\ s.pc \in {"x_run", "emit_stage", "x_publish", "x_failwrite"} => s.copy.stage # "advised"

\* The artifacts a run must have to be offered under a status.
Needed(r, status) ==
    {SourceArtifact(r), "investigation_report"}
       \cup IF status = "awaiting_approval" THEN {"response_plan"} ELSE {}

\* An executor that closes its run has stored, or still has in hand, what it needs.
Storing(r, s, h, A) ==
    /\ Doing(s) \in {"x_store", "x_close", "x_publish"} =>
          /\ s.arg = "pending" => h \in Stopped
          /\ \A x \in Needed(r, Target(s)) : x \in A \/ Has(s.todo, x)
    /\ Doing(s) \in {"idle", "x_close", "x_publish"} => s.todo = <<>>

\* What stands behind a row.
Backed(r, s, R, h, A, E) ==
    /\ R.status \in Offered => Needed(r, R.status) \subseteq A /\ s.todo = <<>>
    /\ R.status = "awaiting_approval" => h \in Stopped
    /\ R.stage = "advised" => R.status = "completed" /\ h \in Decision
    /\ Has(E, "complete") => R.status = "completed"
    /\ Has(E, "error") => R.status = "failed"

\* The executor of run r is in state s; R, h, A and E are what is stored of the run.
RunInv(r, s, R, h, A, E) ==
    /\ s.pc # "idle" => s.run = r
    /\ R.status \in StatusAt(Doing(s))
    /\ Announces(s, R)
    /\ CopyFits(s, R)
    /\ Storing(r, s, h, A)
    /\ Backed(r, s, R, h, A, E)

RunsInv == \A r \in Unreplayed : RunInv(r, thr[r], row[r], head[r], artifacts[r], events[r])

\* A request thread in state s works on a run with row R and checkpoint h.
DeskInv(s, R, h) ==
    /\ s.pc \in ApPCs => R.status \in Offered /\ h \in Stopped
    /\ s.pc = "ap_resume" => s.seen \in Stopped /\ (s.seen \in Decision => h \in Decision)
    /\ s.pc \in {"ap_read", "ap_write"} => h \in Decision
    /\ s.pc = "ap_write" => s.copy.status = "completed"
    /\ Launches(s) => R.status = "queued"

DesksInv ==
    \A w \in Workers : thr[w].pc \notin Resting /\ thr[w].run \in Unreplayed =>
        DeskInv(thr[w], row[thr[w].run], head[thr[w].run])

\* Nothing runs while the process starts, and recovery fails active runs only.
MainInv ==
    /\ ~Serving => \A t \in Runs \cup Workers : At(t, "idle")
    /\ At(Main, "recover_write") =>
          /\ row[thr[Main].run].status \in {"queued", "running"}
          /\ thr[Main].copy.status = "failed"
          /\ thr[Main].run \in Unreplayed => thr[Main].copy.stage # "advised"

Meaning == RunsInv /\ DesksInv /\ MainInv

\* Nobody else works on a run that is being launched and was not replayed, so its creation
\* record finds its number free.
LaunchAlone ==
    \A w \in Workers : Launches(thr[w]) /\ thr[w].run \in Unreplayed =>
       /\ \A v \in Threads \ {w} : thr[v].pc \notin Resting => thr[v].run # thr[w].run
       /\ At(w, "audit_append") => thr[w].seq = Len(audits[thr[w].run]) + 1

\* A run has an executor, or a request that will start it.
Owned(r) == ~At(r, "idle") \/ \E w \in Workers : Launches(thr[w]) /\ thr[w].run = r

NoOrphan ==
    RecoverAtStart /\ Serving => \A r \in Unreplayed : row[r].status \in {"queued", "running"} => Owned(r)

Sound == Meaning /\ LaunchAlone /\ NoOrphan
-------------------------------------------------------------------------------
(***************************************************************************)
(* Replays: a thread that emits for a replay works on a replayed run, and  *)
(* only a run that exists is replayed.  An executor works on its own run.  *)
(***************************************************************************)
Replays(s) == Doing(s) = "db_body"

\* Thread t is in state s, and D are the runs that were replayed.
ReplayAt(t, s, D) ==
    /\ t \in Runs /\ s.pc # "idle" => s.run = t
    /\ Replays(s) => s.run \in D

ReplayInv ==
    /\ \A t \in Threads : ReplayAt(t, thr[t], replayed)
    /\ \A r \in replayed : Created(r)

LEMMA BecomeOnly ==
  ASSUME Typed, NEW w \in Threads, NEW u, Become(w, u)
  PROVE  thr'[w] = u /\ \A v \in Threads \ {w} : thr'[v] = thr[v]
  BY SMT DEF Become, Typed, TypeOK

\* Thread t moves; another thread stays as it is, or is a new executor.
LEMMA ReplayKept ==
  ASSUME Typed, ReplayInv, NEW t \in Threads, ReplayAt(t, thr'[t], replayed'),
         \A v \in Threads \ {t} : thr'[v] = thr[v] \/ (thr'[v].pc = "x_wait" /\ thr'[v].run = v),
         RowsKept, replayed \subseteq replayed', \A r \in replayed' \ replayed : r \in Runs /\ Created(r)
  PROVE  ReplayInv'
<1>1. ASSUME NEW v \in Threads, v # t
      PROVE  ReplayAt(v, thr'[v], replayed')
  <2>1. CASE thr'[v] = thr[v]
    BY <2>1 DEF ReplayInv, ReplayAt
  <2>2. CASE thr'[v].pc = "x_wait" /\ thr'[v].run = v
    BY <2>2, SMT DEF ReplayAt, Replays, Doing, EmitPCs, InAudit
  <2>3. QED
    BY <1>1, <2>1, <2>2
<1>2. ASSUME NEW r \in replayed' PROVE Created(r)'
  <2>1. r \in Runs /\ Created(r)
    BY <1>2 DEF ReplayInv, Typed, TypeOK
  <2>2. QED
    BY <2>1 DEF RowsKept
<1>3. QED
  BY <1>1, <1>2 DEF ReplayInv

LEMMA IdleReplay == \A t, D : ReplayAt(t, Idle, D)
<1>1. Idle.pc = "idle"
  BY DEF Idle
<1>2. QED
  BY <1>1, SMT DEF ReplayAt, Replays, Doing, EmitPCs, InAudit

\* A thread at work stays on its run, and starts no replay.
LEMMA ReplayStays ==
  ASSUME ReplayInv, NEW t \in Threads, NEW u, replayed' = replayed,
         thr[t].pc # "idle", u.run = thr[t].run, Replays(u) => Replays(thr[t])
  PROVE  ReplayAt(t, u, replayed')
  BY DEF ReplayInv, ReplayAt

(***************************************************************************)
(* A step of thread t touches what is stored of run r only.                *)
(***************************************************************************)
Frame(t, r) ==
    /\ \A v \in Threads \ {t} : thr'[v] = thr[v]
    /\ \A q \in Runs \ {r} :
          /\ row'[q] = row[q] /\ head'[q] = head[q] /\ artifacts'[q] = artifacts[q]
          /\ events'[q] = events[q] /\ audits'[q] = audits[q]

LEMMA ExecutorFrame ==
  ASSUME Typed, ReplayInv, NEW r \in Runs, ExecutorStep(r)
  PROVE  Frame(r, r) /\ thr[r].pc \notin Resting /\ thr[r].run = r /\ replayed' = replayed
<1> USE DEF At
<1>1. thr[r].pc \notin Resting
  <2>1. CASE Execute(r)
    BY <2>1, SMT DEF Execute, XAcquire, XRun, XGraphStart, XEmit, XFinish, XInterrupt, XDeny, XRaise,
       XStore, XClose, XPublish, XComplete, XFailRead, XFailWrite, XError, XExit, Resting
  <2>2. CASE Emit(r)
    BY <2>2, SMT DEF Resting, Emit, EmitRead, EmitStage, EmitSeq, EmitAppend, EmitRelease
  <2>3. CASE Audit(r)
    BY <2>3, SMT DEF Resting, Audit, AuditSeq, AuditAppend, AuditCollide
  <2>4. QED
    BY <2>1, <2>2, <2>3, Zenon DEF ExecutorStep
<1>2. thr[r].run = r
  BY <1>1, ThreadKinds, SMT DEF ReplayInv, ReplayAt, Resting
<1>3. \E u : Become(r, u)
  <2>1. CASE Execute(r)
    BY <2>1, Zenon DEF Execute, XAcquire, XRun, XGraphStart, XEmit, XFinish, XInterrupt, XDeny, XRaise,
       XStore, XClose, XPublish, XComplete, XFailRead, XFailWrite, XError, XExit
  <2>2. CASE Emit(r) \/ Audit(r)
    BY <2>2, Zenon DEF Emit, EmitRead, EmitStage, EmitSeq, EmitAppend, EmitRelease,
       Audit, AuditSeq, AuditAppend, AuditCollide
  <2>3. QED
    BY <2>1, <2>2 DEF ExecutorStep
<1>4. \A v \in Threads \ {r} : thr'[v] = thr[v]
  BY <1>3, SMT DEF Become, Typed, TypeOK
<1> DEFINE Only(f, g) == f = g \/ \E x : f = [g EXCEPT ![r] = x]
<1>5. Only(row', row) /\ Only(head', head) /\ Only(artifacts', artifacts) /\ Only(events', events)
      /\ Only(audits', audits)
  <2>1. CASE Execute(r)
    <3>1. events' = events /\ audits' = audits
      BY <2>1, Zenon DEF Execute, XAcquire, XRun, XGraphStart, XEmit, XFinish, XInterrupt, XDeny, XRaise,
         XStore, XClose, XPublish, XComplete, XFailRead, XFailWrite, XError, XExit, tables
    <3>2. Only(row', row)
      BY <2>1, Zenon DEF Execute, XAcquire, XRun, XGraphStart, XEmit, XFinish, XInterrupt, XDeny, XRaise,
         XStore, XClose, XPublish, XComplete, XFailRead, XFailWrite, XError, XExit, tables, UpdateRun
    <3>3. Only(head', head)
      BY <2>1, Zenon DEF Execute, XAcquire, XRun, XGraphStart, XEmit, XFinish, XInterrupt, XDeny, XRaise,
         XStore, XClose, XPublish, XComplete, XFailRead, XFailWrite, XError, XExit, tables
    <3>4. Only(artifacts', artifacts)
      BY <2>1, Zenon DEF Execute, XAcquire, XRun, XGraphStart, XEmit, XFinish, XInterrupt, XDeny, XRaise,
         XStore, XClose, XPublish, XComplete, XFailRead, XFailWrite, XError, XExit, tables
    <3>5. QED
      BY <3>1, <3>2, <3>3, <3>4
  <2>2. CASE Emit(r)
    BY <1>2, <2>2, Zenon DEF Emit, EmitRead, EmitStage, EmitSeq, EmitAppend, EmitRelease, tables, UpdateRun
  <2>3. CASE Audit(r)
    BY <1>2, <2>3, Zenon DEF Audit, AuditSeq, AuditAppend, AuditCollide, tables
  <2>4. QED
    BY <2>1, <2>2, <2>3 DEF ExecutorStep
<1>6. \A q \in Runs \ {r} :
          /\ row'[q] = row[q] /\ head'[q] = head[q] /\ artifacts'[q] = artifacts[q]
          /\ events'[q] = events[q] /\ audits'[q] = audits[q]
  BY <1>5, SMT DEF Typed, TypeOK
<1>7. replayed' = replayed
  <2>1. CASE Execute(r)
    BY <2>1, Zenon DEF Execute, XAcquire, XRun, XGraphStart, XEmit, XFinish, XInterrupt, XDeny, XRaise,
       XStore, XClose, XPublish, XComplete, XFailRead, XFailWrite, XError, XExit, counts
  <2>2. CASE Emit(r) \/ Audit(r)
    BY <2>2, Zenon DEF Emit, EmitRead, EmitStage, EmitSeq, EmitAppend, EmitRelease,
       Audit, AuditSeq, AuditAppend, AuditCollide, counts
  <2>3. QED
    BY <2>1, <2>2 DEF ExecutorStep
<1>8. QED
  BY <1>1, <1>2, <1>4, <1>6, <1>7 DEF Frame

\* A row, once created, is written back by threads that have read it.
LEMMA RowsStay ==
  ASSUME Typed, OneLaunch, [Next]_vars
  PROVE  RowsKept
<1> USE DEF At
<1>1. ASSUME NEW t \in Threads, thr[t].pc \in Writes, UpdateRun(thr[t].run, thr[t].copy)
      PROVE  RowsKept
  <2>1. thr[t].pc \notin Resting /\ thr[t].copy.status # "absent"
    BY <1>1, SMT DEF OneLaunch, Writes, Resting
  <2>2. thr[t].run \in Runs /\ thr[t].copy \in Row
    BY <2>1, WorkingThread, SMT DEF ThreadState
  <2>3. QED
    BY <1>1, <2>1, <2>2, RowWritten
<1>2. ASSUME NEW r \in Runs, ExecutorStep(r) PROVE RowsKept
  <2>1. CASE XRun(r) \/ XPublish(r) \/ XFailWrite(r)
    <3>1. UpdateRun(r, thr[r].copy) /\ thr[r].pc \in {"x_run", "x_publish", "x_failwrite"}
      BY <2>1 DEF XRun, XPublish, XFailWrite
    <3>2. thr[r].copy \in Row /\ thr[r].copy.status # "absent"
      BY <3>1, ThreadKinds, SMT DEF OneLaunch, Writes, Typed, TypeOK, ThreadState
    <3>3. QED
      BY <3>1, <3>2, RowWritten
  <2>2. CASE EmitStage(r)
    BY <1>1, <2>2, ThreadKinds DEF EmitStage, Writes
  <2>3. CASE ~XRun(r) /\ ~XPublish(r) /\ ~XFailWrite(r) /\ Execute(r)
    BY <2>3, RowsUntouched, Zenon DEF Execute, XAcquire, XGraphStart, XEmit, XFinish, XInterrupt, XDeny, XRaise,
       XStore, XClose, XComplete, XFailRead, XError, XExit, tables
  <2>4. CASE (Emit(r) /\ ~EmitStage(r)) \/ Audit(r)
    BY <2>4, RowsUntouched, Zenon DEF Emit, EmitRead, EmitSeq, EmitAppend, EmitRelease,
       Audit, AuditSeq, AuditAppend, AuditCollide, tables
  <2>5. QED
    BY <1>2, <2>1, <2>2, <2>3, <2>4 DEF ExecutorStep
<1>3. ASSUME NEW w \in Workers, Request(w) \/ WorkerStep(w) PROVE RowsKept
  <2>1. CASE LaunchCreate(w)
    <3>1. PICK q \in Runs : UpdateRun(q, [status |-> "queued", stage |-> "queued"])
      BY <2>1 DEF LaunchCreate
    <3>2. [status |-> "queued", stage |-> "queued"] \in Row
      BY SMT DEF Row, Status, Stage
    <3>3. QED
      BY <3>1, <3>2, RowWritten
  <2>2. CASE ApWrite(w) \/ EmitStage(w)
    BY <1>1, <2>2, ThreadKinds DEF ApWrite, EmitStage, Writes
  <2>3. CASE (Request(w) /\ ~LaunchCreate(w)) \/ Launch(w) \/ (Approve(w) /\ ~ApWrite(w))
    BY <2>3, RowsUntouched, Zenon DEF Request, ApCheck, DbStart, Launch, LaunchPayload, LaunchSpawn,
       Approve, ApLoad, ApResume, ApRejectEdit, ApRead, tables
  <2>4. CASE Debug(w) \/ (Emit(w) /\ ~EmitStage(w)) \/ Audit(w)
    BY <2>4, RowsUntouched, Zenon DEF Debug, DbEmit, DbEnd, DbRaise, Emit, EmitRead, EmitSeq, EmitAppend,
       EmitRelease, Audit, AuditSeq, AuditAppend, AuditCollide, tables
  <2>5. QED
    BY <1>3, <2>1, <2>2, <2>3, <2>4 DEF WorkerStep
<1>4. CASE RecoverWrite
  BY <1>1, <1>4, ThreadKinds DEF RecoverWrite, Writes
<1>5. CASE (Recover /\ ~RecoverWrite) \/ Crash \/ Quiescent \/ UNCHANGED vars
  BY <1>5, RowsUntouched, Zenon DEF Recover, RecoverNext, RecoverDone, Audit, AuditSeq, AuditAppend, AuditCollide,
     Crash, Quiescent, vars, tables
<1>6. QED
  BY <1>2, <1>3, <1>4, <1>5 DEF Next

LEMMA ExecuteReplay ==
  ASSUME Typed, Typed', OneLaunch, ReplayInv, RowsKept, NEW r \in Runs, Execute(r)
  PROVE  ReplayInv'
<1> DEFINE s == thr[r]
<1> USE DEF At
<1>1. r \in Threads /\ s \in ThreadState /\ replayed' = replayed
      /\ Frame(r, r) /\ s.run = r
  BY ThreadKinds, ExecutorFrame DEF Typed, TypeOK, ExecutorStep
<1>2. ReplayAt(r, thr'[r], replayed')
  <2>1. CASE XAcquire(r)
    <3> DEFINE started == [row[r] EXCEPT !.status = "running", !.stage = "initializing"]
               u == [s EXCEPT !.pc = "x_run", !.copy = started]
    <3>1. Become(r, u)
      BY <2>1, Zenon DEF XAcquire
    <3> HIDE DEF started
    <3>2. u.pc = "x_run" /\ u.run = r
      BY <1>1, SMT DEF ThreadState
    <3>3. thr'[r] = u
      BY <1>1, <3>1, BecomeOnly
    <3> HIDE DEF u
    <3>4. QED
      BY <3>2, <3>3, SMT DEF ReplayAt, Replays, Doing, EmitPCs, InAudit
  <2>2. CASE XExit(r)
    <3>1. thr'[r] = Idle
      BY <1>1, <2>2, BecomeOnly DEF XExit
    <3>2. QED
      BY <3>1, IdleReplay
  <2>3. CASE ~XAcquire(r) /\ ~XExit(r)
    <3>1. PICK u : Become(r, u) /\ Within(u) /\ u.run = r
      BY <1>1, <2>3, ExecuteWithin
    <3>2. thr'[r] = u /\ Local(r, u)
      BY <1>1, <3>1, BecomeOnly DEF Typed
    <3>3. ~Replays(u)
      BY <3>1, <3>2, SMT DEF Replays, Doing, Within, Working, Local, Backs, EmitPCs, InAudit
    <3>4. QED
      BY <3>1, <3>2, <3>3 DEF ReplayAt
  <2>4. QED
    BY <2>1, <2>2, <2>3
<1>3. QED
  BY <1>1, <1>2, ReplayKept DEF Frame

(***************************************************************************)
(* _emit and _audit leave the code where it is: on the run it works on, at *)
(* the place they return to.                                               *)
(***************************************************************************)
LEMMA EmitState ==
  ASSUME Typed, NEW t \in Threads, Emit(t)
  PROVE  \E u : /\ Become(t, u) /\ u.run = thr[t].run /\ thr[t].pc \in EmitPCs
                /\ u.pc \in EmitPCs \cup {"audit_seq"} \cup Backs(t)
                /\ u.pc = "audit_seq" => u.after = "emit_release"
                /\ u.pc = "emit_stage" => u.copy.status = row[thr[t].run].status
                /\ Doing(u) = Doing(thr[t])
<1> DEFINE s == thr[t]
           Good(u) == /\ u.run = s.run
                      /\ u.pc \in EmitPCs \cup {"audit_seq"} \cup Backs(t)
                      /\ u.pc = "audit_seq" => u.after = "emit_release"
                      /\ u.pc = "emit_stage" => u.copy.status = row[s.run].status
                      /\ Doing(u) = s.back
<1> USE DEF At
<1>1. s \in ThreadState /\ Local(t, s)
  BY DEF Typed, TypeOK
<1>2. s.pc \in EmitPCs
  BY SMT DEF Emit, EmitRead, EmitStage, EmitSeq, EmitAppend, EmitRelease, EmitPCs
<1>3. s.run \in Runs /\ s.back \in Backs(t) /\ row[s.run] \in Row /\ Doing(s) = s.back
  <2>1. s.run \in Runs /\ s.back \in Backs(t)
    BY <1>1, <1>2, SMT DEF Local, EmitPCs, Resting
  <2>2. QED
    BY <1>2, <2>1 DEF Typed, TypeOK, Doing
<1>4. CASE EmitRead(t)
  <2> DEFINE stored == row[s.run]
             moved  == [stored EXCEPT !.stage = StageOf(s.kind, stored.stage)]
             next   == [s EXCEPT !.copy = moved, !.pc = IF moved = stored THEN "emit_seq" ELSE "emit_stage"]
  <2>1. moved.status = stored.status
    BY <1>3, SMT DEF Row
  <2>2. Become(t, next)
    BY <1>4, Zenon DEF EmitRead
  <2> HIDE DEF moved
  <2>3. next.pc \in {"emit_seq", "emit_stage"} /\ next.run = s.run /\ next.copy = moved /\ next.back = s.back
    BY <1>1, SMT DEF ThreadState
  <2> HIDE DEF next
  <2>4. Good(next)
    BY <2>1, <2>3, SMT DEF EmitPCs, Doing
  <2>5. QED
    BY <1>2, <1>3, <2>2, <2>4
<1>5. CASE EmitStage(t) \/ EmitSeq(t)
  <2>1. /\ Good([s EXCEPT !.pc = "emit_seq"])
        /\ Good([s EXCEPT !.pc = "emit_append", !.seq = Len(events[s.run]) + 1])
    BY <1>1, SMT DEF ThreadState, EmitPCs, Doing
  <2>2. QED
    BY <1>2, <1>3, <1>5, <2>1 DEF EmitStage, EmitSeq
<1>6. CASE EmitAppend(t)
  <2> DEFINE called == CallAudit(s, ActionOf(s.kind), "none", "emit_release")
             next   == [s EXCEPT !.pc = "emit_release"]
  <2>1. Become(t, called) \/ Become(t, next)
    BY <1>6, Zenon DEF EmitAppend
  <2>2. called.pc = "audit_seq" /\ called.after = "emit_release" /\ called.run = s.run /\ called.back = s.back
    BY <1>1, SMT DEF CallAudit, ThreadState
  <2>3. Good(next)
    BY <1>1, SMT DEF ThreadState, EmitPCs, Doing
  <2> HIDE DEF called, next
  <2>4. Good(called)
    BY <2>2, SMT DEF EmitPCs, InAudit, Doing
  <2>5. QED
    BY <1>2, <1>3, <2>1, <2>3, <2>4
<1>7. CASE EmitRelease(t)
  <2> DEFINE next == Returned(s)
  <2>1. Become(t, next)
    BY <1>7 DEF EmitRelease
  <2>2. next.pc = s.back /\ next.run = s.run
    BY <1>1, SMT DEF Returned, ThreadState
  <2>3. s.back \notin EmitPCs \cup InAudit
    BY <1>3, SMT DEF Backs, EmitPCs, InAudit
  <2> HIDE DEF next
  <2>4. Good(next)
    BY <1>3, <2>2, <2>3, SMT DEF Doing, InAudit, EmitPCs
  <2>5. QED
    BY <1>2, <1>3, <2>1, <2>4
<1>8. QED
  BY <1>4, <1>5, <1>6, <1>7 DEF Emit

LEMMA AuditState ==
  ASSUME Typed, NEW t \in Threads, Audit(t)
  PROVE  \E u : /\ Become(t, u) /\ thr[t].pc \in InAudit
                /\ \/ u = Idle
                   \/ /\ u.run = thr[t].run /\ u.pc \notin Writes
                      /\ \/ Doing(u) = Doing(thr[t])
                         \/ u.pc = "x_failed" /\ thr[t].after = "emit_release"
<1> DEFINE s == thr[t]
           Good(u) == u.run = s.run /\ u.pc \notin Writes /\ Doing(u) = Doing(s)
<1> USE DEF At
<1>1. s \in ThreadState /\ Local(t, s)
  BY DEF Typed, TypeOK
<1>2. s.pc \in InAudit
  BY SMT DEF Audit, AuditSeq, AuditAppend, AuditCollide, InAudit
<1>3. /\ s.run \in Runs /\ s.after \in Afters(t)
      /\ s.after = "emit_release" => s.back \in Backs(t)
  BY <1>1, <1>2, SMT DEF InAudit, Resting, Local
<1>4. Doing(s) = IF s.after = "emit_release" THEN s.back ELSE s.after
  BY <1>2, SMT DEF Doing, InAudit, EmitPCs
<1>5. CASE AuditSeq(t)
  <2> DEFINE next == [s EXCEPT !.pc = "audit_append", !.seq = Len(audits[s.run]) + 1]
  <2>1. next.pc = "audit_append" /\ next.run = s.run /\ next.after = s.after /\ next.back = s.back
    BY <1>1, SMT DEF ThreadState
  <2>2. Become(t, next)
    BY <1>5 DEF AuditSeq
  <2> HIDE DEF next
  <2>3. Good(next)
    BY <1>4, <2>1, SMT DEF Doing, Writes, InAudit, EmitPCs
  <2>4. QED
    BY <1>2, <2>2, <2>3
<1>6. CASE AuditAppend(t)
  <2> DEFINE next == Audited(s)
  <2>1. /\ s.after = "idle" => next = Idle
        /\ s.after # "idle" => next.pc = s.after /\ next.run = s.run /\ next.back = s.back
    BY <1>1, SMT DEF Audited, ThreadState
  <2>2. Become(t, next)
    BY <1>6 DEF AuditAppend
  <2> HIDE DEF next
  <2>3. s.after # "idle" => Good(next)
    BY <1>3, <1>4, <2>1, SMT DEF Doing, Writes, InAudit, EmitPCs, Afters
  <2>4. QED
    BY <1>2, <2>1, <2>2, <2>3
<1>7. CASE AuditCollide(t)
  <2>1. PICK u \in Unwound(s) : Become(t, u)
    BY <1>7 DEF AuditCollide
  <2>2. CASE s.after # "emit_release"
    <3>1. u = Idle
      BY <2>1, <2>2, Zenon DEF Unwound
    <3>2. QED
      BY <1>2, <2>1, <3>1
  <2>3. CASE s.after = "emit_release"
    <3> DEFINE back == Returned(s)
               out  == [back EXCEPT !.after = "idle", !.entry = Note("none", "none")]
               fail == [out EXCEPT !.pc = "x_failed"]
    <3>1. back \in ThreadState /\ back.run = s.run /\ back.pc = s.back
      <4>1. back \in ThreadState
        BY <1>1, <1>3, <2>3, ReturnedLocal DEF Local
      <4>2. QED
        BY <1>1, <4>1, SMT DEF Returned, ThreadState
    <3>2. u \in {out, fail, Idle}
      <4> HIDE DEF out, fail
      <4>1. Unwound(s) \subseteq {out, fail, Idle}
        BY <2>3, SMT DEF Unwound, out, fail
      <4>2. QED
        BY <2>1, <4>1
    <3> HIDE DEF back
    <3>3. out.pc = s.back /\ out.run = s.run /\ fail.pc = "x_failed" /\ fail.run = s.run
      BY <3>1, SMT DEF ThreadState
    <3> HIDE DEF out, fail
    <3>4. Good(out)
      BY <1>3, <1>4, <2>3, <3>3, SMT DEF Doing, Writes, InAudit, EmitPCs, Backs
    <3>5. fail.pc \notin Writes
      BY <3>3, SMT DEF Writes
    <3>6. QED
      BY <1>2, <2>1, <2>3, <3>2, <3>3, <3>4, <3>5
  <2>4. QED
    BY <2>2, <2>3
<1>8. QED
  BY <1>5, <1>6, <1>7 DEF Audit

LEMMA EmitReplay ==
  ASSUME Typed, ReplayInv, RowsKept, NEW t \in Threads, Emit(t)
  PROVE  ReplayInv'
<1>1. PICK u : Become(t, u) /\ u.run = thr[t].run /\ thr[t].pc \in EmitPCs /\ Doing(u) = Doing(thr[t])
  BY EmitState
<1>2. thr'[t] = u /\ \A v \in Threads \ {t} : thr'[v] = thr[v]
  BY <1>1, BecomeOnly
<1>3. replayed' = replayed
  BY Zenon DEF Emit, EmitRead, EmitStage, EmitSeq, EmitAppend, EmitRelease, counts
<1>4. ReplayAt(t, u, replayed')
  BY <1>1, <1>3, ReplayStays DEF Replays, EmitPCs
<1>5. QED
  BY <1>2, <1>3, <1>4, ReplayKept

LEMMA AuditReplay ==
  ASSUME Typed, ReplayInv, RowsKept, NEW t \in Threads, Audit(t)
  PROVE  ReplayInv'
<1> DEFINE s == thr[t]
<1>1. PICK u : /\ Become(t, u) /\ s.pc \in InAudit
               /\ u = Idle \/ (u.run = s.run /\ (Doing(u) = Doing(s) \/ u.pc = "x_failed"))
  BY AuditState
<1>2. thr'[t] = u /\ \A v \in Threads \ {t} : thr'[v] = thr[v]
  BY <1>1, BecomeOnly
<1>3. replayed' = replayed
  BY Zenon DEF Audit, AuditSeq, AuditAppend, AuditCollide, counts
<1>4. ReplayAt(t, u, replayed')
  <2>1. CASE u = Idle
    BY <2>1, IdleReplay
  <2>2. CASE u.run = s.run /\ (Doing(u) = Doing(s) \/ u.pc = "x_failed")
    <3>1. Replays(u) => Replays(s)
      BY <2>2, SMT DEF Replays, Doing, EmitPCs, InAudit
    <3>2. QED
      BY <1>1, <1>3, <2>2, <3>1, ReplayStays DEF InAudit
  <2>3. QED
    BY <1>1, <2>1, <2>2
<1>5. QED
  BY <1>2, <1>3, <1>4, ReplayKept

\* A launch creates the row of a run nobody used, and leaves the rest to its later steps.
LEMMA LaunchCreateState ==
  ASSUME Typed, Typed', NEW w \in Workers, LaunchCreate(w)
  PROVE  \E q \in Runs, u \in ThreadState :
            /\ row[q].status = "absent" /\ UpdateRun(q, [status |-> "queued", stage |-> "queued"])
            /\ Become(w, u) /\ thr[w].pc = "idle"
            /\ u.run = q /\ Launches(u) /\ u.pc \in {"launch_payload", "audit_seq"}
            /\ u.pc = "audit_seq" => u.after = "launch_spawn"
<1> USE DEF At
<1>1. PICK q \in Runs :
        /\ row[q].status = "absent"
        /\ \E origin \in Origins(q) :
              Become(w, IF q \in Alerts
                        THEN [Thread("launch_payload", q) EXCEPT !.arg = origin]
                        ELSE CallAudit([Thread("idle", q) EXCEPT !.arg = origin],
                                       "run_created", "none", "launch_spawn"))
        /\ UpdateRun(q, [status |-> "queued", stage |-> "queued"])
  BY DEF LaunchCreate
<1>2. PICK origin \in Origins(q) :
        Become(w, IF q \in Alerts
                  THEN [Thread("launch_payload", q) EXCEPT !.arg = origin]
                  ELSE CallAudit([Thread("idle", q) EXCEPT !.arg = origin],
                                 "run_created", "none", "launch_spawn"))
  BY <1>1
<1> DEFINE p == [Thread("launch_payload", q) EXCEPT !.arg = origin]
           a == [Thread("idle", q) EXCEPT !.arg = origin]
           c == CallAudit(a, "run_created", "none", "launch_spawn")
<1>3. /\ Thread("launch_payload", q) \in ThreadState /\ Thread("launch_payload", q).pc = "launch_payload"
      /\ Thread("launch_payload", q).run = q
      /\ Thread("idle", q) \in ThreadState /\ Thread("idle", q).run = q
  BY ThreadType, SMT DEF PC
<1>4. p.pc = "launch_payload" /\ p.run = q
  BY <1>3, SMT DEF ThreadState
<1>5. c.pc = "audit_seq" /\ c.after = "launch_spawn" /\ c.run = q
  <2>1. a \in ThreadState
    <3>1. origin \in Arg
      BY SMT DEF Origins, Arg
    <3>2. QED
      BY <1>3, <3>1, Zenon DEF ThreadState
  <2>2. a.run = q
    BY <1>3, SMT DEF ThreadState
  <2> HIDE DEF a
  <2>3. QED
    BY <2>1, <2>2, CallFields
<1>6. PICK u \in {p, c} : Become(w, u)
  BY <1>2
<1> HIDE DEF p, a, c
<1>7. u \in ThreadState
  BY <1>6, BecomeOnly, ThreadKinds DEF Typed, TypeOK
<1>8. /\ u.run = q /\ Launches(u) /\ u.pc \in {"launch_payload", "audit_seq"}
      /\ u.pc = "audit_seq" => u.after = "launch_spawn"
  BY <1>4, <1>5, <1>6, SMT DEF Launches, InAudit
<1>9. QED
  BY <1>1, <1>6, <1>7, <1>8 DEF LaunchCreate

\* The launcher starts the executor of its run, and may add an audit record.
LEMMA LaunchSpawnState ==
  ASSUME Typed, NEW w \in Workers, LaunchSpawn(w)
  PROVE  \E q \in Runs :
            /\ q = thr[w].run /\ thr[w].pc = "launch_spawn" /\ thr'[w].pc \in {"audit_seq", "idle"}
            /\ thr'[w].pc = "audit_seq" => thr'[w].after = "idle" /\ thr'[w].run = q
            /\ thr'[q].pc = "x_wait" /\ thr'[q].run = q
            /\ \A v \in Threads \ {w, q} : thr'[v] = thr[v]
<1> USE DEF At
<1> DEFINE s      == thr[w]
           q      == s.run
           intake == CallAudit(s, "intake_alert_accepted", "none", "idle")
           replay == CallAudit(s, "run_replayed", "none", "idle")
           rest   == CASE s.arg = "intake" -> intake
                       [] s.arg = "replay" -> replay
                       [] OTHER -> Idle
<1>1. w \in Threads /\ w \notin Runs /\ s \in ThreadState /\ Local(w, s)
  BY ThreadsAssumption DEF Typed, TypeOK, Threads
<1>2. thr' = [thr EXCEPT ![w] = rest, ![q] = Thread("x_wait", q)] /\ s.pc = "launch_spawn"
  BY Zenon DEF LaunchSpawn
<1>3. /\ intake.pc = "audit_seq" /\ intake.after = "idle" /\ intake.run = q
      /\ replay.pc = "audit_seq" /\ replay.after = "idle" /\ replay.run = q
  BY <1>1, CallFields
<1>4. rest.pc \in {"audit_seq", "idle"} /\ (rest.pc = "audit_seq" => rest.after = "idle" /\ rest.run = q)
  <2> HIDE DEF intake, replay
  <2>1. rest = Idle \/ rest = intake \/ rest = replay
    BY SMT
  <2> HIDE DEF rest
  <2>2. QED
    BY <1>3, <2>1 DEF Idle
<1>5. q \in Runs
  BY <1>1, <1>2, SMT DEF Local, Resting
<1> HIDE DEF rest
<1>6. /\ thr'[w] = rest /\ thr'[q] = Thread("x_wait", q)
      /\ \A v \in Threads \ {w, q} : thr'[v] = thr[v]
  BY <1>1, <1>2, <1>5, ThreadKinds, Zenon DEF Typed, TypeOK
<1>7. Thread("x_wait", q).pc = "x_wait" /\ Thread("x_wait", q).run = q
  BY <1>5, ThreadType, SMT DEF PC
<1>8. QED
  BY <1>2, <1>4, <1>5, <1>6, <1>7

LEMMA LaunchReplay ==
  ASSUME Typed, Typed', ReplayInv, RowsKept, NEW w \in Workers, LaunchCreate(w) \/ Launch(w)
  PROVE  ReplayInv'
<1> DEFINE s == thr[w]
<1> USE DEF At
<1>1. w \in Threads /\ w \notin Runs /\ s \in ThreadState /\ Local(w, s)
  BY ThreadsAssumption DEF Typed, TypeOK, Threads
<1>2. replayed' = replayed
  BY Zenon DEF LaunchCreate, Launch, LaunchPayload, LaunchSpawn, counts
<1>3. ASSUME NEW u, u.pc \in {"launch_payload", "audit_seq", "idle"},
             u.pc = "audit_seq" => u.after \in {"launch_spawn", "idle"}
      PROVE  ReplayAt(w, u, replayed')
  BY <1>1, <1>3, SMT DEF ReplayAt, Replays, Doing, EmitPCs, InAudit
<1>4. CASE LaunchCreate(w)
  <2>1. PICK q \in Runs, u \in ThreadState :
            /\ Become(w, u) /\ u.pc \in {"launch_payload", "audit_seq"}
            /\ u.pc = "audit_seq" => u.after = "launch_spawn"
    BY <1>4, LaunchCreateState
  <2>2. thr'[w] = u /\ \A v \in Threads \ {w} : thr'[v] = thr[v]
    BY <1>1, <2>1, BecomeOnly
  <2>3. QED
    BY <1>1, <1>2, <1>3, <2>1, <2>2, ReplayKept
<1>5. CASE LaunchPayload(w)
  <2> DEFINE u == CallAudit(s, "run_created", "none", "launch_spawn")
  <2>1. Become(w, u)
    BY <1>5 DEF LaunchPayload
  <2>2. u.pc = "audit_seq" /\ u.after = "launch_spawn"
    BY <1>1, CallFields
  <2>3. thr'[w] = u /\ \A v \in Threads \ {w} : thr'[v] = thr[v]
    BY <1>1, <2>1, BecomeOnly
  <2> HIDE DEF u
  <2>4. QED
    BY <1>1, <1>2, <1>3, <2>2, <2>3, ReplayKept
<1>6. CASE LaunchSpawn(w)
  <2>1. PICK q \in Runs : /\ thr'[w].pc \in {"audit_seq", "idle"}
                          /\ thr'[w].pc = "audit_seq" => thr'[w].after = "idle"
                          /\ thr'[q].pc = "x_wait" /\ thr'[q].run = q
                          /\ \A v \in Threads \ {w, q} : thr'[v] = thr[v]
    BY <1>6, LaunchSpawnState
  <2>2. \A v \in Threads \ {w} : thr'[v] = thr[v] \/ (thr'[v].pc = "x_wait" /\ thr'[v].run = v)
    BY <2>1
  <2>3. QED
    BY <1>1, <1>2, <1>3, <2>1, <2>2, ReplayKept
<1>7. QED
  BY <1>4, <1>5, <1>6 DEF Launch

LEMMA BesideReplay ==
  ASSUME Typed, OneLaunch, ReplayInv, RowsKept, NEW w \in Workers, Beside(w)
  PROVE  ReplayInv'
<1> DEFINE s == thr[w]
<1> USE DEF At
<1>1. w \in Threads /\ w \notin Runs /\ ReplayAt(w, s, replayed)
  BY ThreadsAssumption DEF Threads, ReplayInv
<1>2. PICK u : /\ Become(w, u)
               /\ u.pc \in ApPCs \cup {"idle", "emit", "audit_seq"}
               /\ u.pc = "audit_seq" => u.after = "idle"
               /\ u.pc # "idle" => Created(u.run)
               /\ u.pc # "idle" /\ s.pc # "idle" => u.run = s.run
               /\ u.pc = "emit" => DbStart(w) \/ DbEmit(w)
  BY BesideState
<1>3. thr'[w] = u /\ \A v \in Threads \ {w} : thr'[v] = thr[v]
  BY <1>1, <1>2, BecomeOnly
<1>4. CASE DbStart(w)
  <2>1. PICK r \in Runs :
           /\ Created(r) /\ replayed' = replayed \cup {r}
           /\ Become(w, CallEmit([Thread("idle", r) EXCEPT !.left = MaxEmits], "graph", "db_body"))
    BY <1>4 DEF DbStart, Created
  <2> DEFINE a == [Thread("idle", r) EXCEPT !.left = MaxEmits]
  <2>2. a \in ThreadState /\ a.run = r
    <3>1. Thread("idle", r) \in ThreadState /\ Thread("idle", r).run = r
      BY ThreadType, SMT DEF PC
    <3>2. a \in ThreadState
      BY <3>1, BoundsAssumption, Zenon DEF ThreadState
    <3>3. QED
      BY <3>1, <3>2, SMT DEF ThreadState
  <2>3. thr'[w] = CallEmit(a, "graph", "db_body")
    BY <1>1, <2>1, BecomeOnly
  <2> HIDE DEF a
  <2>4. u.run = r
    BY <1>3, <2>2, <2>3, CallFields
  <2>5. ReplayAt(w, u, replayed')
    BY <1>1, <2>1, <2>4 DEF ReplayAt
  <2>6. QED
    BY <1>1, <1>3, <2>1, <2>5, ReplayKept
<1>5. CASE ~DbStart(w)
  <2>1. replayed' = replayed
    BY <1>5, Zenon DEF Beside, ApCheck, Approve, ApLoad, ApResume, ApRejectEdit, ApRead, ApWrite,
       Debug, DbEmit, DbEnd, DbRaise, counts
  <2>2. ReplayAt(w, u, replayed')
    <3>1. CASE u.pc # "emit"
      BY <1>1, <1>2, <3>1, SMT DEF ReplayAt, Replays, Doing, EmitPCs, InAudit, ApPCs
    <3>2. CASE u.pc = "emit"
      <4>1. s.pc = "db_body"
        BY <1>2, <1>5, <3>2 DEF DbEmit
      <4>2. Replays(s) /\ u.run = s.run
        BY <1>2, <3>2, <4>1, SMT DEF Replays, Doing, EmitPCs, InAudit
      <4>3. QED
        BY <1>1, <2>1, <4>2 DEF ReplayAt
    <3>3. QED
      BY <3>1, <3>2
  <2>3. QED
    BY <1>1, <1>3, <2>1, <2>2, ReplayKept
<1>6. QED
  BY <1>4, <1>5

LEMMA RecoverReplay ==
  ASSUME Typed, ReplayInv, RowsKept, Recover
  PROVE  ReplayInv'
<1> DEFINE s == thr[Main]
<1> USE DEF At
<1>1. Main \in Threads /\ Main \notin Runs /\ s \in ThreadState
  BY ThreadKinds, ThreadsAssumption DEF Typed, TypeOK
<1>2. ASSUME NEW u, Become(Main, u), u.pc \in {"recover_write", "audit_seq", "serving"},
             u.pc = "audit_seq" => u.after = "boot", replayed' = replayed
      PROVE  ReplayInv'
  <2>1. thr'[Main] = u /\ \A v \in Threads \ {Main} : thr'[v] = thr[v]
    BY <1>1, <1>2, BecomeOnly
  <2>2. ReplayAt(Main, u, replayed')
    BY <1>1, <1>2, SMT DEF ReplayAt, Replays, Doing, EmitPCs, InAudit
  <2>3. QED
    BY <1>1, <1>2, <2>1, <2>2, ReplayKept
<1>3. CASE RecoverNext
  <2>1. PICK q \in Orphans : Become(Main, [Thread("recover_write", q) EXCEPT !.copy = [row[q] EXCEPT !.status = "failed"]])
    BY <1>3 DEF RecoverNext
  <2> DEFINE c == [row[q] EXCEPT !.status = "failed"]
             u == [Thread("recover_write", q) EXCEPT !.copy = c]
  <2>2. Thread("recover_write", q) \in ThreadState /\ Thread("recover_write", q).pc = "recover_write"
    BY ThreadType, SMT DEF PC, Orphans
  <2>3. Become(Main, u)
    BY <2>1
  <2> HIDE DEF c
  <2>4. u.pc = "recover_write"
    BY <2>2, SMT DEF ThreadState
  <2> HIDE DEF u
  <2>5. replayed' = replayed
    BY <1>3, Zenon DEF RecoverNext, counts
  <2>6. QED
    BY <1>2, <2>3, <2>4, <2>5
<1>4. CASE RecoverWrite
  <2> DEFINE u == CallAudit(s, "run_interrupted", "none", "boot")
  <2>1. Become(Main, u) /\ replayed' = replayed
    BY <1>4, Zenon DEF RecoverWrite, counts
  <2>2. u.pc = "audit_seq" /\ u.after = "boot"
    BY <1>1, CallFields
  <2> HIDE DEF u
  <2>3. QED
    BY <1>2, <2>1, <2>2
<1>5. CASE RecoverDone
  <2>1. Thread("serving", NoRun).pc = "serving"
    BY ThreadType, SMT DEF PC
  <2>2. Become(Main, Thread("serving", NoRun)) /\ replayed' = replayed
    BY <1>5, Zenon DEF RecoverDone, counts
  <2>3. QED
    BY <1>2, <2>1, <2>2
<1>6. QED
  BY <1>1, <1>3, <1>4, <1>5, AuditReplay DEF Recover

LEMMA RestReplay ==
  ASSUME NEW t, NEW s, NEW D, s.pc \in Resting, t \in Runs => s.pc = "idle"
  PROVE  ReplayAt(t, s, D)
  BY SMT DEF ReplayAt, Resting, Replays, Doing, EmitPCs, InAudit

LEMMA CrashReplay ==
  ASSUME ReplayInv, Crash
  PROVE  ReplayInv'
<1>1. Restart' /\ row' = row /\ replayed' = replayed
  BY Zenon DEF Crash, Restart, tables
<1>2. AllRest'
  <2>1. Restart'
    BY <1>1
  <2>2. QED
    BY <2>1, Restarted, PTL
<1>3. \A t \in Threads : ReplayAt(t, thr'[t], replayed')
  BY <1>2, RestReplay, ThreadsAssumption DEF AllRest
<1>4. QED
  BY <1>1, <1>3 DEF ReplayInv, Created

LEMMA InitReplay == Init => ReplayInv
<1> SUFFICES ASSUME Init PROVE ReplayInv
  OBVIOUS
<1>1. Restart /\ replayed = {}
  BY DEF Init, Restart
<1>2. AllRest
  BY <1>1, Restarted
<1>3. \A t \in Threads : ReplayAt(t, thr[t], replayed)
  BY <1>2, RestReplay, ThreadsAssumption DEF AllRest
<1>4. QED
  BY <1>1, <1>3 DEF ReplayInv

LEMMA StepReplay == IInv /\ ReplayInv /\ [Next]_vars => ReplayInv'
<1> SUFFICES ASSUME IInv, ReplayInv, [Next]_vars PROVE ReplayInv'
  OBVIOUS
<1>1. Typed /\ Typed' /\ OneLaunch /\ RowsKept
  BY StepTyped, RowsStay DEF IInv
<1>2. ASSUME NEW r \in Runs, ExecutorStep(r) PROVE ReplayInv'
  BY <1>1, <1>2, ThreadKinds, ExecuteReplay, EmitReplay, AuditReplay DEF ExecutorStep
<1>3. ASSUME NEW w \in Workers, Request(w) \/ WorkerStep(w) PROVE ReplayInv'
  BY <1>1, <1>3, ThreadKinds, LaunchReplay, BesideReplay, EmitReplay, AuditReplay DEF Request, WorkerStep, Beside
<1>4. CASE Quiescent \/ UNCHANGED vars
  <2>1. row' = row /\ thr' = thr /\ replayed' = replayed
    BY <1>4 DEF Quiescent, vars
  <2>2. QED
    BY <2>1 DEF ReplayInv, Created
<1>5. QED
  BY <1>1, <1>2, <1>3, <1>4, RecoverReplay, CrashReplay DEF Next
-------------------------------------------------------------------------------
(***************************************************************************)
(* The executor.                                                           *)
(***************************************************************************)
\* The run of an executor after a step, as it was before.
Same(r) ==
    /\ row'[r] = row[r] /\ head'[r] = head[r]
    /\ artifacts'[r] = artifacts[r] /\ events'[r] = events[r]

\* What an executor does to its own run does not disturb the approval of it.
KeepsOffer(r) == row[r].status \in Offered => row'[r].status = row[r].status /\ head'[r] = head[r]

LEMMA Fields ==
  ASSUME NEW s \in ThreadState
  PROVE  /\ \A k, b : LET c == CallEmit(s, k, b) IN
               /\ c.pc = "emit" /\ c.kind = k /\ c.back = b
               /\ c.run = s.run /\ c.arg = s.arg /\ c.todo = s.todo
         /\ \A a, n, b : LET c == CallAudit(s, a, n, b) IN
               /\ c.pc = "audit_seq" /\ c.after = b /\ c.back = s.back
               /\ c.run = s.run /\ c.arg = s.arg /\ c.todo = s.todo
  BY SMT DEF CallEmit, CallAudit, ThreadState

\* What the executor puts aside to store covers what the run needs.
LEMMA OutcomeCovers ==
  ASSUME NEW r \in Runs
  PROVE  /\ \A out \in Outcomes(r) : \A x \in Needed(r, "completed") : Has(out, x)
         /\ <<SourceArtifact(r), "investigation_report", "response_plan">> \in Outcomes(r)
         /\ r \in Alerts => \A x \in Needed(r, "awaiting_approval") :
               Has(<<"alert_payload", "response_plan", "investigation_report">>, x)
<1>1. \A x, y, z : LET q == <<x, y, z>> IN Has(q, x) /\ Has(q, y) /\ Has(q, z)
  <2> SUFFICES ASSUME NEW x, NEW y, NEW z
               PROVE  Has(<<x, y, z>>, x) /\ Has(<<x, y, z>>, y) /\ Has(<<x, y, z>>, z)
    OBVIOUS
  <2>1. /\ Len(<<x, y, z>>) = 3 /\ {1, 2, 3} \subseteq 1..3
        /\ <<x, y, z>>[1] = x /\ <<x, y, z>>[2] = y /\ <<x, y, z>>[3] = z
    BY SMT
  <2>2. QED
    BY <2>1, Zenon DEF Has
<1>2. \A x, y : LET q == <<x, y>> IN Has(q, x) /\ Has(q, y)
  <2> SUFFICES ASSUME NEW x, NEW y PROVE Has(<<x, y>>, x) /\ Has(<<x, y>>, y)
    OBVIOUS
  <2>1. /\ Len(<<x, y>>) = 2 /\ {1, 2} \subseteq 1..2
        /\ <<x, y>>[1] = x /\ <<x, y>>[2] = y
    BY SMT
  <2>2. QED
    BY <2>1, Zenon DEF Has
<1>3. /\ Needed(r, "completed") = {SourceArtifact(r), "investigation_report"}
      /\ Needed(r, "awaiting_approval") = {SourceArtifact(r), "investigation_report", "response_plan"}
  BY SMT DEF Needed
<1>4. r \in Alerts => SourceArtifact(r) = "alert_payload"
  BY DEF SourceArtifact
<1>5. ASSUME NEW out \in Outcomes(r), NEW x \in Needed(r, "completed")
      PROVE  Has(out, x)
  <2>1. x \in {SourceArtifact(r), "investigation_report"}
    BY <1>3
  <2>2. CASE out = <<SourceArtifact(r), "investigation_report">>
    BY <1>2, <2>1, <2>2
  <2>3. CASE out = <<SourceArtifact(r), "investigation_report", "response_plan">>
    BY <1>1, <2>1, <2>3
  <2>4. QED
    BY <2>2, <2>3, Zenon DEF Outcomes
<1>6. ASSUME r \in Alerts, NEW x \in Needed(r, "awaiting_approval")
      PROVE  Has(<<"alert_payload", "response_plan", "investigation_report">>, x)
  <2>1. x \in {"alert_payload", "investigation_report", "response_plan"}
    BY <1>3, <1>4, <1>6
  <2>2. QED
    BY <1>1, <2>1
<1>7. QED
  BY <1>5, <1>6, Zenon DEF Outcomes

LEMMA HasTail ==
  ASSUME NEW S, NEW q \in Seq(S), q # <<>>
  PROVE  \A x : Has(q, x) => x = Head(q) \/ Has(Tail(q), x)
<1> SUFFICES ASSUME NEW i \in 1..Len(q), i # 1
             PROVE  Has(Tail(q), q[i])
  BY HeadTailProperties, SMT DEF Has
<1>1. /\ Len(q) \in Nat /\ Len(Tail(q)) = Len(q) - 1
      /\ \A j \in 1..Len(Tail(q)) : Tail(q)[j] = q[j + 1]
  BY HeadTailProperties, LenProperties
<1>2. i - 1 \in 1..Len(Tail(q)) /\ (i - 1) + 1 = i
  BY <1>1, SMT
<1>3. Tail(q)[i - 1] = q[i]
  BY <1>1, <1>2
<1>4. QED
  BY <1>2, <1>3, Zenon DEF Has

LEMMA ExecuteMeaning ==
  ASSUME Typed, Typed', OneLaunch, RunsInv, NEW r \in Runs, r \in Unreplayed, Execute(r)
  PROVE  /\ RunInv(r, thr'[r], row'[r], head'[r], artifacts'[r], events'[r])
         /\ KeepsOffer(r)
<1> DEFINE s == thr[r]
           u == thr'[r]
           Then(v) == RunInv(r, v, row'[r], head'[r], artifacts'[r], events'[r])
<1> USE DEF At, KeepsOffer
<1>1. /\ r \in Threads /\ s \in ThreadState /\ u \in ThreadState /\ Local(r, s)
      /\ row[r] \in Row /\ row'[r] \in Row
  BY DEF Typed, TypeOK, Threads
<1>2. RunInv(r, s, row[r], head[r], artifacts[r], events[r])
  BY DEF RunsInv
<1>3. ASSUME NEW v, Become(r, v)
      PROVE  u = v
  BY <1>1, <1>3, SMT DEF Become, Typed, TypeOK
<1>4. s.pc \notin Resting /\ s.run = r
  <2>1. s.pc # "idle" /\ s.pc \notin Resting
    BY Zenon DEF Execute, XAcquire, XRun, XGraphStart, XEmit, XFinish, XInterrupt, XDeny, XRaise,
       XStore, XClose, XPublish, XComplete, XFailRead, XFailWrite, XError, XExit, Resting
  <2>2. QED
    BY <1>2, <2>1 DEF RunInv
<1>5. CASE XAcquire(r)
  <2> DEFINE started == [row[r] EXCEPT !.status = "running", !.stage = "initializing"]
             v == [s EXCEPT !.pc = "x_run", !.copy = started]
  <2>1. Become(r, v) /\ s.pc = "x_wait"
    BY <1>5 DEF XAcquire
  <2>2. started.status = "running" /\ started.stage = "initializing"
    BY <1>1, SMT DEF Row
  <2> HIDE DEF started
  <2>3. v.pc = "x_run" /\ v.copy = started /\ v.run = s.run
    BY <1>1, SMT DEF ThreadState
  <2> HIDE DEF v
  <2>4. Same(r)
    BY <1>5, Zenon DEF XAcquire, tables, Same
  <2>5. Then(v)
    BY <1>2, <1>4, <2>1, <2>2, <2>3, <2>4,
       SMT DEF RunInv, Doing, StatusAt, Announces, CopyFits, Storing, Backed, Same, EmitPCs, InAudit, Offered
  <2>6. QED
    BY <1>3, <2>1, <2>4, <2>5, Zenon DEF Same
<1>6. CASE XRun(r)
  <2> DEFINE b == [s EXCEPT !.left = MaxEmits]
             v == CallEmit(b, "run", "x_body")
  <2>1. Become(r, v) /\ s.pc = "x_run" /\ UpdateRun(r, s.copy)
    BY <1>6 DEF XRun
  <2>2. b \in ThreadState
    BY <1>1, BoundsAssumption, Zenon DEF ThreadState
  <2>3. b.run = s.run
    BY <1>1, SMT DEF ThreadState
  <2> HIDE DEF b
  <2>4. v.pc = "emit" /\ v.kind = "run" /\ v.back = "x_body" /\ v.run = s.run
    BY <2>2, <2>3, Fields
  <2> HIDE DEF v
  <2>5. row'[r] = s.copy /\ head'[r] = head[r] /\ artifacts'[r] = artifacts[r] /\ events'[r] = events[r]
    BY <1>6, <2>1, SMT DEF XRun, UpdateRun, Typed, TypeOK
  <2>6. row[r].status = "queued"
    BY <1>2, <2>1, SMT DEF RunInv, Doing, StatusAt, EmitPCs, InAudit
  <2>7. Then(v)
    BY <1>2, <1>4, <2>1, <2>4, <2>5, <2>6,
       SMT DEF RunInv, Doing, StatusAt, Announces, CopyFits, Storing, Backed, EmitPCs, InAudit, Offered, Terminal
  <2>8. QED
    BY <1>3, <2>1, <2>6, <2>7, SMT DEF Offered
<1>7. CASE XGraphStart(r)
  <2> DEFINE v == [s EXCEPT !.arg = "started"]
  <2>1. Become(r, v) /\ s.pc = "x_body" /\ row' = row /\ artifacts' = artifacts /\ events' = events
    BY <1>7, Zenon DEF XGraphStart
  <2>2. v.pc = "x_body" /\ v.run = s.run
    BY <1>1, <2>1, SMT DEF ThreadState
  <2> HIDE DEF v
  <2>3. row[r].status = "running"
    BY <1>2, <2>1, SMT DEF RunInv, Doing, StatusAt, EmitPCs, InAudit
  <2>4. Then(v)
    BY <1>2, <1>4, <2>1, <2>2, <2>3,
       SMT DEF RunInv, Doing, StatusAt, Announces, CopyFits, Storing, Backed, EmitPCs, InAudit, Offered
  <2>5. QED
    BY <1>3, <2>1, <2>3, <2>4, SMT DEF Offered
<1>8. CASE XEmit(r)
  <2>1. PICK k \in BodyKinds : s.left > 0 /\ Become(r, CallEmit([s EXCEPT !.left = @ - 1], k, "x_body"))
    BY <1>8 DEF XEmit
  <2> DEFINE b == [s EXCEPT !.left = s.left - 1]
             v == CallEmit(b, k, "x_body")
  <2>2. b \in ThreadState /\ b.run = s.run
    <3>1. s.left - 1 \in Nat
      BY <1>1, <2>1, SMT DEF ThreadState
    <3>2. b \in ThreadState
      BY <1>1, <3>1, Zenon DEF ThreadState
    <3>3. QED
      BY <1>1, <3>2, SMT DEF ThreadState
  <2>3. Become(r, v) /\ s.pc = "x_body" /\ Same(r)
    BY <1>8, <2>1, Zenon DEF XEmit, tables, Same
  <2> HIDE DEF b
  <2>4. v.pc = "emit" /\ v.kind = k /\ v.back = "x_body" /\ v.run = s.run /\ k \notin Terminal
    <3>1. k \notin Terminal
      BY BoundsAssumption DEF Terminal
    <3>2. QED
      BY <2>2, <3>1, Fields
  <2> HIDE DEF v
  <2>5. Then(v)
    BY <1>2, <1>4, <2>3, <2>4,
       SMT DEF RunInv, Doing, StatusAt, Announces, CopyFits, Storing, Backed, Same, EmitPCs, InAudit, Offered, Terminal
  <2>6. QED
    BY <1>3, <2>3, <2>5 DEF Same
<1>9. ASSUME NEW out \in Outcomes(r), Become(r, Concluded(r, out)), row[r].status = "running",
             row' = row, artifacts' = artifacts, events' = events
      PROVE  Then(u) /\ KeepsOffer(r)
  <2> DEFINE b == [s EXCEPT !.pc = "x_store", !.arg = "done", !.todo = out]
             c == CallEmit(b, "result", "x_store")
  <2>1. b \in ThreadState
    <3>1. out \in Seq(Artifact) /\ "x_store" \in PC /\ "done" \in Arg
      BY OutcomeType, SMT DEF PC, Arg
    <3>2. QED
      BY <1>1, <3>1, Zenon DEF ThreadState
  <2>2. b.pc = "x_store" /\ b.run = s.run /\ b.arg = "done" /\ b.todo = out
    BY <1>1, SMT DEF ThreadState
  <2>3. Become(r, b) \/ Become(r, c)
    BY <1>9 DEF Concluded
  <2> HIDE DEF b
  <2>4. c.pc = "emit" /\ c.kind = "result" /\ c.back = "x_store" /\ c.run = s.run /\ c.arg = "done" /\ c.todo = out
    BY <2>1, <2>2, Fields
  <2> HIDE DEF c
  <2>5. \A x \in Needed(r, "completed") : Has(out, x)
    BY OutcomeCovers
  <2>6. ASSUME NEW v, v.run = s.run, v.arg = "done", v.todo = out,
               v.pc = "x_store" \/ (v.pc = "emit" /\ v.kind = "result" /\ v.back = "x_store")
        PROVE  Then(v)
    BY <1>2, <1>4, <1>9, <2>5, <2>6,
       SMT DEF RunInv, Doing, StatusAt, Announces, CopyFits, Storing, Backed, EmitPCs, InAudit, Offered, Terminal, Target
  <2>7. Then(b) /\ Then(c)
    BY <2>2, <2>4, <2>6
  <2>8. QED
    BY <1>3, <1>9, <2>3, <2>7, SMT DEF Offered
<1>10. CASE XFinish(r) \/ XDeny(r)
  <2>1. s.pc \in {"x_body", "x_deny"} /\ row' = row /\ artifacts' = artifacts /\ events' = events
    BY <1>10, Zenon DEF XFinish, XDeny
  <2>2. row[r].status = "running"
    BY <1>2, <2>1, SMT DEF RunInv, Doing, StatusAt, EmitPCs, InAudit
  <2>3. PICK out \in Outcomes(r) : Become(r, Concluded(r, out))
    BY <1>10, OutcomeCovers, Zenon DEF XFinish, XDeny
  <2>4. QED
    BY <1>9, <2>1, <2>2, <2>3
<1>11. CASE XInterrupt(r)
  <2> DEFINE parked == <<"alert_payload", "response_plan", "investigation_report">>
             b == [s EXCEPT !.arg = "pending", !.todo = parked]
             c == CallEmit(b, "approval", "x_store")
             d == CallEmit(s, "approval", "x_deny")
  <2>1. s.pc = "x_body" /\ row' = row /\ artifacts' = artifacts /\ events' = events
    BY <1>11, Zenon DEF XInterrupt
  <2>2. row[r].status = "running"
    BY <1>2, <2>1, SMT DEF RunInv, Doing, StatusAt, EmitPCs, InAudit
  <2>3. head'[r] = "interrupted"
    BY <1>11, SMT DEF XInterrupt, Typed, TypeOK
  <2>4. (r \in Alerts /\ Become(r, c)) \/ Become(r, d)
    BY <1>11, Zenon DEF XInterrupt
  <2>5. r \in Alerts => \A x \in Needed(r, "awaiting_approval") : Has(parked, x)
    BY OutcomeCovers
  <2>6. parked \in Seq(Artifact) /\ "pending" \in Arg
    BY OutcomeType DEF Arg
  <2> HIDE DEF parked
  <2>7. b \in ThreadState
    BY <1>1, <2>6, Zenon DEF ThreadState
  <2>8. b.run = s.run /\ b.arg = "pending" /\ b.todo = parked
    BY <1>1, SMT DEF ThreadState
  <2> HIDE DEF b
  <2>9. c.pc = "emit" /\ c.kind = "approval" /\ c.back = "x_store" /\ c.run = s.run /\ c.arg = "pending" /\ c.todo = parked
    BY <2>7, <2>8, Fields
  <2>10. d.pc = "emit" /\ d.kind = "approval" /\ d.back = "x_deny" /\ d.run = s.run
    BY <1>1, Fields
  <2> HIDE DEF c, d
  <2>11. r \in Alerts => Then(c)
    BY <1>2, <1>4, <2>1, <2>2, <2>3, <2>5, <2>9,
       SMT DEF RunInv, Doing, StatusAt, Announces, CopyFits, Storing, Backed, EmitPCs, InAudit, Offered, Terminal, Target, Stopped
  <2>12. Then(d)
    BY <1>2, <1>4, <2>1, <2>2, <2>3, <2>10,
       SMT DEF RunInv, Doing, StatusAt, Announces, CopyFits, Storing, Backed, EmitPCs, InAudit, Offered, Terminal
  <2>13. QED
    BY <1>3, <2>2, <2>4, <2>11, <2>12, SMT DEF Offered
<1>12. CASE XRaise(r)
  <2> DEFINE v == [s EXCEPT !.pc = "x_failed"]
  <2>1. Become(r, v) /\ s.pc \in {"x_body", "x_deny"} /\ Same(r)
    BY <1>12, Zenon DEF XRaise, tables, Same
  <2>2. v.pc = "x_failed" /\ v.run = s.run
    BY <1>1, SMT DEF ThreadState
  <2> HIDE DEF v
  <2>3. Then(v)
    BY <1>2, <1>4, <2>1, <2>2,
       SMT DEF RunInv, Doing, StatusAt, Announces, CopyFits, Storing, Backed, Same, EmitPCs, InAudit, Offered
  <2>4. QED
    BY <1>3, <2>1, <2>3 DEF Same
<1>13. CASE XStore(r)
  <2>1. s.pc = "x_store" /\ row' = row /\ events' = events /\ head' = head /\ row[r].status = "running"
    <3>1. s.pc = "x_store" /\ row' = row /\ events' = events /\ head' = head
      BY <1>13, Zenon DEF XStore
    <3>2. QED
      BY <1>2, <3>1, SMT DEF RunInv, Doing, StatusAt, EmitPCs, InAudit
  <2>2. CASE s.todo = <<>>
    <3> DEFINE v == [s EXCEPT !.pc = "x_close"]
    <3>1. Become(r, v) /\ artifacts' = artifacts
      BY <1>13, <2>2 DEF XStore
    <3>2. v.pc = "x_close" /\ v.run = s.run /\ v.arg = s.arg /\ v.todo = s.todo
      BY <1>1, SMT DEF ThreadState
    <3> HIDE DEF v
    <3>3. Then(v)
      BY <1>2, <1>4, <2>1, <2>2, <3>1, <3>2,
         SMT DEF RunInv, Doing, StatusAt, Announces, CopyFits, Storing, Backed, EmitPCs, InAudit, Offered, Target
    <3>4. QED
      BY <1>3, <2>1, <3>1, <3>3
  <2>3. CASE s.todo # <<>>
    <3> DEFINE v == [s EXCEPT !.todo = Tail(s.todo)]
    <3>1. Become(r, v) /\ artifacts' = [artifacts EXCEPT ![r] = @ \cup {Head(s.todo)}]
      BY <1>13, <2>3 DEF XStore
    <3>2. v.pc = s.pc /\ v.run = s.run /\ v.arg = s.arg /\ v.todo = Tail(s.todo)
      BY <1>1, SMT DEF ThreadState
    <3> HIDE DEF v
    <3>3. artifacts'[r] = artifacts[r] \cup {Head(s.todo)}
      BY <3>1, SMT DEF Typed, TypeOK
    <3>4. \A x : Has(s.todo, x) => x = Head(s.todo) \/ Has(Tail(s.todo), x)
      <4>1. s.todo \in Seq(Artifact)
        BY <1>1, Zenon DEF ThreadState
      <4>2. QED
        BY <2>3, <4>1, HasTail
    <3>5. Then(v)
      BY <1>2, <1>4, <2>1, <3>2, <3>3, <3>4,
         SMT DEF RunInv, Doing, StatusAt, Announces, CopyFits, Storing, Backed, EmitPCs, InAudit, Offered, Target
    <3>6. QED
      BY <1>3, <2>1, <3>1, <3>5
  <2>4. QED
    BY <2>2, <2>3
<1>14. CASE XClose(r)
  <2> DEFINE parked == [row[r] EXCEPT !.status = "awaiting_approval", !.stage = "approval"]
             closed == [row[r] EXCEPT !.status = "completed", !.stage = "published"]
             copied == IF s.arg = "pending" THEN parked ELSE closed
             v == [s EXCEPT !.pc = "x_publish", !.copy = copied]
  <2>1. Become(r, v) /\ s.pc = "x_close" /\ Same(r)
    BY <1>14, Zenon DEF XClose, tables, Same
  <2>2. copied.status = Target(s) /\ copied.stage # "advised"
    <3>1. /\ parked.status = "awaiting_approval" /\ parked.stage = "approval"
          /\ closed.status = "completed" /\ closed.stage = "published"
      BY <1>1, SMT DEF Row
    <3> HIDE DEF parked, closed
    <3>2. QED
      BY <3>1 DEF Target
  <2> HIDE DEF copied
  <2>3. v.pc = "x_publish" /\ v.run = s.run /\ v.arg = s.arg /\ v.todo = s.todo /\ v.copy = copied
    BY <1>1, SMT DEF ThreadState
  <2> HIDE DEF v
  <2>4. Then(v)
    BY <1>2, <1>4, <2>1, <2>2, <2>3,
       SMT DEF RunInv, Doing, StatusAt, Announces, CopyFits, Storing, Backed, Same, EmitPCs, InAudit, Offered, Target
  <2>5. QED
    BY <1>3, <2>1, <2>4 DEF Same
<1>15. CASE XPublish(r)
  <2> DEFINE c == CallAudit(s, "approval_requested", "none", "x_exit")
             d == CallAudit(s, "run_completed", "none", "x_complete")
  <2>1. s.pc = "x_publish" /\ UpdateRun(r, s.copy) /\ Become(r, IF s.arg = "pending" THEN c ELSE d)
    BY <1>15 DEF XPublish
  <2>2. row'[r] = s.copy /\ head'[r] = head[r] /\ artifacts'[r] = artifacts[r] /\ events'[r] = events[r]
    BY <1>15, <2>1, SMT DEF XPublish, UpdateRun, Typed, TypeOK
  <2>3. /\ c.pc = "audit_seq" /\ c.after = "x_exit" /\ c.run = s.run /\ c.arg = s.arg /\ c.todo = s.todo
        /\ d.pc = "audit_seq" /\ d.after = "x_complete" /\ d.run = s.run /\ d.arg = s.arg /\ d.todo = s.todo
    BY <1>1, Fields
  <2>4. row[r].status = "running"
    BY <1>2, <2>1, SMT DEF RunInv, Doing, StatusAt, EmitPCs, InAudit
  <2> HIDE DEF c, d
  <2>5. s.todo = <<>> /\ \A x \in Needed(r, Target(s)) : x \in artifacts[r]
    <3>1. s.todo = <<>>
      BY <1>2, <2>1, SMT DEF RunInv, Storing, Doing, EmitPCs, InAudit
    <3>2. \A x : ~ Has(s.todo, x)
      BY <3>1, SMT DEF Has
    <3>3. QED
      BY <1>2, <2>1, <3>1, <3>2, SMT DEF RunInv, Storing, Doing, EmitPCs, InAudit
  <2>6. s.arg = "pending" => Then(c)
    BY <1>2, <1>4, <2>1, <2>2, <2>3, <2>4, <2>5,
       SMT DEF RunInv, Doing, StatusAt, Announces, CopyFits, Storing, Backed, EmitPCs, InAudit, Offered, Target, Settled
  <2>7. s.arg # "pending" => Then(d)
    BY <1>2, <1>4, <2>1, <2>2, <2>3, <2>4, <2>5,
       SMT DEF RunInv, Doing, StatusAt, Announces, CopyFits, Storing, Backed, EmitPCs, InAudit, Offered, Target, Settled
  <2>8. QED
    BY <1>3, <2>1, <2>4, <2>6, <2>7, SMT DEF Offered
<1>16. CASE XComplete(r) \/ XError(r)
  <2>1. PICK k \in Terminal : /\ Become(r, CallEmit(s, k, "x_exit"))
                              /\ (s.pc = "x_complete" /\ k = "complete") \/ (s.pc = "x_error" /\ k = "error")
    BY <1>16, Zenon DEF XComplete, XError, Terminal
  <2> DEFINE v == CallEmit(s, k, "x_exit")
  <2>2. v.pc = "emit" /\ v.kind = k /\ v.back = "x_exit" /\ v.run = s.run /\ v.todo = s.todo
    BY <1>1, Fields
  <2>3. Same(r)
    BY <1>16, Zenon DEF XComplete, XError, tables, Same
  <2> HIDE DEF v
  <2>4. Then(v)
    BY <1>2, <1>4, <2>1, <2>2, <2>3,
       SMT DEF RunInv, Doing, StatusAt, Announces, CopyFits, Storing, Backed, Same, EmitPCs, InAudit, Offered, Settled, Terminal
  <2>5. QED
    BY <1>3, <2>1, <2>3, <2>4 DEF v, Same
<1>17. CASE XFailRead(r)
  <2> DEFINE failed == [row[r] EXCEPT !.status = "failed"]
             v == [s EXCEPT !.pc = "x_failwrite", !.copy = failed]
  <2>1. Become(r, v) /\ s.pc = "x_failed" /\ Same(r)
    BY <1>17, Zenon DEF XFailRead, tables, Same
  <2>2. failed.status = "failed" /\ failed.stage = row[r].stage
    BY <1>1, SMT DEF Row
  <2> HIDE DEF failed
  <2>3. v.pc = "x_failwrite" /\ v.run = s.run /\ v.copy = failed
    BY <1>1, SMT DEF ThreadState
  <2> HIDE DEF v
  <2>4. Then(v)
    BY <1>2, <1>4, <2>1, <2>2, <2>3,
       SMT DEF RunInv, Doing, StatusAt, Announces, CopyFits, Storing, Backed, Same, EmitPCs, InAudit, Offered
  <2>5. QED
    BY <1>3, <2>1, <2>4 DEF Same
<1>18. CASE XFailWrite(r)
  <2> DEFINE v == CallAudit(s, "run_failed", "none", "x_error")
  <2>1. s.pc = "x_failwrite" /\ UpdateRun(r, s.copy) /\ Become(r, v)
    BY <1>18 DEF XFailWrite
  <2>2. row'[r] = s.copy /\ head'[r] = head[r] /\ artifacts'[r] = artifacts[r] /\ events'[r] = events[r]
    BY <1>18, <2>1, SMT DEF XFailWrite, UpdateRun, Typed, TypeOK
  <2>3. v.pc = "audit_seq" /\ v.after = "x_error" /\ v.run = s.run
    BY <1>1, Fields
  <2> HIDE DEF v
  <2>4. row[r].status = "running"
    BY <1>2, <2>1, SMT DEF RunInv, Doing, StatusAt, EmitPCs, InAudit
  <2>5. Then(v)
    BY <1>2, <1>4, <2>1, <2>2, <2>3, <2>4,
       SMT DEF RunInv, Doing, StatusAt, Announces, CopyFits, Storing, Backed, EmitPCs, InAudit, Offered
  <2>6. QED
    BY <1>3, <2>1, <2>4, <2>5, SMT DEF Offered
<1>19. CASE XExit(r)
  <2>1. Become(r, Idle) /\ s.pc = "x_exit" /\ Same(r)
    BY <1>19, Zenon DEF XExit, tables, Same
  <2>2. Idle.pc = "idle" /\ Idle.todo = <<>>
    BY DEF Idle
  <2>3. Then(Idle)
    BY <1>1, <1>2, <2>1, <2>2,
       SMT DEF RunInv, Doing, StatusAt, Announces, CopyFits, Storing, Backed, Same, EmitPCs, InAudit, Offered, Settled, Row
  <2>4. QED
    BY <1>3, <2>1, <2>3 DEF Same
<1>20. QED
  BY <1>5, <1>6, <1>7, <1>8, <1>10, <1>11, <1>12, <1>13, <1>14, <1>15, <1>16, <1>17, <1>18, <1>19 DEF Execute

(***************************************************************************)
(* The executor inside _emit and _audit.                                   *)
(***************************************************************************)
LEMMA HasAppend ==
  ASSUME NEW S, NEW q \in Seq(S), NEW x \in S
  PROVE  \A y : Has(Append(q, x), y) => y = x \/ Has(q, y)
<1>1. /\ Len(q) \in Nat /\ Len(Append(q, x)) = Len(q) + 1
      /\ \A i \in 1..Len(q) : Append(q, x)[i] = q[i]
      /\ Append(q, x)[Len(q) + 1] = x
  BY AppendProperties, LenProperties
<1>2. \A i \in 1..Len(q) + 1 : i \in 1..Len(q) \/ i = Len(q) + 1
  BY <1>1, SMT
<1>3. QED
  BY <1>1, <1>2, Zenon DEF Has

LEMMA StageMoved ==
  ASSUME NEW k, NEW stage, StageOf(k, stage) = "advised"
  PROVE  StageOf(k, stage) = stage
  BY SMT DEF StageOf

LEMMA EmitMeaning ==
  ASSUME Typed, Typed', OneLaunch, RunsInv, NEW r \in Runs, r \in Unreplayed, Emit(r)
  PROVE  /\ RunInv(r, thr'[r], row'[r], head'[r], artifacts'[r], events'[r])
         /\ KeepsOffer(r)
<1> DEFINE s == thr[r]
           u == thr'[r]
           Then(v) == RunInv(r, v, row'[r], head'[r], artifacts'[r], events'[r])
<1> USE DEF At, KeepsOffer
<1>1. /\ r \in Threads /\ s \in ThreadState /\ u \in ThreadState /\ Local(r, s)
      /\ row[r] \in Row /\ row'[r] \in Row
  BY DEF Typed, TypeOK, Threads
<1>2. RunInv(r, s, row[r], head[r], artifacts[r], events[r])
  BY DEF RunsInv
<1>3. ASSUME NEW v, Become(r, v)
      PROVE  u = v
  BY <1>1, <1>3, SMT DEF Become, Typed, TypeOK
<1>4. s.pc \in EmitPCs /\ s.run = r /\ s.back \in {"x_body", "x_deny", "x_store", "x_exit"}
  <2>1. s.pc \in EmitPCs /\ s.pc # "idle"
    BY SMT DEF Emit, EmitRead, EmitStage, EmitSeq, EmitAppend, EmitRelease, EmitPCs
  <2>2. QED
    BY <1>1, <1>2, <2>1, SMT DEF RunInv, Local, Backs
<1>5. CASE EmitRead(r)
  <2> DEFINE stored == row[r]
             moved  == [stored EXCEPT !.stage = StageOf(s.kind, stored.stage)]
             v == [s EXCEPT !.copy = moved, !.pc = IF moved = stored THEN "emit_seq" ELSE "emit_stage"]
  <2>1. Become(r, v)
    BY <1>4, <1>5, Zenon DEF EmitRead
  <2>2. Same(r) /\ s.pc = "emit"
    BY <1>5, Zenon DEF EmitRead, tables, Same
  <2>3. moved.status = row[r].status /\ (moved # stored => moved.stage # "advised")
    <3>1. moved.status = stored.status /\ moved.stage = StageOf(s.kind, stored.stage)
      BY <1>1, SMT DEF Row
    <3>2. moved.stage = "advised" => moved.stage = stored.stage
      BY <3>1, StageMoved
    <3>3. moved.stage = stored.stage => moved = stored
      BY <1>1, <3>1, SMT DEF Row
    <3>4. QED
      BY <3>1, <3>2, <3>3
  <2> HIDE DEF moved
  <2>4. /\ v.pc = IF moved = stored THEN "emit_seq" ELSE "emit_stage"
        /\ v.copy = moved /\ v.run = s.run /\ v.kind = s.kind /\ v.back = s.back
        /\ v.arg = s.arg /\ v.todo = s.todo
    BY <1>1, SMT DEF ThreadState
  <2> HIDE DEF v
  <2>5. Then(v)
    BY <1>2, <1>4, <2>2, <2>3, <2>4,
       SMT DEF RunInv, Doing, StatusAt, Announces, CopyFits, Storing, Backed, Same, EmitPCs, InAudit, Target
  <2>6. QED
    BY <1>3, <2>1, <2>2, <2>5 DEF Same
<1>6. CASE EmitStage(r)
  <2> DEFINE v == [s EXCEPT !.pc = "emit_seq"]
  <2>1. Become(r, v) /\ s.pc = "emit_stage" /\ UpdateRun(r, s.copy)
    BY <1>4, <1>6 DEF EmitStage
  <2>2. v.pc = "emit_seq" /\ v.run = s.run /\ v.kind = s.kind /\ v.back = s.back /\ v.arg = s.arg /\ v.todo = s.todo
    BY <1>1, SMT DEF ThreadState
  <2> HIDE DEF v
  <2>3. row'[r] = s.copy /\ head'[r] = head[r] /\ artifacts'[r] = artifacts[r] /\ events'[r] = events[r]
    BY <1>6, <2>1, SMT DEF EmitStage, UpdateRun, Typed, TypeOK
  <2>4. Then(v)
    BY <1>2, <1>4, <2>1, <2>2, <2>3,
       SMT DEF RunInv, Doing, StatusAt, Announces, CopyFits, Storing, Backed, EmitPCs, InAudit, Target
  <2>5. row'[r].status = row[r].status
    BY <1>2, <2>1, <2>3 DEF RunInv, CopyFits
  <2>6. QED
    BY <1>3, <2>1, <2>3, <2>4, <2>5
<1>7. CASE EmitSeq(r)
  <2> DEFINE v == [s EXCEPT !.pc = "emit_append", !.seq = Len(events[s.run]) + 1]
  <2>1. Become(r, v)
    BY <1>7, Zenon DEF EmitSeq
  <2>2. Same(r)
    BY <1>7, Zenon DEF EmitSeq, tables, Same
  <2>3. v.pc = "emit_append" /\ v.run = s.run /\ v.kind = s.kind /\ v.back = s.back /\ v.arg = s.arg /\ v.todo = s.todo
    BY <1>1, SMT DEF ThreadState
  <2> HIDE DEF v
  <2>4. Then(v)
    BY <1>2, <1>4, <2>2, <2>3,
       SMT DEF RunInv, Doing, StatusAt, Announces, CopyFits, Storing, Backed, Same, EmitPCs, InAudit, Target
  <2>5. QED
    BY <1>3, <2>1, <2>2, <2>4 DEF Same
<1>8. CASE EmitAppend(r)
  <2> DEFINE c == CallAudit(s, ActionOf(s.kind), "none", "emit_release")
             v == [s EXCEPT !.pc = "emit_release"]
  <2>1. Become(r, IF s.kind \in AuditedKinds THEN c ELSE v)
    BY <1>8 DEF EmitAppend
  <2>2. row' = row /\ head' = head /\ artifacts' = artifacts /\ events' = [events EXCEPT ![r] = Append(@, s.kind)]
    BY <1>4, <1>8, Zenon DEF EmitAppend
  <2>3. s.kind \in Kind /\ s.pc = "emit_append"
    BY <1>1, <1>8, SMT DEF EmitAppend, Local, EmitPCs
  <2>4. \A y : Has(events'[r], y) => y = s.kind \/ Has(events[r], y)
    <3>1. events[r] \in Seq(Kind) /\ events'[r] = Append(events[r], s.kind)
      BY <2>2, SMT DEF Typed, TypeOK
    <3>2. QED
      BY <2>3, <3>1, HasAppend
  <2>5. /\ c.pc = "audit_seq" /\ c.after = "emit_release" /\ c.back = s.back /\ c.run = s.run
        /\ c.arg = s.arg /\ c.todo = s.todo /\ c.kind = s.kind
    BY <1>1, Fields, SMT DEF CallAudit, ThreadState
  <2> HIDE DEF c
  <2>6. /\ v.pc = "emit_release" /\ v.back = s.back /\ v.run = s.run
        /\ v.arg = s.arg /\ v.todo = s.todo /\ v.kind = s.kind
    BY <1>1, SMT DEF ThreadState
  <2> HIDE DEF v
  <2>7. s.kind \in AuditedKinds => s.kind \notin Terminal
    BY SMT DEF AuditedKinds, Terminal
  <2>8. Backed(r, s, row'[r], head'[r], artifacts'[r], events'[r])
    BY <1>2, <1>4, <2>2, <2>4 DEF RunInv, Backed, Announces
  <2>9. s.kind \in AuditedKinds => Then(c)
    BY <1>2, <1>4, <2>2, <2>3, <2>5, <2>7, <2>8,
       SMT DEF RunInv, Doing, StatusAt, Announces, CopyFits, Storing, Backed, EmitPCs, InAudit, Target
  <2>10. Then(v)
    BY <1>2, <1>4, <2>2, <2>3, <2>6, <2>8,
       SMT DEF RunInv, Doing, StatusAt, Announces, CopyFits, Storing, Backed, EmitPCs, InAudit, Target
  <2>11. QED
    BY <1>3, <2>1, <2>2, <2>9, <2>10
<1>9. CASE EmitRelease(r)
  <2> DEFINE v == Returned(s)
  <2>1. Become(r, v) /\ s.pc = "emit_release"
    BY <1>9 DEF EmitRelease
  <2>2. Same(r)
    BY <1>9, Zenon DEF EmitRelease, tables, Same
  <2>3. v.pc = s.back /\ v.run = s.run /\ v.arg = s.arg /\ v.todo = s.todo
    BY <1>1, SMT DEF Returned, ThreadState
  <2> HIDE DEF v
  <2>4. Then(v)
    BY <1>2, <1>4, <2>1, <2>2, <2>3,
       SMT DEF RunInv, Doing, StatusAt, Announces, CopyFits, Storing, Backed, Same, EmitPCs, InAudit, Target
  <2>5. QED
    BY <1>3, <2>1, <2>2, <2>4 DEF Same
<1>10. QED
  BY <1>5, <1>6, <1>7, <1>8, <1>9 DEF Emit

LEMMA AuditMeaning ==
  ASSUME Typed, Typed', OneLaunch, RunsInv, NEW r \in Runs, r \in Unreplayed, Audit(r)
  PROVE  /\ RunInv(r, thr'[r], row'[r], head'[r], artifacts'[r], events'[r])
         /\ Same(r)
<1> DEFINE s == thr[r]
           u == thr'[r]
           Then(v) == RunInv(r, v, row'[r], head'[r], artifacts'[r], events'[r])
<1> USE DEF At
<1>1. r \in Threads /\ s \in ThreadState /\ Local(r, s) /\ row[r] \in Row
  BY DEF Typed, TypeOK, Threads
<1>2. RunInv(r, s, row[r], head[r], artifacts[r], events[r])
  BY DEF RunsInv
<1>3. ASSUME NEW v, Become(r, v)
      PROVE  u = v
  BY <1>1, <1>3, SMT DEF Become, Typed, TypeOK
<1>4. /\ s.pc \in InAudit /\ s.run = r
      /\ s.after \in {"emit_release", "x_exit", "x_complete", "x_error"}
      /\ s.after = "emit_release" => s.back \in {"x_body", "x_deny", "x_store"}
  <2>1. s.pc \in InAudit /\ s.pc # "idle"
    BY SMT DEF Audit, AuditSeq, AuditAppend, AuditCollide, InAudit
  <2>2. QED
    BY <1>1, <1>2, <2>1, SMT DEF RunInv, Local, Backs, Afters, Announces
<1>5. Same(r)
  BY Zenon DEF Audit, AuditSeq, AuditAppend, AuditCollide, tables, Same
<1>6. Idle.pc = "idle" /\ Idle.todo = <<>>
  BY DEF Idle
<1>7. CASE AuditSeq(r)
  <2> DEFINE v == [s EXCEPT !.pc = "audit_append", !.seq = Len(audits[s.run]) + 1]
  <2>1. Become(r, v)
    BY <1>7, Zenon DEF AuditSeq
  <2>2. /\ v.pc = "audit_append" /\ v.after = s.after /\ v.run = s.run /\ v.kind = s.kind /\ v.back = s.back
        /\ v.arg = s.arg /\ v.todo = s.todo
    BY <1>1, SMT DEF ThreadState
  <2> HIDE DEF v
  <2>3. Then(v)
    BY <1>2, <1>4, <1>5, <2>2,
       SMT DEF RunInv, Doing, StatusAt, Announces, CopyFits, Storing, Backed, Same, EmitPCs, InAudit, Target
  <2>4. QED
    BY <1>3, <1>5, <2>1, <2>3
<1>8. CASE AuditAppend(r)
  <2> DEFINE v == Audited(s)
  <2>1. Become(r, v)
    BY <1>8 DEF AuditAppend
  <2>2. /\ v.pc = s.after /\ v.run = s.run /\ v.kind = s.kind /\ v.back = s.back
        /\ v.arg = s.arg /\ v.todo = s.todo
    BY <1>1, <1>4, SMT DEF Audited, ThreadState
  <2> HIDE DEF v
  <2>3. Doing(v) = Doing(s) /\ Doing(s) \in {"x_body", "x_deny", "x_store", "x_exit", "x_complete", "x_error"}
    BY <1>4, <2>2, SMT DEF Doing, EmitPCs, InAudit
  <2>4. v.pc \in {"emit_release", "x_exit", "x_complete", "x_error"}
    BY <1>4, <2>2
  <2>5. Backed(r, v, row'[r], head'[r], artifacts'[r], events'[r])
    BY <1>2, <1>5, <2>2, Zenon DEF RunInv, Backed, Same
  <2>6. Storing(r, v, head'[r], artifacts'[r])
    BY <1>2, <1>5, <2>2, <2>3, SMT DEF RunInv, Storing, Same, Target
  <2>7. Announces(v, row'[r]) /\ CopyFits(v, row'[r])
    BY <1>2, <1>4, <1>5, <2>2, SMT DEF RunInv, Announces, CopyFits, Same, EmitPCs, InAudit, Terminal
  <2>8. Then(v)
    BY <1>2, <1>4, <1>5, <2>2, <2>3, <2>5, <2>6, <2>7, Zenon DEF RunInv, Same
  <2>9. QED
    BY <1>3, <1>5, <2>1, <2>8
<1>9. CASE AuditCollide(r)
  <2>1. PICK v \in Unwound(s) : Become(r, v)
    BY <1>9 DEF AuditCollide
  <2>2. v = Idle \/ (s.after = "emit_release" /\ v.run = s.run /\ v.pc \in {s.back, "x_failed"}
                       /\ v.arg = s.arg /\ v.todo = s.todo /\ v.pc \in {"x_body", "x_failed"})
    <3> DEFINE back == Returned(s)
               out  == [back EXCEPT !.after = "idle", !.entry = Note("none", "none")]
               fail == [out EXCEPT !.pc = "x_failed"]
    <3>1. CASE s.after # "emit_release"
      BY <2>1, <3>1, Zenon DEF Unwound
    <3>2. CASE s.after = "emit_release"
      <4>1. back \in ThreadState /\ back.run = s.run /\ back.pc = s.back /\ back.arg = s.arg /\ back.todo = s.todo
        <5>1. back \in ThreadState
          BY <1>1, <1>4, <3>2, ReturnedLocal, SMT DEF Local, Backs
        <5>2. QED
          BY <1>1, <5>1, SMT DEF Returned, ThreadState
      <4>2. v = fail \/ (v = out /\ s.back = "x_body")
        <5> HIDE DEF out, fail
        <5>1. Unwound(s) \subseteq IF s.back = "x_body" THEN {out, fail} ELSE {fail}
          BY <1>4, <3>2, SMT DEF Unwound, out, fail
        <5>2. QED
          BY <2>1, <5>1
      <4> HIDE DEF back
      <4>3. /\ out.pc = s.back /\ out.run = s.run /\ out.arg = s.arg /\ out.todo = s.todo
            /\ fail.pc = "x_failed" /\ fail.run = s.run /\ fail.arg = s.arg /\ fail.todo = s.todo
        BY <4>1, SMT DEF ThreadState
      <4> HIDE DEF out, fail
      <4>4. QED
        BY <3>2, <4>2, <4>3
    <3>3. QED
      BY <3>1, <3>2
  <2>3. Then(v)
    <3>1. Then(Idle)
      BY <1>1, <1>2, <1>5, <1>6,
         SMT DEF RunInv, Doing, StatusAt, Announces, CopyFits, Storing, Backed, Same, EmitPCs, InAudit, Row
    <3>2. CASE v # Idle
      <4>1. row[r].status = "running"
        BY <1>2, <1>4, <2>2, <3>2, SMT DEF RunInv, Doing, StatusAt, EmitPCs, InAudit
      <4>2. QED
        BY <1>2, <1>4, <1>5, <2>2, <3>2, <4>1,
           SMT DEF RunInv, Doing, StatusAt, Announces, CopyFits, Storing, Backed, Same, EmitPCs, InAudit, Offered
    <3>3. QED
      BY <3>1, <3>2
  <2>4. QED
    BY <1>3, <1>5, <2>1, <2>3
<1>10. QED
  BY <1>7, <1>8, <1>9 DEF Audit
-------------------------------------------------------------------------------
LEMMA ExecutorLeaves ==
  ASSUME Typed, OneLaunch, RunsInv, NEW r \in Runs, r \in Unreplayed, ExecutorStep(r), thr'[r].pc = "idle"
  PROVE  row'[r].status \in Settled
<1> DEFINE s == thr[r]
<1> USE DEF At
<1>1. r \in Threads /\ s \in ThreadState /\ Local(r, s) /\ RunInv(r, s, row[r], head[r], artifacts[r], events[r])
  BY DEF Typed, TypeOK, Threads, RunsInv
<1>2. ASSUME NEW v, Become(r, v) PROVE thr'[r] = v
  BY <1>1, <1>2, SMT DEF Become, Typed, TypeOK
<1>3. CASE Execute(r)
  <2>1. CASE XExit(r)
    BY <1>1, <2>1, SMT DEF XExit, tables, RunInv, StatusAt, Doing, EmitPCs, InAudit
  <2>2. CASE XAcquire(r)
    <3> DEFINE v == [s EXCEPT !.pc = "x_run",
                       !.copy = [row[r] EXCEPT !.status = "running", !.stage = "initializing"]]
    <3>1. Become(r, v)
      BY <2>2, Zenon DEF XAcquire
    <3>2. v.pc = "x_run"
      BY <1>1, SMT DEF ThreadState
    <3>3. QED
      BY <1>2, <3>1, <3>2
  <2>3. CASE ~XExit(r) /\ ~XAcquire(r)
    <3>1. PICK v : Become(r, v) /\ Within(v)
      BY <1>3, <2>3, ExecuteWithin
    <3>2. v.pc # "idle"
      BY <3>1, SMT DEF Within, Working
    <3>3. QED
      BY <1>2, <3>1, <3>2
  <2>4. QED
    BY <2>1, <2>2, <2>3
<1>4. CASE Emit(r)
  <2>1. s.pc \in EmitPCs /\ s.back \in Backs(r)
    BY <1>1, <1>4, SMT DEF Local, Emit, EmitRead, EmitStage, EmitSeq, EmitAppend, EmitRelease, EmitPCs
  <2>2. s.back # "idle"
    BY <2>1, SMT DEF Backs
  <2>3. thr'[r].pc # "idle"
    <3>1. CASE EmitRead(r)
      <4> DEFINE stored == row[s.run]
                 moved  == [stored EXCEPT !.stage = StageOf(s.kind, stored.stage)]
                 v      == [s EXCEPT !.copy = moved, !.pc = IF moved = stored THEN "emit_seq" ELSE "emit_stage"]
      <4>1. Become(r, v)
        BY <3>1, Zenon DEF EmitRead
      <4>2. v.pc # "idle"
        BY <1>1, SMT DEF ThreadState
      <4>3. QED
        BY <1>2, <4>1, <4>2
    <3>2. CASE EmitStage(r)
      BY <1>1, <1>2, <3>2, SMT DEF EmitStage, ThreadState
    <3>3. CASE EmitSeq(r)
      <4> DEFINE v == [s EXCEPT !.pc = "emit_append", !.seq = Len(events[s.run]) + 1]
      <4>1. Become(r, v) /\ v.pc = "emit_append"
        BY <1>1, <3>3, SMT DEF EmitSeq, ThreadState
      <4>2. QED
        BY <1>2, <4>1
    <3>4. CASE EmitAppend(r)
      <4> DEFINE c == CallAudit(s, ActionOf(s.kind), "none", "emit_release")
                 v == [s EXCEPT !.pc = "emit_release"]
      <4>1. c.pc # "idle" /\ v.pc # "idle"
        BY <1>1, Fields, SMT DEF ThreadState
      <4>2. Become(r, c) \/ Become(r, v)
        BY <3>4, Zenon DEF EmitAppend
      <4>3. QED
        BY <1>2, <4>1, <4>2
    <3>5. CASE EmitRelease(r)
      <4>1. Returned(s).pc = s.back
        BY <1>1, SMT DEF Returned, ThreadState
      <4>2. QED
        BY <1>2, <2>2, <3>5, <4>1 DEF EmitRelease
    <3>6. QED
      BY <1>4, <3>1, <3>2, <3>3, <3>4, <3>5 DEF Emit
  <2>4. QED
    BY <2>3
<1>5. CASE Audit(r)
  <2>1. s.pc \in InAudit /\ s.after \in {"emit_release", "x_exit", "x_complete", "x_error"} /\ row' = row
    <3>1. s.pc \in InAudit /\ row' = row
      BY <1>5, SMT DEF Audit, AuditSeq, AuditAppend, AuditCollide, InAudit, tables
    <3>2. QED
      BY <1>1, <3>1 DEF Local, Afters
  <2>2. CASE s.after # "emit_release"
    BY <1>1, <2>1, <2>2, SMT DEF RunInv, StatusAt, Doing, EmitPCs, InAudit, Settled, Offered
  <2>3. CASE s.after = "emit_release"
    <3>1. s.back \in Backs(r)
      BY <1>1, <2>1, <2>3 DEF Local
    <3>2. CASE AuditSeq(r)
      <4> DEFINE v == [s EXCEPT !.pc = "audit_append", !.seq = Len(audits[s.run]) + 1]
      <4>1. Become(r, v) /\ v.pc = "audit_append"
        BY <1>1, <3>2, SMT DEF AuditSeq, ThreadState
      <4>2. QED
        BY <1>2, <4>1
    <3>3. CASE AuditAppend(r)
      <4>1. Audited(s).pc = "emit_release"
        BY <1>1, <2>3, SMT DEF Audited, ThreadState
      <4>2. QED
        BY <1>2, <3>3, <4>1 DEF AuditAppend
    <3>4. CASE AuditCollide(r)
      <4>1. PICK v \in Unwound(s) : Become(r, v)
        BY <3>4 DEF AuditCollide
      <4> DEFINE back == Returned(s)
                 out  == [back EXCEPT !.after = "idle", !.entry = Note("none", "none")]
                 fail == [out EXCEPT !.pc = "x_failed"]
      <4>2. back \in ThreadState /\ back.pc = s.back
        <5>1. back \in ThreadState
          BY <1>1, <2>1, <2>3, <3>1, ReturnedLocal, SMT DEF Local, InAudit, Resting
        <5>2. QED
          BY <1>1, <5>1, SMT DEF Returned, ThreadState
      <4>3. Unwound(s) \subseteq {out, fail}
        <5> HIDE DEF out, fail
        <5>1. s.back # "db_body"
          BY <3>1, SMT DEF Backs
        <5>2. QED
          BY <2>3, <5>1, SMT DEF Unwound, out, fail
      <4> HIDE DEF back
      <4>4. out.pc = s.back /\ fail.pc = "x_failed"
        BY <4>2, SMT DEF ThreadState
      <4> HIDE DEF out, fail
      <4>5. v.pc # "idle"
        BY <3>1, <4>1, <4>3, <4>4, SMT DEF Backs
      <4>6. QED
        BY <1>2, <4>1, <4>5
    <3>5. QED
      BY <1>5, <3>2, <3>3, <3>4 DEF Audit
  <2>4. QED
    BY <2>2, <2>3
<1>6. QED
  BY <1>3, <1>4, <1>5 DEF ExecutorStep

LEMMA ExecutorSound ==
  ASSUME Typed, Typed', OneLaunch, ReplayInv, ReplayInv', Sound, NEW r \in Runs, ExecutorStep(r)
  PROVE  Sound'
<1> USE DEF At
<1>1. /\ RunsInv /\ DesksInv /\ MainInv /\ LaunchAlone /\ NoOrphan
      /\ r \in Threads /\ r # Main /\ r \notin Workers
  BY ThreadsAssumption DEF Sound, Meaning, Threads
<1>2. Frame(r, r) /\ thr[r].pc \notin Resting /\ Unreplayed' = Unreplayed
  BY ExecutorFrame DEF Unreplayed
<1>3. ASSUME r \in Unreplayed
      PROVE  RunInv(r, thr'[r], row'[r], head'[r], artifacts'[r], events'[r]) /\ KeepsOffer(r)
  <2>1. CASE Execute(r)
    BY <1>1, <1>3, <2>1, ExecuteMeaning
  <2>2. CASE Emit(r)
    BY <1>1, <1>3, <2>2, EmitMeaning
  <2>3. CASE Audit(r)
    BY <1>1, <1>3, <2>3, AuditMeaning DEF KeepsOffer, Same
  <2>4. QED
    BY <2>1, <2>2, <2>3 DEF ExecutorStep
<1>4. RunsInv'
  <2>1. ASSUME NEW q \in Unreplayed, q # r
        PROVE  RunInv(q, thr'[q], row'[q], head'[q], artifacts'[q], events'[q])
    BY <1>1, <1>2, <2>1, Zenon DEF Frame, RunsInv, Threads, Unreplayed
  <2>2. QED
    BY <1>2, <1>3, <2>1 DEF RunsInv
<1>5. /\ \A w \in Workers : thr'[w] = thr[w]
      /\ thr'[Main] = thr[Main]
  BY <1>1, <1>2, ThreadKinds DEF Frame
<1>6. \A w \in Workers : Launches(thr[w]) => thr[w].run # r
  BY <1>2, Zenon DEF OneLaunch, Resting
<1>7. DesksInv'
  <2> SUFFICES ASSUME NEW w \in Workers, thr[w].pc \notin Resting, thr[w].run \in Unreplayed
               PROVE  DeskInv(thr[w], row'[thr[w].run], head'[thr[w].run])
    BY <1>2, <1>5 DEF DesksInv
  <2>1. DeskInv(thr[w], row[thr[w].run], head[thr[w].run]) /\ thr[w].run \in Runs
    BY <1>1, WorkingThread, ThreadKinds DEF DesksInv
  <2>2. CASE thr[w].run # r
    BY <1>2, <2>1, <2>2 DEF Frame
  <2>3. CASE thr[w].run = r /\ thr[w].pc \in ApPCs
    BY <1>3, <2>1, <2>3, SMT DEF DeskInv, KeepsOffer
  <2>4. CASE thr[w].run = r /\ thr[w].pc \notin ApPCs
    BY <1>6, <2>4, SMT DEF DeskInv, ApPCs
  <2>5. QED
    BY <2>2, <2>3, <2>4
<1>8. MainInv'
  <2>1. Serving
    BY <1>1, <1>2, Zenon DEF MainInv, Resting
  <2>2. QED
    BY <1>5, <2>1, SMT DEF MainInv, Serving
<1>9. LaunchAlone'
  <2> SUFFICES ASSUME NEW w \in Workers, Launches(thr[w]), thr[w].run \in Unreplayed
               PROVE  /\ \A v \in Threads \ {w} : thr'[v].pc \notin Resting => thr'[v].run # thr[w].run
                      /\ thr[w].pc = "audit_append" => thr[w].seq = Len(audits'[thr[w].run]) + 1
    BY <1>2, <1>5, Zenon DEF LaunchAlone
  <2>1. thr[w].pc \notin Resting
    BY SMT DEF Launches, Resting, InAudit
  <2>2. thr[w].run \in Runs \ {r}
    BY <1>6, <2>1, WorkingThread, ThreadKinds
  <2>3. audits'[thr[w].run] = audits[thr[w].run]
    BY <1>2, <2>2 DEF Frame
  <2>4. thr'[r].pc \notin Resting => thr'[r].run = r
    BY <1>1, SMT DEF ReplayInv, ReplayAt, Resting
  <2>5. ASSUME NEW v \in Threads \ {w}, thr'[v].pc \notin Resting
        PROVE  thr'[v].run # thr[w].run
    <3>1. CASE v = r
      BY <2>2, <2>4, <2>5, <3>1
    <3>2. CASE v # r
      BY <1>1, <1>2, <2>5, <3>2 DEF Frame, LaunchAlone
    <3>3. QED
      BY <3>1, <3>2
  <2>6. QED
    BY <1>1, <2>3, <2>5 DEF LaunchAlone
<1>10. NoOrphan'
  <2> SUFFICES ASSUME RecoverAtStart, Serving', NEW q \in Unreplayed, row'[q].status \in {"queued", "running"}
               PROVE  Owned(q)'
    BY <1>2 DEF NoOrphan
  <2>1. CASE q = r
    <3>1. thr'[r].pc # "idle"
      BY <1>1, <2>1, ExecutorLeaves, SMT DEF Settled, Offered
    <3>2. QED
      BY <2>1, <3>1 DEF Owned
  <2>2. CASE q # r
    <3>1. Serving /\ row[q].status \in {"queued", "running"} /\ thr'[q] = thr[q]
      BY <1>2, <1>5, <2>2, ThreadKinds DEF Serving, Frame, Unreplayed
    <3>2. Owned(q)
      BY <1>1, <3>1 DEF NoOrphan
    <3>3. QED
      BY <1>5, <3>1, <3>2 DEF Owned
  <2>3. QED
    BY <2>1, <2>2
<1>11. QED
  BY <1>4, <1>7, <1>8, <1>9, <1>10 DEF Sound, Meaning
-------------------------------------------------------------------------------
(***************************************************************************)
(* Requests.  A worker moves to state u and touches what is stored of run  *)
(* q; nobody but the executor of q and the requests on q can notice.       *)
(***************************************************************************)
Behind(q) == RunInv(q, thr'[q], row'[q], head'[q], artifacts'[q], events'[q])

\* The work of the other requests on q goes on.
OthersKept(w, q) ==
    \A v \in Workers \ {w} : thr[v].pc \notin Resting /\ thr[v].run = q => DeskInv(thr[v], row'[q], head'[q])

\* A worker that launches nothing else does not work on a run that is being launched.
Apart(w, u) ==
    /\ \A v \in Workers \ {w} : Launches(thr[v]) /\ thr[v].run \in Unreplayed /\ u.pc \notin Resting
                                   => u.run # thr[v].run
    /\ Launches(u) =>
          /\ \A v \in Threads \ {w} : thr'[v].pc \notin Resting => thr'[v].run # u.run
          /\ u.pc = "audit_append" => u.seq = Len(audits'[u.run]) + 1

LEMMA WorkerSound ==
  ASSUME Typed, OneLaunch, Sound, Serving, NEW w \in Workers, NEW q \in Runs, NEW u \in ThreadState,
         q \in Unreplayed, replayed' = replayed,
         thr'[w] = u, \A v \in Workers \ {w} : thr'[v] = thr[v], thr'[Main] = thr[Main],
         \A r \in Runs \ {q} : thr'[r] = thr[r],
         thr'[q] # thr[q] => Launches(thr[w]) /\ thr[w].run = q /\ thr'[q].pc = "x_wait" /\ thr'[q].run = q,
         \A r \in Runs \ {q} : /\ row'[r] = row[r] /\ head'[r] = head[r] /\ artifacts'[r] = artifacts[r]
                               /\ events'[r] = events[r] /\ audits'[r] = audits[r],
         thr[w].pc \notin Resting => thr[w].run = q, u.pc \notin Resting => u.run = q,
         audits'[q] # audits[q] => thr[w].pc \notin Resting,
         Behind(q), OthersKept(w, q),
         u.pc \notin Resting => DeskInv(u, row'[q], head'[q]), Apart(w, u),
         Launches(thr[w]) => Launches(u) \/ thr'[q].pc # "idle",
         row'[q].status \in {"queued", "running"} => row[q].status = row'[q].status \/ Launches(u)
  PROVE  Sound'
<1> USE DEF At
<1>1. /\ RunsInv /\ DesksInv /\ MainInv /\ LaunchAlone /\ NoOrphan
      /\ Unreplayed' = Unreplayed
  BY DEF Sound, Meaning, Unreplayed
<1>2. RunsInv'
  <2>1. ASSUME NEW r \in Unreplayed, r # q
        PROVE  RunInv(r, thr'[r], row'[r], head'[r], artifacts'[r], events'[r])
    BY <1>1, <2>1, Zenon DEF RunsInv, Unreplayed
  <2>2. QED
    BY <1>1, <2>1 DEF RunsInv, Behind
<1>3. DesksInv'
  <2> SUFFICES ASSUME NEW v \in Workers, thr'[v].pc \notin Resting, thr'[v].run \in Unreplayed
               PROVE  DeskInv(thr'[v], row'[thr'[v].run], head'[thr'[v].run])
    BY <1>1 DEF DesksInv
  <2>1. CASE v = w
    BY <2>1
  <2>2. CASE v # w
    <3>1. thr'[v] = thr[v] /\ thr[v].run \in Runs /\ DeskInv(thr[v], row[thr[v].run], head[thr[v].run])
      BY <1>1, <2>2, WorkingThread, ThreadKinds DEF DesksInv
    <3>2. CASE thr[v].run = q
      BY <2>2, <3>1, <3>2 DEF OthersKept
    <3>3. CASE thr[v].run # q
      BY <3>1, <3>3
    <3>4. QED
      BY <3>2, <3>3
  <2>3. QED
    BY <2>1, <2>2
<1>4. MainInv'
  <2>1. thr[Main].pc = "serving"
    BY DEF Serving
  <2>2. QED
    BY <2>1 DEF MainInv, Serving
<1>5. LaunchAlone'
  <2> SUFFICES ASSUME NEW x \in Workers, Launches(thr'[x]), thr'[x].run \in Unreplayed
               PROVE  /\ \A v \in Threads \ {x} : thr'[v].pc \notin Resting => thr'[v].run # thr'[x].run
                      /\ thr'[x].pc = "audit_append" => thr'[x].seq = Len(audits'[thr'[x].run]) + 1
    BY <1>1, Zenon DEF LaunchAlone
  <2>1. CASE x = w
    <3>1. thr'[x] = u /\ Launches(u)
      BY <2>1
    <3>2. QED
      BY <2>1, <3>1 DEF Apart
  <2>2. CASE x # w
    <3>1. thr'[x] = thr[x] /\ Launches(thr[x]) /\ thr[x].pc \notin Resting /\ thr[x].run \in Runs
      <4>1. thr'[x] = thr[x] /\ Launches(thr[x])
        BY <2>2
      <4>2. thr[x].pc \notin Resting
        BY <4>1, SMT DEF Launches, Resting, InAudit
      <4>3. QED
        BY <4>1, <4>2, WorkingThread, ThreadKinds
    <3>2. ASSUME NEW v \in Threads \ {x}, thr'[v].pc \notin Resting
          PROVE  thr'[v].run # thr[x].run
      <4>1. CASE v = w
        BY <2>2, <3>1, <3>2, <4>1 DEF Apart
      <4>2. CASE v # w /\ thr'[v] = thr[v]
        BY <1>1, <3>1, <3>2, <4>2 DEF LaunchAlone
      <4>3. CASE v # w /\ thr'[v] # thr[v]
        <5>1. v = q /\ Launches(thr[w]) /\ thr[w].run = q /\ thr'[q].run = q
          BY <4>3, Zenon DEF Threads
        <5>2. thr[x].run # q
          BY <2>2, <3>1, <5>1, ThreadKinds, Zenon DEF OneLaunch
        <5>3. QED
          BY <5>1, <5>2
      <4>4. QED
        BY <4>1, <4>2, <4>3
    <3>3. ASSUME thr[x].pc = "audit_append" PROVE audits'[thr[x].run] = audits[thr[x].run]
      <4>1. CASE thr[x].run # q
        BY <3>1, <4>1
      <4>2. CASE thr[x].run = q /\ thr[w].pc \notin Resting
        <5>1. thr[w].run # thr[x].run
          BY <1>1, <2>2, <3>1, <4>2, ThreadKinds, Zenon DEF LaunchAlone
        <5>2. QED
          BY <4>2, <5>1
      <4>3. CASE thr[x].run = q /\ audits'[q] = audits[q]
        BY <4>3
      <4>4. QED
        BY <4>1, <4>2, <4>3
    <3>4. QED
      BY <1>1, <3>1, <3>2, <3>3 DEF LaunchAlone
  <2>3. QED
    BY <2>1, <2>2
<1>6. NoOrphan'
  <2> SUFFICES ASSUME RecoverAtStart, NEW r \in Unreplayed, row'[r].status \in {"queued", "running"}
               PROVE  Owned(r)'
    BY <1>1 DEF NoOrphan
  <2>0. r \in Runs
    BY DEF Unreplayed
  <2>1. CASE row[r].status = row'[r].status
    <3>1. Owned(r)
      BY <1>1, <2>1 DEF NoOrphan
    <3>2. CASE thr'[r].pc # "idle"
      BY <3>2 DEF Owned
    <3>3. CASE thr'[r].pc = "idle"
      <4>1. thr[r].pc = "idle"
        <5>1. CASE thr'[r] = thr[r]
          BY <3>3, <5>1
        <5>2. CASE thr'[r] # thr[r]
          BY <2>0, <3>3, <5>2
        <5>3. QED
          BY <5>1, <5>2
      <4>2. PICK v \in Workers : Launches(thr[v]) /\ thr[v].run = r
        BY <3>1, <4>1 DEF Owned
      <4>3. CASE v = w
        <5>1. thr[w].pc \notin Resting
          BY <4>2, <4>3, SMT DEF Launches, Resting, InAudit
        <5>2. r = q /\ Launches(u)
          BY <3>3, <4>2, <4>3, <5>1
        <5>3. u.pc \notin Resting
          BY <5>2, SMT DEF Launches, Resting, InAudit
        <5>4. QED
          BY <5>2, <5>3 DEF Owned
      <4>4. CASE v # w
        BY <4>2, <4>4 DEF Owned
      <4>5. QED
        BY <4>3, <4>4
    <3>4. QED
      BY <3>2, <3>3
  <2>2. CASE row[r].status # row'[r].status
    <3>1. r = q /\ Launches(u)
      BY <2>0, <2>2
    <3>2. u.pc \notin Resting
      BY <3>1, SMT DEF Launches, Resting, InAudit
    <3>3. QED
      BY <3>1, <3>2 DEF Owned
  <2>3. QED
    BY <2>1, <2>2
<1>7. QED
  BY <1>2, <1>3, <1>4, <1>5, <1>6 DEF Sound, Meaning

LEMMA WorkerSets ==
  ASSUME NEW w \in Workers
  PROVE  w \in Threads /\ w \notin Runs /\ w # Main /\ Main \notin Runs /\ Main \in Threads
  BY ThreadsAssumption DEF Threads

LEMMA ApartAsBefore ==
  ASSUME Typed, LaunchAlone, NEW w \in Workers, NEW u, ~Launches(u),
         u.pc \notin Resting => thr[w].pc \notin Resting /\ thr[w].run = u.run
  PROVE  Apart(w, u)
  BY WorkerSets, Zenon DEF Apart, LaunchAlone

LEMMA ApartByStatus ==
  ASSUME Typed, OneLaunch, DesksInv, LaunchAlone, NEW w \in Workers, NEW u, ~Launches(u),
         u.pc \notin Resting => row[u.run].status # "queued"
  PROVE  Apart(w, u)
<1> SUFFICES ASSUME NEW v \in Workers \ {w}, Launches(thr[v]), thr[v].run \in Unreplayed, u.pc \notin Resting
             PROVE  u.run # thr[v].run
  BY DEF Apart
<1>1. thr[v].pc \notin Resting
  BY SMT DEF Launches, Resting, InAudit
<1>2. row[thr[v].run].status = "queued"
  BY <1>1 DEF DesksInv, DeskInv, LaunchAlone
<1>3. QED
  BY <1>2

\* A worker's step that leaves the run as it is.
LEMMA QuietWorker ==
  ASSUME Typed, OneLaunch, Sound, Serving, NEW w \in Workers, NEW q \in Runs, NEW u \in ThreadState,
         q \in Unreplayed, replayed' = replayed, Become(w, u), UNCHANGED <<row, head, artifacts, events>>,
         \A r \in Runs \ {q} : audits'[r] = audits[r], audits'[q] # audits[q] => thr[w].pc \notin Resting,
         thr[w].pc \notin Resting => thr[w].run = q, u.pc \notin Resting => u.run = q,
         u.pc \notin Resting => DeskInv(u, row[q], head[q]), Apart(w, u),
         Launches(thr[w]) => Launches(u)
  PROVE  Sound'
<1>1. RunsInv /\ DesksInv
  BY DEF Sound, Meaning
<1>2. /\ thr'[w] = u /\ \A v \in Workers \ {w} : thr'[v] = thr[v]
      /\ thr'[Main] = thr[Main] /\ \A r \in Runs : thr'[r] = thr[r]
  BY BecomeOnly, WorkerSets, ThreadKinds
<1>3. Behind(q)
  BY <1>1, <1>2 DEF RunsInv, Behind
<1>4. OthersKept(w, q)
  BY <1>1 DEF OthersKept, DesksInv
<1>5. QED
  BY <1>2, <1>3, <1>4, WorkerSound

(***************************************************************************)
(* A worker's step on a run that is, or is now, replayed; it may start the *)
(* executor of that run.  Nothing is said of that run, and the step        *)
(* touches no other.                                                       *)
(***************************************************************************)
LEMMA ReplayedWorker ==
  ASSUME Typed, OneLaunch, Sound, Serving, NEW w \in Workers, NEW q \in Runs, NEW u, thr'[w] = u,
         \A v \in Threads \ {w} : thr'[v] = thr[v] \/ (v = q /\ thr'[v].run = q),
         \A r \in Runs \ {q} : /\ row'[r] = row[r] /\ head'[r] = head[r] /\ artifacts'[r] = artifacts[r]
                               /\ events'[r] = events[r] /\ audits'[r] = audits[r],
         replayed' = replayed \cup {q},
         thr[w].pc \notin Resting => thr[w].run = q, u.pc \notin Resting => u.run = q
  PROVE  Sound'
<1> USE DEF At
<1>1. /\ RunsInv /\ DesksInv /\ MainInv /\ LaunchAlone /\ NoOrphan
      /\ Unreplayed' = Unreplayed \ {q} /\ Unreplayed \subseteq Runs
  BY DEF Sound, Meaning, Unreplayed
<1>2. /\ \A v \in Workers \ {w} : thr'[v] = thr[v]
      /\ thr'[Main] = thr[Main] /\ \A r \in Runs \ {q} : thr'[r] = thr[r]
  BY WorkerSets, ThreadKinds
<1>3. RunsInv'
  BY <1>1, <1>2, Zenon DEF RunsInv
<1>4. DesksInv'
  <2> SUFFICES ASSUME NEW v \in Workers, thr'[v].pc \notin Resting, thr'[v].run \in Unreplayed \ {q}
               PROVE  DeskInv(thr'[v], row'[thr'[v].run], head'[thr'[v].run])
    BY <1>1 DEF DesksInv
  <2>1. v # w
    OBVIOUS
  <2>2. QED
    BY <1>1, <1>2, <2>1 DEF DesksInv
<1>5. MainInv'
  <2>1. thr[Main].pc = "serving"
    BY DEF Serving
  <2>2. QED
    BY <1>2, <2>1 DEF MainInv, Serving
<1>6. LaunchAlone'
  <2> SUFFICES ASSUME NEW x \in Workers, Launches(thr'[x]), thr'[x].run \in Unreplayed \ {q}
               PROVE  /\ \A v \in Threads \ {x} : thr'[v].pc \notin Resting => thr'[v].run # thr'[x].run
                      /\ thr'[x].pc = "audit_append" => thr'[x].seq = Len(audits'[thr'[x].run]) + 1
    BY <1>1, Zenon DEF LaunchAlone
  <2>1. thr'[x].pc \notin Resting
    BY SMT DEF Launches, Resting, InAudit
  <2>2. x # w /\ thr'[x] = thr[x] /\ Launches(thr[x]) /\ thr[x].run \in Unreplayed /\ thr[x].run # q
    BY <1>2, <2>1
  <2>3. ASSUME NEW v \in Threads \ {x}, thr'[v].pc \notin Resting
        PROVE  thr'[v].run # thr[x].run
    <3>1. CASE v = w \/ (v = q /\ thr'[v].run = q)
      BY <2>2, <2>3, <3>1
    <3>2. CASE thr'[v] = thr[v]
      BY <1>1, <2>2, <2>3, <3>2 DEF LaunchAlone
    <3>3. QED
      BY <2>3, <3>1, <3>2
  <2>4. audits'[thr[x].run] = audits[thr[x].run]
    BY <1>1, <2>2
  <2>5. QED
    BY <1>1, <2>2, <2>3, <2>4 DEF LaunchAlone
<1>7. NoOrphan'
  <2> SUFFICES ASSUME RecoverAtStart, NEW r \in Unreplayed \ {q}, row'[r].status \in {"queued", "running"}
               PROVE  Owned(r)'
    BY <1>1 DEF NoOrphan
  <2>1. Owned(r)
    BY <1>1 DEF NoOrphan
  <2>2. CASE thr[r].pc # "idle"
    BY <1>1, <1>2, <2>2 DEF Owned
  <2>3. CASE \E v \in Workers : Launches(thr[v]) /\ thr[v].run = r
    <3>1. PICK v \in Workers : Launches(thr[v]) /\ thr[v].run = r
      BY <2>3
    <3>2. thr[v].pc \notin Resting
      BY <3>1, SMT DEF Launches, Resting, InAudit
    <3>3. v # w
      BY <3>1, <3>2
    <3>4. QED
      BY <1>2, <3>1, <3>3 DEF Owned
  <2>4. QED
    BY <2>1, <2>2, <2>3 DEF Owned
<1>8. QED
  BY <1>3, <1>4, <1>5, <1>6, <1>7 DEF Sound, Meaning

LEMMA WorkerServes ==
  ASSUME MainInv, NEW w \in Workers, thr[w].pc # "idle"
  PROVE  Serving
  BY DEF MainInv, At

LEMMA LaunchCreateSound ==
  ASSUME Typed, Typed', OneLaunch, ReplayInv, Sound, NEW w \in Workers, LaunchCreate(w)
  PROVE  Sound'
<1> USE DEF At
<1>1. /\ RunsInv /\ DesksInv /\ MainInv /\ LaunchAlone /\ NoOrphan
      /\ w \in Threads /\ Serving
  BY WorkerSets DEF Sound, Meaning, LaunchCreate
<1>2. PICK q \in Runs, u \in ThreadState :
         /\ row[q].status = "absent" /\ UpdateRun(q, [status |-> "queued", stage |-> "queued"])
         /\ Become(w, u) /\ thr[w].pc = "idle"
         /\ u.run = q /\ Launches(u) /\ u.pc \in {"launch_payload", "audit_seq"}
  BY LaunchCreateState
<1>3. UNCHANGED <<events, audits, artifacts, head, replayed>>
  BY Zenon DEF LaunchCreate, counts
<1>4. q \in Unreplayed
  BY <1>2, SMT DEF ReplayInv, Created, Unreplayed
<1>5. /\ thr'[w] = u /\ \A v \in Workers \ {w} : thr'[v] = thr[v]
      /\ thr'[Main] = thr[Main] /\ \A r \in Runs : thr'[r] = thr[r]
  BY <1>1, <1>2, BecomeOnly, WorkerSets, ThreadKinds
<1>6. /\ row'[q].status = "queued" /\ row'[q].stage = "queued"
      /\ \A r \in Runs \ {q} : row'[r] = row[r]
  BY <1>2, SMT DEF UpdateRun, Typed, TypeOK
<1>7. /\ \A v \in Threads : thr[v].pc \notin Resting => thr[v].run # q
      /\ thr[q].pc = "idle"
  BY <1>2, Zenon DEF OneLaunch, Created
<1>8. Behind(q)
  <2>1. RunInv(q, thr[q], row[q], head[q], artifacts[q], events[q])
    BY <1>1, <1>4 DEF RunsInv
  <2>2. thr'[q] = thr[q]
    BY <1>5
  <2>3. QED
    BY <1>2, <1>3, <1>6, <1>7, <2>1, <2>2,
       SMT DEF Behind, RunInv, Doing, StatusAt, Announces, CopyFits, Storing, Backed, EmitPCs, InAudit, Offered, Status
<1>9. OthersKept(w, q)
  BY <1>7, WorkerSets, ThreadKinds DEF OthersKept
<1>10. DeskInv(u, row'[q], head'[q])
  BY <1>2, <1>6, SMT DEF DeskInv, ApPCs
<1>11. Apart(w, u)
  <2>1. ASSUME NEW v \in Workers \ {w}, Launches(thr[v])
        PROVE  u.run # thr[v].run
    <3>1. thr[v].pc \notin Resting
      BY <2>1, SMT DEF Launches, Resting, InAudit
    <3>2. QED
      BY <1>2, <1>7, <3>1, ThreadKinds
  <2>2. ASSUME NEW v \in Threads \ {w}, thr'[v].pc \notin Resting
        PROVE  thr'[v].run # u.run
    <3>1. thr'[v] = thr[v]
      BY <1>5 DEF Threads
    <3>2. QED
      BY <1>2, <1>7, <2>2, <3>1
  <2>3. QED
    BY <1>2, <1>4, <2>1, <2>2 DEF Apart
<1>12. /\ thr[w].pc \in Resting /\ ~Launches(thr[w])
  BY <1>2, SMT DEF Resting, Launches, InAudit
<1>13. QED
  BY <1>1, <1>2, <1>3, <1>4, <1>5, <1>6, <1>8, <1>9, <1>10, <1>11, <1>12, WorkerSound

LEMMA LaunchSound ==
  ASSUME Typed, Typed', OneLaunch, Sound, NEW w \in Workers, Launch(w), thr[w].run \in Unreplayed
  PROVE  Sound'
<1> DEFINE s == thr[w]
           u == thr'[w]
           q == s.run
<1> USE DEF At
<1>1. /\ RunsInv /\ DesksInv /\ MainInv /\ LaunchAlone /\ NoOrphan
      /\ w \in Threads /\ s \in ThreadState /\ u \in ThreadState
  BY WorkerSets DEF Sound, Meaning, Typed, TypeOK
<1>2. s.pc \in {"launch_payload", "launch_spawn"} /\ s.pc \notin Resting /\ Launches(s)
  BY SMT DEF Launch, LaunchPayload, LaunchSpawn, Resting, Launches
<1>3. /\ q \in Runs /\ q \in Unreplayed /\ replayed' = replayed
      /\ Serving /\ row[q].status = "queued" /\ thr[q].pc = "idle"
      /\ RunInv(q, thr[q], row[q], head[q], artifacts[q], events[q])
  <2>1. q \in Runs /\ Serving
    BY <1>1, <1>2, WorkingThread, WorkerServes, SMT
  <2>2. q \in Unreplayed /\ replayed' = replayed
    BY Zenon DEF Launch, LaunchPayload, LaunchSpawn, counts
  <2>3. row[q].status = "queued"
    BY <1>1, <1>2, <2>2 DEF DesksInv, DeskInv
  <2>4. QED
    BY <1>1, <1>2, <2>1, <2>2, <2>3 DEF OneLaunch, RunsInv
<1>4. \A v \in Threads \ {w} : thr[v].pc \notin Resting => thr[v].run # q
  BY <1>1, <1>2, <1>3 DEF LaunchAlone
<1>5. OthersKept(w, q)
  BY <1>4, ThreadKinds DEF OthersKept
<1>6. CASE LaunchPayload(w)
  <2> DEFINE v == CallAudit(s, "run_created", "none", "launch_spawn")
  <2>1. /\ Become(w, v) /\ artifacts' = [artifacts EXCEPT ![q] = @ \cup {"alert_payload"}]
        /\ UNCHANGED <<row, events, audits, head>>
    BY <1>6 DEF LaunchPayload
  <2>2. u = v /\ \A x \in Threads \ {w} : thr'[x] = thr[x]
    BY <1>1, <2>1, BecomeOnly
  <2>3. v.pc = "audit_seq" /\ v.after = "launch_spawn" /\ v.run = q
    BY <1>1, Fields
  <2> HIDE DEF v
  <2>4. Launches(u) /\ DeskInv(u, row'[q], head'[q]) /\ u.run = q /\ u.pc = "audit_seq"
    BY <1>3, <2>1, <2>2, <2>3, SMT DEF Launches, DeskInv, InAudit, EmitPCs, ApPCs
  <2>5. /\ \A x \in Workers \ {w} : thr'[x] = thr[x]
        /\ thr'[Main] = thr[Main] /\ \A r \in Runs : thr'[r] = thr[r]
    BY <2>2, WorkerSets, ThreadKinds
  <2>6. Behind(q)
    <3>1. /\ thr'[q] = thr[q] /\ row' = row /\ head' = head /\ events' = events
          /\ thr[q].pc = "idle" /\ row[q].status = "queued"
      BY <1>3, <2>1, <2>5, Zenon
    <3>2. Doing(thr[q]) = "idle"
      BY <3>1, SMT DEF Doing, EmitPCs, InAudit
    <3>3. Storing(q, thr'[q], head'[q], artifacts'[q])
      BY <1>3, <3>1, <3>2, SMT DEF RunInv, Storing
    <3>4. Backed(q, thr'[q], row'[q], head'[q], artifacts'[q], events'[q])
      <4>1. row[q].status \notin Offered
        BY <3>1, SMT DEF Offered
      <4>2. QED
        BY <1>3, <3>1, <4>1, Zenon DEF RunInv, Backed
    <3>5. QED
      BY <1>3, <3>1, <3>3, <3>4, Zenon DEF Behind, RunInv
  <2>7. \A r \in Runs \ {q} : artifacts'[r] = artifacts[r]
    BY <2>1, SMT DEF Typed, TypeOK
  <2>8. Apart(w, u)
    <3>1. ASSUME NEW x \in Workers \ {w}, Launches(thr[x])
          PROVE  u.run # thr[x].run
      <4>1. thr[x].pc \notin Resting
        BY <3>1, SMT DEF Launches, Resting, InAudit
      <4>2. QED
        BY <1>4, <2>4, <4>1, ThreadKinds
    <3>2. QED
      BY <1>3, <1>4, <2>2, <2>4, <3>1 DEF Apart
  <2>9. QED
    BY <1>1, <1>2, <1>3, <1>5, <2>1, <2>4, <2>5, <2>6, <2>7, <2>8, WorkerSound
<1>7. CASE LaunchSpawn(w)
  <2>1. /\ u.pc \in {"audit_seq", "idle"} /\ (u.pc = "audit_seq" => u.after = "idle" /\ u.run = q)
        /\ thr'[q].pc = "x_wait" /\ thr'[q].run = q
        /\ \A x \in Threads \ {w, q} : thr'[x] = thr[x]
    BY <1>7, LaunchSpawnState
  <2>2. UNCHANGED <<row, events, audits, artifacts, head>>
    BY <1>7, Zenon DEF LaunchSpawn, tables
  <2>6. /\ \A x \in Workers \ {w} : thr'[x] = thr[x]
        /\ thr'[Main] = thr[Main] /\ \A r \in Runs \ {q} : thr'[r] = thr[r]
    BY <1>3, <2>1, WorkerSets, ThreadKinds
  <2>7. ~Launches(u) /\ DeskInv(u, row'[q], head'[q]) /\ (u.pc \notin Resting => u.run = q)
    BY <2>1, SMT DEF Launches, DeskInv, InAudit, EmitPCs, ApPCs, Resting
  <2>8. Behind(q)
    <3>1. RunInv(q, thr'[q], row[q], head[q], artifacts[q], events[q])
      BY <1>3, <2>1,
         SMT DEF RunInv, Doing, StatusAt, Announces, CopyFits, Storing, Backed, EmitPCs, InAudit, Offered
    <3>2. QED
      BY <2>2, <3>1 DEF Behind
  <2>9. Apart(w, u)
    BY <1>1, <1>2, <2>7, ApartAsBefore
  <2>10. QED
    BY <1>1, <1>2, <1>3, <1>5, <2>1, <2>2, <2>6, <2>7, <2>8, <2>9, WorkerSound
<1>8. QED
  BY <1>6, <1>7 DEF Launch

LEMMA ApCheckSound ==
  ASSUME Typed, OneLaunch, Sound, NEW w \in Workers, ApCheck(w)
  PROVE  Sound'
<1> USE DEF At
<1>1. /\ RunsInv /\ DesksInv /\ LaunchAlone /\ Serving /\ w \in Threads /\ thr[w].pc = "idle"
      /\ UNCHANGED <<row, head, artifacts, events, audits, replayed>>
  BY WorkerSets, Zenon DEF Sound, Meaning, ApCheck, tables, counts
<1>2. PICK q \in Runs, d \in Decision :
        row[q].status = "awaiting_approval" /\ Become(w, [Thread("ap_load", q) EXCEPT !.arg = d])
  BY DEF ApCheck
<1> DEFINE u == [Thread("ap_load", q) EXCEPT !.arg = d]
<1>3. u \in ThreadState /\ u.pc = "ap_load" /\ u.run = q
  <2>1. Thread("ap_load", q) \in ThreadState /\ Thread("ap_load", q).pc = "ap_load" /\ Thread("ap_load", q).run = q
    BY ThreadType, SMT DEF PC
  <2>2. d \in Arg
    BY DEF Arg
  <2>3. u \in ThreadState
    BY <2>1, <2>2, Zenon DEF ThreadState
  <2>4. QED
    BY <2>1, <2>3, SMT DEF ThreadState
<1>4. Become(w, u)
  BY <1>2
<1> HIDE DEF u
<1>5. ~Launches(u) /\ ~Launches(thr[w]) /\ thr[w].pc \in Resting
  BY <1>1, <1>3, SMT DEF Launches, InAudit, Resting
<1>6. CASE q \in Unreplayed
  <2>1. head[q] \in Stopped
    BY <1>1, <1>2, <1>6 DEF RunsInv, RunInv, Backed
  <2>2. DeskInv(u, row[q], head[q])
    BY <1>2, <1>3, <1>5, <2>1, SMT DEF DeskInv, Offered
  <2>3. Apart(w, u)
    BY <1>1, <1>2, <1>3, <1>5, ApartByStatus
  <2>4. QED
    BY <1>1, <1>3, <1>4, <1>5, <1>6, <2>2, <2>3, QuietWorker
<1>7. CASE q \in replayed
  BY <1>1, <1>3, <1>4, <1>5, <1>7, BecomeOnly, ReplayedWorker
<1>8. QED
  BY <1>6, <1>7 DEF Unreplayed

\* The row an approver writes, and the checkpoint its graph takes, fit the executor of the run.
LEMMA Decided ==
  ASSUME NEW r \in Runs, NEW s, Local(r, s), NEW R, NEW h, NEW A, NEW E, RunInv(r, s, R, h, A, E),
         R.status \in Offered
  PROVE  /\ \A g \in Decision : RunInv(r, s, R, g, A, E)
         /\ \A N : N.status = "completed" /\ h \in Decision => RunInv(r, s, N, h, A, E)
<1>1. Doing(s) \notin {"x_store", "x_close", "x_publish", "x_wait", "x_run", "x_body", "x_deny", "x_failed", "x_failwrite"}
  BY SMT DEF RunInv, StatusAt, Offered
<1>2. ASSUME NEW g \in Decision
      PROVE  RunInv(r, s, R, g, A, E)
  BY <1>1, SMT DEF RunInv, Storing, Backed, Stopped
<1>3. ASSUME NEW N, N.status = "completed", h \in Decision
      PROVE  RunInv(r, s, N, h, A, E)
  <2>1. Doing(s) # "x_error" /\ N.status \in StatusAt(Doing(s))
    BY <1>1, <1>3, SMT DEF RunInv, StatusAt, Offered, Settled, Status
  <2>2. Announces(s, N)
    <3>1. R.status # "failed"
      BY DEF Offered
    <3>2. QED
      BY <1>3, <3>1, Zenon DEF RunInv, Announces
  <2>3. CopyFits(s, N)
    <3>1. s.pc # "emit_stage" \/ R.status = "completed"
      <4> SUFFICES ASSUME s.pc = "emit_stage" PROVE R.status = "completed"
        OBVIOUS
      <4>1. s.pc \in EmitPCs /\ Doing(s) = s.back /\ s.back \in Backs(r)
        BY SMT DEF EmitPCs, Doing, Local
      <4>2. s.back = "x_exit"
        BY <1>1, <4>1, SMT DEF Backs
      <4>3. s.kind \in Terminal
        BY <4>1, <4>2 DEF RunInv, Announces
      <4>4. QED
        BY <4>1, <4>3, Zenon DEF RunInv, Announces, Terminal, Offered
    <3>2. QED
      BY <1>3, <3>1, SMT DEF RunInv, CopyFits
  <2>4. Backed(r, s, N, h, A, E)
    <3>1. Needed(r, "completed") \subseteq Needed(r, R.status)
      BY DEF Needed
    <3>2. ~Has(E, "error")
      BY DEF RunInv, Backed, Offered
    <3>3. QED
      BY <1>3, <3>1, <3>2, SMT DEF RunInv, Backed, Offered
  <2>5. QED
    BY <2>1, <2>2, <2>3, <2>4 DEF RunInv
<1>4. QED
  BY <1>2, <1>3

LEMMA ApproveSound ==
  ASSUME Typed, Typed', OneLaunch, Sound, NEW w \in Workers, Approve(w),
         thr[w].run \in Unreplayed
  PROVE  Sound'
<1> DEFINE s == thr[w]
           q == s.run
<1> USE DEF At
<1>1. /\ RunsInv /\ DesksInv /\ MainInv /\ LaunchAlone
      /\ w \in Threads /\ s \in ThreadState
  BY WorkerSets DEF Sound, Meaning, Typed, TypeOK
<1>2. s.pc \in ApPCs /\ s.pc \notin Resting /\ ~Launches(s) /\ s.arg \in Decision
  <2>1. s.pc \in ApPCs
    BY Zenon DEF Approve, ApLoad, ApResume, ApRejectEdit, ApRead, ApWrite, ApPCs
  <2>2. QED
    BY <1>1, <2>1, SMT DEF Resting, Launches, InAudit, ApPCs, Typed, Local
<1>3. q \in Runs /\ Serving /\ row[q] \in Row /\ replayed' = replayed
  <2>1. replayed' = replayed
    BY Zenon DEF Approve, ApLoad, ApResume, ApRejectEdit, ApRead, ApWrite, counts
  <2>2. QED
    BY <1>1, <1>2, <2>1, WorkingThread, WorkerServes, SMT DEF Resting, Typed, TypeOK
<1>4. DeskInv(s, row[q], head[q]) /\ RunInv(q, thr[q], row[q], head[q], artifacts[q], events[q])
  BY <1>1, <1>2, <1>3 DEF DesksInv, RunsInv
<1>5. row[q].status \in Offered /\ head[q] \in Stopped
  BY <1>2, <1>4 DEF DeskInv
<1>6. ASSUME NEW u \in ThreadState, Become(w, u), UNCHANGED <<row, head, artifacts, events, audits>>,
             u.pc \in ApPCs \cup {"idle"}, u.pc # "idle" => u.run = q /\ DeskInv(u, row[q], head[q])
      PROVE  Sound'
  <2>1. ~Launches(u) /\ (u.pc \notin Resting => u.run = q /\ DeskInv(u, row[q], head[q]))
    BY <1>6, SMT DEF Launches, ApPCs, EmitPCs, InAudit, Resting
  <2>2. Apart(w, u)
    BY <1>1, <1>2, <2>1, ApartAsBefore
  <2>3. QED
    BY <1>2, <1>3, <1>6, <2>1, <2>2, QuietWorker
<1>7. Idle \in ThreadState /\ Idle.pc = "idle"
  BY IdleType DEF Idle
<1>8. CASE ApLoad(w)
  <2> DEFINE u == [s EXCEPT !.pc = "ap_resume", !.seen = head[q]]
  <2>1. Become(w, u) /\ UNCHANGED <<row, head, artifacts, events, audits>>
    BY <1>8, Zenon DEF ApLoad, tables
  <2>2. u \in ThreadState
    BY <1>1, <2>1, BecomeOnly DEF Typed, TypeOK
  <2>3. u.pc = "ap_resume" /\ u.seen = head[q] /\ u.run = q
    BY <1>1, SMT DEF ThreadState
  <2> HIDE DEF u
  <2>4. DeskInv(u, row[q], head[q])
    BY <1>5, <2>3, SMT DEF DeskInv, Launches, InAudit
  <2>5. QED
    BY <1>6, <2>1, <2>2, <2>3, <2>4 DEF ApPCs
<1>9. CASE ApRejectEdit(w)
  BY <1>6, <1>7, <1>9, Zenon DEF ApRejectEdit, tables
<1>10. CASE ApRead(w)
  <2> DEFINE c == [row[q] EXCEPT !.status = "completed", !.stage = "advised"]
             u == [s EXCEPT !.pc = "ap_write", !.copy = c]
  <2>1. /\ s.pc = "ap_read" /\ UNCHANGED <<row, head, artifacts, events, audits>>
        /\ Become(w, Idle) \/ Become(w, u)
    BY <1>10, Zenon DEF ApRead, tables
  <2>2. CASE Become(w, Idle)
    BY <1>6, <1>7, <2>1, <2>2
  <2>3. CASE Become(w, u)
    <3>1. u \in ThreadState
      BY <1>1, <2>3, BecomeOnly DEF Typed, TypeOK
    <3>2. c.status = "completed"
      BY <1>3, SMT DEF Row
    <3> HIDE DEF c
    <3>3. u.pc = "ap_write" /\ u.copy = c /\ u.run = q
      BY <1>1, SMT DEF ThreadState
    <3> HIDE DEF u
    <3>4. DeskInv(u, row[q], head[q])
      BY <1>4, <1>5, <2>1, <3>2, <3>3, SMT DEF DeskInv, Launches, InAudit
    <3>5. QED
      BY <1>6, <2>1, <2>3, <3>1, <3>3, <3>4 DEF ApPCs
  <2>4. QED
    BY <2>1, <2>2, <2>3
<1>11. CASE ApResume(w)
  <2> DEFINE u == [s EXCEPT !.pc = "ap_read", !.seen = "none"]
             h == head'[q]
  <2>1. /\ Become(w, u) /\ UNCHANGED <<row, artifacts, events, audits>> /\ s.pc = "ap_resume"
        /\ head' = IF s.seen = "interrupted" THEN [head EXCEPT ![q] = s.arg] ELSE head
    BY <1>11 DEF ApResume
  <2>2. h \in Decision /\ \A r \in Runs \ {q} : head'[r] = head[r]
    <3>1. s.seen \in Decision => head[q] \in Decision
      BY <1>4, <2>1 DEF DeskInv
    <3>2. s.seen = "interrupted" \/ s.seen \in Decision
      BY <1>4, <2>1 DEF DeskInv, Stopped
    <3>3. QED
      BY <1>2, <1>3, <2>1, <3>1, <3>2, SMT DEF Typed, TypeOK
  <2>3. u \in ThreadState /\ u = thr'[w] /\ \A v \in Threads \ {w} : thr'[v] = thr[v]
    BY <1>1, <2>1, BecomeOnly DEF Typed, TypeOK
  <2>4. u.pc = "ap_read" /\ u.run = q
    BY <1>1, SMT DEF ThreadState
  <2> HIDE DEF u, h
  <2>5. ~Launches(u) /\ DeskInv(u, row'[q], head'[q])
    BY <1>5, <2>1, <2>2, <2>4, SMT DEF h, Launches, EmitPCs, InAudit, DeskInv, Stopped
  <2>6. Apart(w, u)
    BY <1>1, <1>2, <2>4, <2>5, ApartAsBefore
  <2>7. /\ \A v \in Workers \ {w} : thr'[v] = thr[v]
        /\ thr'[Main] = thr[Main] /\ \A r \in Runs : thr'[r] = thr[r]
    BY <2>3, WorkerSets, ThreadKinds
  <2>8. Behind(q)
    <3>1. RunInv(q, thr[q], row[q], h, artifacts[q], events[q])
      BY <1>3, <1>4, <1>5, <2>2, Decided, ThreadKinds DEF Typed
    <3>2. QED
      BY <1>3, <2>1, <2>7, <3>1 DEF Behind, h
  <2>9. OthersKept(w, q)
    <3> SUFFICES ASSUME NEW v \in Workers, thr[v].pc \notin Resting, thr[v].run = q
                 PROVE  DeskInv(thr[v], row[q], h)
      BY <2>1 DEF OthersKept, h
    <3>1. DeskInv(thr[v], row[q], head[q])
      BY <1>1 DEF DesksInv
    <3>2. QED
      BY <2>2, <3>1, SMT DEF DeskInv, Stopped
  <2>10. QED
    BY <1>2, <1>3, <2>1, <2>2, <2>3, <2>4, <2>5, <2>6, <2>7, <2>8, <2>9, WorkerSound
<1>12. CASE ApWrite(w)
  <2> DEFINE u == CallAudit(s, "approval_decided", s.arg, "idle")
  <2>1. /\ Become(w, u) /\ UNCHANGED <<head, artifacts, events, audits>> /\ s.pc = "ap_write"
        /\ UpdateRun(q, s.copy)
    BY <1>12 DEF ApWrite
  <2>2. u \in ThreadState /\ u = thr'[w] /\ \A v \in Threads \ {w} : thr'[v] = thr[v]
    BY <1>1, <2>1, BecomeOnly DEF Typed, TypeOK
  <2>3. u.pc = "audit_seq" /\ u.after = "idle" /\ u.run = q
    BY <1>1, Fields
  <2> HIDE DEF u
  <2>4. row'[q] = s.copy /\ row'[q].status = "completed" /\ head[q] \in Decision
        /\ \A r \in Runs \ {q} : row'[r] = row[r]
    <3>1. s.copy.status = "completed" /\ head[q] \in Decision
      BY <1>4, <2>1 DEF DeskInv
    <3>2. QED
      BY <1>3, <2>1, <3>1, SMT DEF UpdateRun, Typed, TypeOK
  <2>5. ~Launches(u) /\ DeskInv(u, row'[q], head'[q])
    BY <2>3, SMT DEF Launches, EmitPCs, InAudit, DeskInv, ApPCs
  <2>6. Apart(w, u)
    BY <1>1, <1>2, <2>3, <2>5, ApartAsBefore
  <2>7. /\ \A v \in Workers \ {w} : thr'[v] = thr[v]
        /\ thr'[Main] = thr[Main] /\ \A r \in Runs : thr'[r] = thr[r]
    BY <2>2, WorkerSets, ThreadKinds
  <2>8. Behind(q)
    <3>1. RunInv(q, thr[q], row'[q], head[q], artifacts[q], events[q])
      BY <1>3, <1>4, <1>5, <2>4, Decided, ThreadKinds DEF Typed
    <3>2. QED
      BY <1>3, <2>1, <2>7, <3>1 DEF Behind
  <2>9. OthersKept(w, q)
    <3> SUFFICES ASSUME NEW v \in Workers, thr[v].pc \notin Resting, thr[v].run = q
                 PROVE  DeskInv(thr[v], row'[q], head[q])
      BY <2>1 DEF OthersKept
    <3>1. DeskInv(thr[v], row[q], head[q])
      BY <1>1 DEF DesksInv
    <3>2. QED
      BY <1>5, <2>4, <3>1, SMT DEF DeskInv, Offered
  <2>10. QED
    BY <1>2, <1>3, <2>1, <2>2, <2>3, <2>4, <2>5, <2>6, <2>7, <2>8, <2>9, WorkerSound
<1>13. QED
  BY <1>8, <1>9, <1>10, <1>11, <1>12 DEF Approve

LEMMA WorkerAuditSound ==
  ASSUME Typed, Typed', OneLaunch, ReplayInv, Sound, NEW w \in Workers, Audit(w),
         thr[w].run \in Unreplayed
  PROVE  Sound'
<1> DEFINE s == thr[w]
           q == s.run
<1> USE DEF At
<1>1. /\ RunsInv /\ DesksInv /\ MainInv /\ LaunchAlone
      /\ w \in Threads /\ s \in ThreadState /\ Local(w, s)
  BY WorkerSets DEF Sound, Meaning, Typed, TypeOK
<1>2. s.pc \in InAudit /\ s.pc \notin Resting /\ s.after \in {"launch_spawn", "idle"}
  <2>1. s.pc \in InAudit /\ s.pc \notin Resting
    BY SMT DEF Audit, AuditSeq, AuditAppend, AuditCollide, InAudit, Resting
  <2>2. s.after \in Afters(w)
    BY <1>1, <2>1 DEF Local
  <2>3. s.after # "emit_release"
    <3> SUFFICES ASSUME s.after = "emit_release" PROVE FALSE
      OBVIOUS
    <3>1. Doing(s) = s.back /\ s.back = "db_body"
      BY <1>1, <2>1, WorkerSets DEF Doing, Local, Backs
    <3>2. q \in replayed
      BY <1>1, <3>1 DEF ReplayInv, ReplayAt, Replays
    <3>3. QED
      BY <3>2 DEF Unreplayed
  <2>4. QED
    BY <2>1, <2>2, <2>3, WorkerSets, SMT DEF Afters
<1>3. q \in Runs /\ Serving /\ replayed' = replayed
  <2>1. replayed' = replayed
    BY Zenon DEF Audit, AuditSeq, AuditAppend, AuditCollide, counts
  <2>2. QED
    BY <1>1, <1>2, <2>1, WorkingThread, WorkerServes, SMT DEF Resting
<1>4. /\ DeskInv(s, row[q], head[q])
      /\ UNCHANGED <<row, head, artifacts, events>>
  <2>1. DeskInv(s, row[q], head[q])
    BY <1>1, <1>2 DEF DesksInv
  <2>2. UNCHANGED <<row, head, artifacts, events>>
    BY Zenon DEF Audit, AuditSeq, AuditAppend, AuditCollide, tables
  <2>3. QED
    BY <2>1, <2>2
<1>5. Launches(s) => row[q].status = "queued"
  BY <1>4 DEF DeskInv
<1>6. CASE AuditSeq(w)
  <2> DEFINE u == [s EXCEPT !.pc = "audit_append", !.seq = Len(audits[q]) + 1]
  <2>1. Become(w, u) /\ audits' = audits
    BY <1>6, Zenon DEF AuditSeq, tables
  <2>2. u \in ThreadState /\ u = thr'[w] /\ \A v \in Threads \ {w} : thr'[v] = thr[v]
    BY <1>1, <2>1, BecomeOnly DEF Typed, TypeOK
  <2>3. u.pc = "audit_append" /\ u.after = s.after /\ u.run = q /\ u.seq = Len(audits[q]) + 1
    BY <1>1, SMT DEF ThreadState
  <2> HIDE DEF u
  <2>4. DeskInv(u, row[q], head[q]) /\ (Launches(u) <=> Launches(s))
    BY <1>2, <1>5, <2>3, SMT DEF Launches, EmitPCs, InAudit, DeskInv, ApPCs
  <2>5. Apart(w, u)
    <3>1. ASSUME NEW v \in Workers \ {w}, Launches(thr[v]), thr[v].run \in Unreplayed
          PROVE  u.run # thr[v].run
      BY <1>1, <1>2, <2>3, <3>1 DEF LaunchAlone
    <3>2. ASSUME Launches(u), NEW v \in Threads \ {w}, thr'[v].pc \notin Resting
          PROVE  thr'[v].run # u.run
      BY <1>1, <2>2, <2>3, <2>4, <3>2 DEF LaunchAlone
    <3>3. QED
      BY <2>1, <2>3, <3>1, <3>2 DEF Apart
  <2>6. QED
    BY <1>2, <1>3, <1>4, <2>1, <2>2, <2>3, <2>4, <2>5, QuietWorker
<1>7. CASE AuditAppend(w)
  <2> DEFINE u == Audited(s)
  <2>1. Become(w, u) /\ audits' = [audits EXCEPT ![q] = Append(@, s.entry)]
    BY <1>7 DEF AuditAppend
  <2>2. u \in ThreadState /\ u = thr'[w] /\ \A v \in Threads \ {w} : thr'[v] = thr[v]
    BY <1>1, <2>1, BecomeOnly DEF Typed, TypeOK
  <2>3. u.pc = s.after /\ (u.pc = "launch_spawn" => u.run = q)
    BY <1>1, <1>2, SMT DEF Audited, ThreadState, Idle
  <2> HIDE DEF u
  <2>4. /\ (u.pc \notin Resting => u.run = q /\ DeskInv(u, row[q], head[q]))
        /\ Launches(u) <=> Launches(s)
    BY <1>2, <1>5, <2>3, SMT DEF Launches, EmitPCs, InAudit, DeskInv, ApPCs, Resting
  <2>5. \A r \in Runs \ {q} : audits'[r] = audits[r]
    BY <2>1, SMT DEF Typed, TypeOK
  <2>6. Apart(w, u)
    <3>1. ASSUME NEW v \in Workers \ {w}, Launches(thr[v]), thr[v].run \in Unreplayed, u.pc \notin Resting
          PROVE  u.run # thr[v].run
      BY <1>1, <1>2, <2>4, <3>1 DEF LaunchAlone
    <3>2. ASSUME Launches(u), NEW v \in Threads \ {w}, thr'[v].pc \notin Resting
          PROVE  thr'[v].run # u.run
      <4>1. u.pc \notin Resting
        BY <3>2, SMT DEF Launches, Resting, InAudit
      <4>2. QED
        BY <1>1, <2>2, <2>4, <3>2, <4>1 DEF LaunchAlone
    <3>3. Launches(u) => u.run = q
      BY <2>4, SMT DEF Launches, Resting, InAudit
    <3>4. u.pc # "audit_append"
      BY <1>2, <2>3
    <3>5. QED
      BY <3>1, <3>2, <3>3, <3>4 DEF Apart
  <2>7. QED
    BY <1>2, <1>3, <1>4, <2>1, <2>2, <2>4, <2>5, <2>6, QuietWorker
<1>8. CASE AuditCollide(w)
  <2>1. Become(w, Idle) /\ audits' = audits /\ s.pc = "audit_append" /\ s.seq <= Len(audits[q])
    BY <1>2, <1>8, Zenon DEF AuditCollide, NumberTaken, Unwound, tables
  <2>2. ~Launches(s)
    <3>1. Launches(s) => s.seq = Len(audits[q]) + 1
      BY <1>1, <2>1 DEF LaunchAlone
    <3>2. Len(audits[q]) \in Nat
      BY <1>3, LenProperties DEF Typed, TypeOK
    <3>3. QED
      BY <2>1, <3>1, <3>2, SMT
  <2>3. Idle \in ThreadState /\ Idle.pc \in Resting /\ ~Launches(Idle)
    BY IdleType, SMT DEF Idle, Launches, InAudit, EmitPCs, Resting
  <2>4. Apart(w, Idle)
    BY <1>1, <2>3, ApartAsBefore
  <2>5. QED
    BY <1>2, <1>3, <1>4, <2>1, <2>2, <2>3, <2>4, QuietWorker
<1>9. QED
  BY <1>6, <1>7, <1>8 DEF Audit

(***************************************************************************)
(* A debug replay starts on any run that exists, and any request on a      *)
(* replayed run stays on it.                                               *)
(***************************************************************************)
LEMMA DbStartSound ==
  ASSUME Typed, OneLaunch, Sound, NEW w \in Workers, DbStart(w)
  PROVE  Sound'
<1> USE DEF At
<1>1. PICK q \in Runs :
         /\ replayed' = replayed \cup {q}
         /\ Become(w, CallEmit([Thread("idle", q) EXCEPT !.left = MaxEmits], "graph", "db_body"))
  BY DEF DbStart
<1> DEFINE a == [Thread("idle", q) EXCEPT !.left = MaxEmits]
           u == CallEmit(a, "graph", "db_body")
<1>2. Thread("idle", q) \in ThreadState /\ Thread("idle", q).run = q
  BY ThreadType, SMT DEF PC
<1>3. a \in ThreadState
  BY <1>2, BoundsAssumption, Zenon DEF ThreadState
<1>4. a.run = q
  BY <1>2, SMT DEF ThreadState
<1>5. Become(w, u)
  BY <1>1
<1> HIDE DEF a
<1>6. u.run = q
  BY <1>3, <1>4, CallFields
<1> HIDE DEF u
<1>7. Serving /\ UNCHANGED tables /\ thr[w].pc \in Resting
  BY SMT DEF DbStart, Resting
<1>8. thr'[w] = u /\ \A v \in Threads \ {w} : thr'[v] = thr[v]
  BY <1>5, BecomeOnly, WorkerSets
<1>9. QED
  BY <1>1, <1>6, <1>7, <1>8, ReplayedWorker DEF tables

LEMMA ReplayedSound ==
  ASSUME Typed, Typed', OneLaunch, Sound, NEW w \in Workers, WorkerStep(w), thr[w].run \in replayed
  PROVE  Sound'
<1> DEFINE s == thr[w]
           q == s.run
<1> USE DEF At
<1>1. /\ w \in Threads /\ s \in ThreadState /\ MainInv /\ q \in Runs
  BY WorkerSets DEF Typed, TypeOK, Sound, Meaning
<1>2. \E u : /\ thr'[w] = u /\ (u.pc \notin Resting => u.run = q) /\ s.pc # "idle"
             /\ \A v \in Threads \ {w} : thr'[v] = thr[v] \/ (v = q /\ thr'[v].run = q)
  <2>1. ASSUME NEW u, Become(w, u) PROVE thr'[w] = u /\ \A v \in Threads \ {w} : thr'[v] = thr[v]
    BY <1>1, <2>1, BecomeOnly
  <2>2. CASE Approve(w) \/ Debug(w)
    <3>1. PICK u : /\ Become(w, u)
                   /\ u.pc # "idle" /\ s.pc # "idle" => u.run = s.run
      BY <2>2, BesideState DEF Beside
    <3>2. s.pc # "idle"
      BY <2>2, SMT DEF Approve, ApLoad, ApResume, ApRejectEdit, ApRead, ApWrite, Debug, DbEmit, DbEnd, DbRaise
    <3>3. QED
      BY <2>1, <3>1, <3>2 DEF Resting
  <2>3. CASE Emit(w)
    <3>1. PICK u : Become(w, u) /\ u.run = s.run /\ s.pc \in EmitPCs
      BY <1>1, <2>3, EmitState
    <3>2. QED
      BY <2>1, <3>1 DEF EmitPCs
  <2>4. CASE Audit(w)
    <3>1. PICK u : Become(w, u) /\ s.pc \in InAudit /\ (u = Idle \/ u.run = s.run)
      BY <1>1, <2>4, AuditState
    <3>2. u = Idle => u.pc \in Resting
      BY DEF Idle, Resting
    <3>3. QED
      BY <2>1, <3>1, <3>2 DEF InAudit
  <2>5. CASE LaunchPayload(w)
    <3> DEFINE u == CallAudit(s, "run_created", "none", "launch_spawn")
    <3>1. Become(w, u) /\ s.pc = "launch_payload"
      BY <2>5 DEF LaunchPayload
    <3>2. u.run = q
      BY <1>1, CallFields
    <3> HIDE DEF u
    <3>3. QED
      BY <2>1, <3>1, <3>2
  <2>6. CASE LaunchSpawn(w)
    <3>1. PICK r \in Runs :
            /\ r = q /\ s.pc = "launch_spawn" /\ thr'[w].pc \in {"audit_seq", "idle"}
            /\ thr'[w].pc = "audit_seq" => thr'[w].run = r
            /\ thr'[r].run = r /\ \A v \in Threads \ {w, r} : thr'[v] = thr[v]
      BY <2>6, LaunchSpawnState
    <3>2. QED
      BY <3>1 DEF Resting
  <2>7. QED
    BY <2>2, <2>3, <2>4, <2>5, <2>6 DEF WorkerStep, Launch
<1>3. PICK u : /\ thr'[w] = u /\ (u.pc \notin Resting => u.run = q) /\ s.pc # "idle"
               /\ \A v \in Threads \ {w} : thr'[v] = thr[v] \/ (v = q /\ thr'[v].run = q)
  BY <1>2
<1>5. Serving
  BY <1>1, <1>3, WorkerServes
<1> DEFINE Only(f, g) == f = g \/ \E x : f = [g EXCEPT ![q] = x]
<1>6. /\ Only(row', row) /\ Only(head', head) /\ Only(artifacts', artifacts) /\ Only(events', events)
      /\ Only(audits', audits) /\ replayed' = replayed
  <2>1. CASE Approve(w) \/ Debug(w)
    BY <2>1, Zenon DEF Approve, ApLoad, ApResume, ApRejectEdit, ApRead, ApWrite, Debug, DbEmit, DbEnd, DbRaise,
       tables, counts, UpdateRun
  <2>2. CASE Emit(w) \/ Audit(w)
    BY <2>2, Zenon DEF Emit, EmitRead, EmitStage, EmitSeq, EmitAppend, EmitRelease,
       Audit, AuditSeq, AuditAppend, AuditCollide, tables, counts, UpdateRun
  <2>3. CASE Launch(w)
    BY <2>3, Zenon DEF Launch, LaunchPayload, LaunchSpawn, tables, counts
  <2>4. QED
    BY <2>1, <2>2, <2>3 DEF WorkerStep
<1>7. \A r \in Runs \ {q} : /\ row'[r] = row[r] /\ head'[r] = head[r] /\ artifacts'[r] = artifacts[r]
                             /\ events'[r] = events[r] /\ audits'[r] = audits[r]
  <2>1. ASSUME NEW f, NEW g, NEW S, g \in [Runs -> S], Only(f, g)
        PROVE  \A r \in Runs \ {q} : f[r] = g[r]
    BY <2>1, SMT
  <2> HIDE DEF Only
  <2>2. /\ row \in [Runs -> Row] /\ head \in [Runs -> Checkpoint] /\ artifacts \in [Runs -> SUBSET Artifact]
        /\ events \in [Runs -> Seq(Kind)] /\ audits \in [Runs -> Seq(Entry)]
    BY <1>1, Zenon DEF Typed, TypeOK
  <2>3. \A r \in Runs \ {q} : row'[r] = row[r]
    BY <1>6, <2>1, <2>2, Zenon
  <2>4. \A r \in Runs \ {q} : head'[r] = head[r]
    BY <1>6, <2>1, <2>2, Zenon
  <2>5. \A r \in Runs \ {q} : artifacts'[r] = artifacts[r]
    BY <1>6, <2>1, <2>2, Zenon
  <2>6. \A r \in Runs \ {q} : events'[r] = events[r]
    BY <1>6, <2>1, <2>2, Zenon
  <2>7. \A r \in Runs \ {q} : audits'[r] = audits[r]
    BY <1>6, <2>1, <2>2, Zenon
  <2>8. QED
    BY <2>3, <2>4, <2>5, <2>6, <2>7, Zenon
<1>8. replayed' = replayed \cup {q}
  BY <1>6
<1>9. QED
  BY <1>1, <1>3, <1>5, <1>7, <1>8, ReplayedWorker

\* A debug thread works on a run it replays, also while it emits.
LEMMA DebugReplays ==
  ASSUME Typed, ReplayInv, NEW w \in Workers, Debug(w) \/ Emit(w)
  PROVE  thr[w].run \in replayed
<1> DEFINE s == thr[w]
<1>1. w \in Threads /\ Local(w, s) /\ ReplayAt(w, s, replayed) /\ Backs(w) = {"db_body"}
  BY WorkerSets DEF Typed, ReplayInv, Backs
<1>2. s.pc = "db_body" \/ s.pc \in EmitPCs
  BY SMT DEF Debug, DbEmit, DbEnd, DbRaise, Emit, EmitRead, EmitStage, EmitSeq, EmitAppend, EmitRelease, At, EmitPCs
<1>3. Replays(s)
  BY <1>1, <1>2, SMT DEF Replays, Doing, Local, EmitPCs, InAudit
<1>4. QED
  BY <1>1, <1>3 DEF ReplayAt

LEMMA WorkerStepSound ==
  ASSUME Typed, Typed', OneLaunch, ReplayInv, Sound, NEW w \in Workers, Request(w) \/ WorkerStep(w)
  PROVE  Sound'
<1>1. CASE Request(w)
  BY <1>1, LaunchCreateSound, ApCheckSound, DbStartSound DEF Request
<1>2. CASE WorkerStep(w) /\ thr[w].run \in replayed
  BY <1>2, ReplayedSound
<1>3. CASE WorkerStep(w) /\ thr[w].run \notin replayed
  <2>1. Launch(w) \/ Approve(w) \/ Audit(w)
    BY <1>3, DebugReplays DEF WorkerStep
  <2>2. thr[w].pc \notin Resting
    BY <2>1, SMT DEF Launch, LaunchPayload, LaunchSpawn, Approve, ApLoad, ApResume, ApRejectEdit, ApRead, ApWrite,
       Audit, AuditSeq, AuditAppend, AuditCollide, At, Resting
  <2>3. thr[w].run \in Unreplayed
    BY <1>3, <2>2, WorkingThread, WorkerSets DEF Unreplayed
  <2>4. QED
    BY <2>1, <2>3, LaunchSound, ApproveSound, WorkerAuditSound
<1>4. QED
  BY <1>1, <1>2, <1>3
-------------------------------------------------------------------------------
(***************************************************************************)
(* The process: it starts, fails the orphans it finds, serves and crashes. *)
(***************************************************************************)
\* No thread works on a run.
Still == \A t \in Runs \cup Workers : At(t, "idle")

LEMMA StillSound == Still /\ RunsInv /\ MainInv /\ (RecoverAtStart /\ Serving => Orphans = {}) => Sound
<1> SUFFICES ASSUME Still, RunsInv, MainInv, RecoverAtStart /\ Serving => Orphans = {}
             PROVE  Sound
  OBVIOUS
<1> USE DEF At, Still
<1>1. \A w \in Workers : thr[w].pc \in Resting /\ ~Launches(thr[w])
  BY SMT DEF Resting, InAudit, Launches
<1>2. DesksInv /\ LaunchAlone
  BY <1>1 DEF DesksInv, LaunchAlone
<1>3. NoOrphan
  BY DEF NoOrphan, Orphans, Unreplayed
<1>4. QED
  BY <1>2, <1>3 DEF Sound, Meaning

LEMMA IdleMeaning ==
  ASSUME NEW r \in Runs, NEW s, NEW R \in Row, NEW h, NEW A, NEW E, RunInv(r, s, R, h, A, E)
  PROVE  RunInv(r, Idle, R, h, A, E)
<1>1. Idle.pc = "idle" /\ Idle.todo = <<>>
  BY DEF Idle
<1>2. QED
  BY <1>1, SMT DEF RunInv, Doing, StatusAt, Announces, CopyFits, Storing, Backed, EmitPCs, InAudit, Row

LEMMA InitSound == Init => Sound
<1> SUFFICES ASSUME Init PROVE Sound
  OBVIOUS
<1> USE DEF At
<1>1. /\ \A t \in Runs \cup Workers : thr[t] = Idle
      /\ thr[Main] = Booted
  BY ThreadsAssumption, Zenon DEF Init, Threads
<1>2. Idle.pc = "idle" /\ Idle.todo = <<>>
  BY DEF Idle
<1>3. Booted.pc = IF RecoverAtStart THEN "boot" ELSE "serving"
  BY ThreadType, SMT DEF Booted, PC
<1>4. RunsInv
  <2> SUFFICES ASSUME NEW r \in Runs PROVE RunInv(r, Idle, NoRow, "none", {}, <<>>)
    BY <1>1, Zenon DEF RunsInv, Init, Unreplayed
  <2>1. \A x : ~Has(<<>>, x)
    BY SMT DEF Has
  <2>2. NoRow.status = "absent" /\ NoRow.stage = "absent"
    BY DEF NoRow
  <2>3. Doing(Idle) = "idle" /\ NoRow.status \in StatusAt("idle")
    <3>1. Doing(Idle) = "idle"
      BY <1>2, SMT DEF Doing, EmitPCs, InAudit
    <3>2. \A place : place = "idle" => StatusAt(place) = Status
      BY SMT DEF StatusAt
    <3>3. QED
      BY <2>2, <3>1, <3>2, SMT DEF Status
  <2>4. Announces(Idle, NoRow) /\ CopyFits(Idle, NoRow) /\ Storing(r, Idle, "none", {})
    BY <1>2, <2>3, SMT DEF Announces, CopyFits, Storing, EmitPCs, InAudit
  <2>5. Backed(r, Idle, NoRow, "none", {}, <<>>)
    BY <2>1, <2>2, Zenon DEF Backed, Offered
  <2>6. QED
    BY <1>2, <2>3, <2>4, <2>5 DEF RunInv
<1>5. MainInv /\ Still
  BY <1>1, <1>2, <1>3, SMT DEF MainInv, Still
<1>6. Orphans = {}
  <2>1. \A r \in Runs : row[r].status = "absent"
    <3>1. \A r \in Runs : row[r] = NoRow
      BY DEF Init
    <3>2. NoRow.status = "absent"
      BY DEF NoRow
    <3>3. QED
      BY <3>1, <3>2, Zenon
  <2>2. QED
    BY <2>1 DEF Orphans
<1>7. QED
  BY <1>4, <1>5, <1>6, StillSound

LEMMA CrashSound ==
  ASSUME Typed, Sound, Crash
  PROVE  Sound'
<1> USE DEF At
<1>1. /\ \A t \in Runs \cup Workers : thr'[t] = Idle
      /\ thr'[Main] = Booted /\ UNCHANGED tables /\ Unreplayed' = Unreplayed
  BY ThreadsAssumption, Zenon DEF Crash, Threads, Unreplayed
<1>2. Idle.pc = "idle"
  BY DEF Idle
<1>3. Booted.pc = IF RecoverAtStart THEN "boot" ELSE "serving"
  BY ThreadType, SMT DEF Booted, PC
<1>4. RunsInv'
  <2> SUFFICES ASSUME NEW r \in Unreplayed PROVE RunInv(r, Idle, row[r], head[r], artifacts[r], events[r])
    BY <1>1, Zenon DEF RunsInv, tables, Unreplayed
  <2>1. r \in Runs /\ RunInv(r, thr[r], row[r], head[r], artifacts[r], events[r]) /\ row[r] \in Row
    BY DEF Sound, Meaning, RunsInv, Typed, TypeOK, Unreplayed
  <2>2. QED
    BY <2>1, IdleMeaning
<1>5. MainInv' /\ Still' /\ (RecoverAtStart /\ Serving => Orphans = {})'
  BY <1>1, <1>2, <1>3, SMT DEF MainInv, Still, Serving
<1>6. QED
  BY <1>4, <1>5, StillSound, PTL

LEMMA RecoverSound ==
  ASSUME Typed, Typed', OneLaunch, Sound, Recover
  PROVE  Sound'
<1> DEFINE s == thr[Main]
<1> USE DEF At
<1>1. RunsInv /\ MainInv /\ Main \in Threads /\ s \in ThreadState /\ Local(Main, s)
  BY ThreadKinds DEF Sound, Meaning, Typed, TypeOK
<1>2. Still /\ s.pc # "serving"
  <2>1. s.pc # "serving"
    BY SMT DEF Recover, RecoverNext, RecoverWrite, RecoverDone, Audit, AuditSeq, AuditAppend, AuditCollide
  <2>2. QED
    BY <1>1, <2>1 DEF MainInv, Still, Serving
<1>3. /\ UNCHANGED <<head, artifacts, events>> /\ Unreplayed' = Unreplayed
      /\ \E u : Become(Main, u)
  BY Zenon DEF Recover, RecoverNext, RecoverWrite, RecoverDone, Audit, AuditSeq, AuditAppend, AuditCollide,
     tables, counts, Unreplayed
<1>4. \A t \in Runs \cup Workers : thr'[t] = thr[t]
  BY <1>1, <1>3, ThreadsAssumption, BecomeOnly DEF Threads
<1>5. Still'
  BY <1>2, <1>4 DEF Still
<1>6. ASSUME row' = row
      PROVE  RunsInv'
  BY <1>1, <1>3, <1>4, <1>6 DEF RunsInv, Unreplayed
<1>7. CASE RecoverNext
  <2>1. PICK q \in Orphans : Become(Main, [Thread("recover_write", q) EXCEPT !.copy = [row[q] EXCEPT !.status = "failed"]])
    BY <1>7 DEF RecoverNext
  <2> DEFINE c == [row[q] EXCEPT !.status = "failed"]
             u == [Thread("recover_write", q) EXCEPT !.copy = c]
  <2>2. row' = row
    BY <1>7, Zenon DEF RecoverNext, tables
  <2>3. q \in Runs /\ row[q].status \in {"queued", "running"} /\ row[q] \in Row
        /\ (q \in Unreplayed => row[q].stage # "advised")
    <3>1. q \in Runs /\ row[q].status \in {"queued", "running"} /\ row[q] \in Row
      BY DEF Orphans, Typed, TypeOK
    <3>2. q \in Unreplayed => row[q].stage # "advised"
      BY <1>1, <3>1 DEF RunsInv, RunInv, Backed
    <3>3. QED
      BY <3>1, <3>2
  <2>4. c.status = "failed" /\ c.stage = row[q].stage
    BY <2>3, SMT DEF Row
  <2> HIDE DEF c
  <2>5. u.pc = "recover_write" /\ u.run = q /\ u.copy = c
    <3>1. Thread("recover_write", q) \in ThreadState /\ Thread("recover_write", q).pc = "recover_write"
          /\ Thread("recover_write", q).run = q
      BY <2>3, ThreadType, SMT DEF PC
    <3>2. QED
      BY <3>1, SMT DEF ThreadState
  <2>6. thr'[Main] = u
    BY <1>1, <2>1, BecomeOnly DEF c
  <2> HIDE DEF u
  <2>7. MainInv' /\ ~Serving'
    <3>1. thr'[Main].pc = "recover_write" /\ thr'[Main].run = q
          /\ thr'[Main].copy.status = "failed"
          /\ (q \in Unreplayed => thr'[Main].copy.stage # "advised")
      BY <2>3, <2>4, <2>5, <2>6
    <3>2. ~Serving'
      BY <3>1 DEF Serving
    <3>3. QED
      BY <1>3, <1>5, <2>2, <2>3, <3>1, <3>2 DEF MainInv, Still
  <2>8. QED
    BY <1>5, <1>6, <2>2, <2>7, StillSound, PTL
<1>8. CASE RecoverWrite
  <2> DEFINE q == s.run
             u == CallAudit(s, "run_interrupted", "none", "boot")
  <2>1. s.pc = "recover_write" /\ Become(Main, u) /\ UpdateRun(q, s.copy)
    BY <1>8 DEF RecoverWrite
  <2>2. /\ q \in Runs /\ row[q].status \in {"queued", "running"}
        /\ s.copy.status = "failed" /\ (q \in Unreplayed => s.copy.stage # "advised")
    <3>1. q \in Runs
      BY <1>1, <2>1, SMT DEF Local, Resting
    <3>2. QED
      BY <1>1, <2>1, <3>1 DEF MainInv
  <2>3. thr'[Main].pc = "audit_seq"
    BY <1>1, <2>1, BecomeOnly, Fields
  <2>4. row'[q] = s.copy /\ \A r \in Runs \ {q} : row'[r] = row[r]
    BY <2>1, <2>2, SMT DEF UpdateRun, Typed, TypeOK
  <2>5. MainInv' /\ ~Serving'
    BY <1>5, <2>3 DEF MainInv, Serving, Still
  <2>6. RunsInv'
    <3> SUFFICES ASSUME NEW r \in Unreplayed PROVE RunInv(r, thr[r], row'[r], head[r], artifacts[r], events[r])
      BY <1>3, <1>4 DEF RunsInv, Unreplayed
    <3>1. RunInv(r, thr[r], row[r], head[r], artifacts[r], events[r]) /\ thr[r].pc = "idle"
      BY <1>1, <1>2 DEF RunsInv, Still, Unreplayed
    <3>2. CASE r # q
      BY <2>4, <3>1, <3>2 DEF Unreplayed
    <3>3. CASE r = q
      BY <2>2, <2>4, <3>1, <3>3,
         SMT DEF RunInv, Doing, StatusAt, Announces, CopyFits, Storing, Backed, EmitPCs, InAudit, Offered, Status
    <3>4. QED
      BY <3>2, <3>3
  <2>7. QED
    BY <1>5, <2>5, <2>6, StillSound, PTL
<1>9. CASE RecoverDone
  <2>1. /\ Orphans = {} /\ row' = row /\ Become(Main, Thread("serving", NoRun))
    BY <1>9, Zenon DEF RecoverDone, tables
  <2>2. thr'[Main].pc = "serving"
    BY <1>1, <2>1, BecomeOnly, ThreadType, SMT DEF PC
  <2>3. MainInv' /\ (RecoverAtStart /\ Serving => Orphans = {})'
    BY <2>1, <2>2 DEF MainInv, Serving, Orphans
  <2>4. QED
    BY <1>5, <1>6, <2>1, <2>3, StillSound, PTL
<1>10. CASE Audit(Main)
  <2>1. s.pc \in InAudit /\ s.after = "boot" /\ row' = row
    <3>1. s.pc \in InAudit /\ row' = row
      BY <1>10, SMT DEF Audit, AuditSeq, AuditAppend, AuditCollide, InAudit, tables
    <3>2. s.after \in Afters(Main)
      BY <1>1, <3>1 DEF Local
    <3>3. QED
      BY <3>1, <3>2, ThreadsAssumption DEF Afters
  <2>2. thr'[Main].pc \in {"audit_append", "boot", "idle"}
    <3>1. CASE AuditSeq(Main)
      <4> DEFINE u == [s EXCEPT !.pc = "audit_append", !.seq = Len(audits[s.run]) + 1]
      <4>1. Become(Main, u)
        BY <3>1, Zenon DEF AuditSeq
      <4>2. u.pc = "audit_append"
        BY <1>1, SMT DEF ThreadState
      <4>3. QED
        BY <1>1, <4>1, <4>2, BecomeOnly
    <3>2. CASE AuditAppend(Main)
      <4>1. Audited(s).pc = "boot"
        BY <1>1, <2>1, SMT DEF Audited, ThreadState
      <4>2. QED
        BY <1>1, <3>2, <4>1, BecomeOnly DEF AuditAppend
    <3>3. CASE AuditCollide(Main)
      <4>1. Become(Main, Idle)
        BY <2>1, <3>3, Zenon DEF AuditCollide, Unwound
      <4>2. QED
        BY <1>1, <4>1, BecomeOnly DEF Idle
    <3>4. QED
      BY <1>10, <3>1, <3>2, <3>3 DEF Audit
  <2>3. MainInv' /\ ~Serving'
    BY <1>5, <2>2, SMT DEF MainInv, Serving, Still
  <2>4. QED
    BY <1>5, <1>6, <2>1, <2>3, StillSound, PTL
<1>11. QED
  BY <1>7, <1>8, <1>9, <1>10 DEF Recover

LEMMA StutterSound == Sound /\ UNCHANGED vars => Sound'
<1> SUFFICES ASSUME Sound, UNCHANGED vars PROVE Sound'
  OBVIOUS
<1>1. /\ row' = row /\ events' = events /\ audits' = audits /\ artifacts' = artifacts
      /\ head' = head /\ thr' = thr /\ Unreplayed' = Unreplayed
  BY DEF vars, Unreplayed
<1>2. RunsInv' /\ DesksInv' /\ MainInv'
  BY <1>1, SMT DEF Sound, Meaning, RunsInv, DesksInv, MainInv, At, Serving
<1>3. LaunchAlone' /\ NoOrphan'
  BY <1>1, SMT DEF Sound, LaunchAlone, NoOrphan, Owned, At, Serving
<1>4. QED
  BY <1>2, <1>3 DEF Sound, Meaning
-------------------------------------------------------------------------------
(***************************************************************************)
(* The invariant of the whole process, debug service included.             *)
(***************************************************************************)
SInv == IInv /\ ReplayInv /\ Sound

LEMMA InitSInv == Init => SInv
  BY InitInv, InitReplay, InitSound DEF SInv

LEMMA StepSInv == SInv /\ [Next]_vars => SInv'
<1> SUFFICES ASSUME SInv, [Next]_vars PROVE SInv'
  OBVIOUS
<1>1. Typed /\ OneLaunch /\ ReplayInv /\ Sound
  BY DEF SInv, IInv
<1>2. IInv' /\ ReplayInv'
  BY StepInv, StepReplay DEF SInv
<1>3. Typed'
  BY <1>2 DEF IInv
<1>4. Sound'
  <2>1. ASSUME NEW r \in Runs, ExecutorStep(r) PROVE Sound'
    BY <1>1, <1>2, <1>3, <2>1, ExecutorSound
  <2>2. ASSUME NEW w \in Workers, Request(w) \/ WorkerStep(w) PROVE Sound'
    BY <1>1, <1>3, <2>2, WorkerStepSound
  <2>3. CASE Recover
    BY <1>1, <1>3, <2>3, RecoverSound
  <2>4. CASE Crash
    BY <1>1, <2>4, CrashSound
  <2>5. CASE UNCHANGED vars
    BY <1>1, <2>5, StutterSound
  <2>6. QED
    BY <2>1, <2>2, <2>3, <2>4, <2>5 DEF Next, Quiescent
<1>5. QED
  BY <1>2, <1>4 DEF SInv

LEMMA SoundInvariant == Spec => []SInv
  BY InitSInv, StepSInv, PTL DEF Spec
-------------------------------------------------------------------------------
(***************************************************************************)
(* What may happen to the row of a run: the moves of RunContract, and only *)
(* a decision the graph took closes a pending approval.  A run that was    *)
(* replayed is under no such rule.                                         *)
(***************************************************************************)
Closed(q) ==
    /\ head[q] \in Decision
    /\ \E w \in Workers : thr'[w].run = q /\ thr'[w].entry.action = "approval_decided"

Moved(from, to) ==
    \/ from = "absent" /\ to = "queued"
    \/ from = "queued" /\ to = "running"
    \/ from = "running" /\ to \in Offered
    \/ from \in {"queued", "running"} /\ to = "failed"

OneMoves(q) ==
    /\ \A r \in Runs \ {q} : row'[r].status = row[r].status
    /\ \/ q \in replayed
       \/ row'[q].status = row[q].status
       \/ Moved(row[q].status, row'[q].status)
       \/ row[q].status = "awaiting_approval" /\ row'[q].status = "completed" /\ Closed(q)

Kept == \A r \in Runs : row'[r].status = row[r].status

LEMMA ExecutorMoves ==
  ASSUME Typed, ReplayInv, RunsInv, NEW r \in Runs, ExecutorStep(r)
  PROVE  OneMoves(r)
<1> DEFINE s == thr[r]
<1> USE DEF At
<1>0. /\ s.run = r /\ \A q \in Runs \ {r} : row'[q] = row[q]
  BY ExecutorFrame DEF Frame
<1> SUFFICES ASSUME r \in Unreplayed PROVE OneMoves(r)
  BY <1>0 DEF OneMoves, Unreplayed
<1>1. /\ s.run = r /\ RunInv(r, s, row[r], head[r], artifacts[r], events[r])
      /\ \A q \in Runs \ {r} : row'[q] = row[q]
  BY <1>0 DEF RunsInv
<1>2. ASSUME UpdateRun(r, s.copy) PROVE row'[r] = s.copy
  BY <1>2, SMT DEF UpdateRun, Typed, TypeOK
<1>3. CASE row' = row
  BY <1>3 DEF OneMoves
<1>4. CASE XRun(r)
  <2>1. row[r].status = "queued" /\ row'[r].status = "running"
    BY <1>1, <1>2, <1>4, SMT DEF XRun, RunInv, Doing, StatusAt, CopyFits, EmitPCs, InAudit
  <2>2. QED
    BY <1>1, <2>1 DEF OneMoves, Moved
<1>5. CASE XPublish(r)
  <2>1. row[r].status = "running" /\ row'[r].status \in Offered
    BY <1>1, <1>2, <1>5, SMT DEF XPublish, RunInv, Doing, StatusAt, CopyFits, EmitPCs, InAudit, Target, Offered
  <2>2. QED
    BY <1>1, <2>1 DEF OneMoves, Moved
<1>6. CASE XFailWrite(r)
  <2>1. row[r].status = "running" /\ row'[r].status = "failed"
    BY <1>1, <1>2, <1>6, SMT DEF XFailWrite, RunInv, Doing, StatusAt, CopyFits, EmitPCs, InAudit
  <2>2. QED
    BY <1>1, <2>1 DEF OneMoves, Moved
<1>7. CASE EmitStage(r)
  <2>1. row'[r].status = row[r].status
    BY <1>1, <1>2, <1>7 DEF EmitStage, RunInv, CopyFits
  <2>2. QED
    BY <1>1, <2>1 DEF OneMoves
<1>8. row' = row \/ XRun(r) \/ XPublish(r) \/ XFailWrite(r) \/ EmitStage(r)
  <2>1. CASE Execute(r)
    BY <2>1, Zenon DEF Execute, XAcquire, XGraphStart, XEmit, XFinish, XInterrupt, XDeny, XRaise,
       XStore, XClose, XComplete, XFailRead, XError, XExit, tables
  <2>2. CASE Emit(r)
    BY <2>2, Zenon DEF Emit, EmitRead, EmitSeq, EmitAppend, EmitRelease, tables
  <2>3. CASE Audit(r)
    BY <2>3, Zenon DEF Audit, AuditSeq, AuditAppend, AuditCollide, tables
  <2>4. QED
    BY <2>1, <2>2, <2>3 DEF ExecutorStep
<1>9. QED
  BY <1>3, <1>4, <1>5, <1>6, <1>7, <1>8

LEMMA WorkerMoves ==
  ASSUME SInv, NEW w \in Workers, Request(w) \/ WorkerStep(w)
  PROVE  Kept \/ \E q \in Runs : OneMoves(q)
<1> DEFINE s == thr[w]
<1> USE DEF At
<1>1. /\ Typed /\ OneLaunch /\ ReplayInv /\ DesksInv
      /\ w \in Threads /\ s \in ThreadState
  BY ThreadKinds DEF SInv, IInv, Sound, Meaning, Typed, TypeOK
<1>2. CASE LaunchCreate(w)
  <2>1. PICK q \in Runs : /\ row[q].status = "absent"
                          /\ UpdateRun(q, [status |-> "queued", stage |-> "queued"])
    BY <1>2 DEF LaunchCreate
  <2>2. row'[q].status = "queued" /\ \A r \in Runs \ {q} : row'[r] = row[r]
    BY <1>1, <2>1, SMT DEF UpdateRun, Typed, TypeOK
  <2>3. OneMoves(q)
    BY <2>1, <2>2 DEF OneMoves, Moved
  <2>4. QED
    BY <2>3
<1>3. CASE ApWrite(w)
  <2> DEFINE q == s.run
             u == CallAudit(s, "approval_decided", s.arg, "idle")
  <2>1. s.pc = "ap_write" /\ UpdateRun(q, s.copy) /\ Become(w, u)
    BY <1>3 DEF ApWrite
  <2>2. s.pc \in ApPCs /\ s.pc \notin Resting
    BY <2>1 DEF ApPCs, Resting
  <2>3. q \in Runs
    BY <1>1, <2>2, WorkingThread
  <2>4. q \in Unreplayed => row[q].status \in Offered /\ head[q] \in Decision /\ s.copy.status = "completed"
    BY <1>1, <2>1, <2>2, <2>3 DEF DesksInv, DeskInv
  <2>5. row'[q] = s.copy /\ \A r \in Runs \ {q} : row'[r] = row[r]
    BY <1>1, <2>1, <2>3, SMT DEF UpdateRun, Typed, TypeOK
  <2>6. thr'[w].run = q /\ thr'[w].entry.action = "approval_decided"
    <3>1. thr'[w] = u
      BY <1>1, <2>1, BecomeOnly
    <3>2. u.run = q /\ u.entry.action = "approval_decided"
      BY <1>1, SMT DEF CallAudit, ThreadState, Note
    <3>3. QED
      BY <3>1, <3>2
  <2>7. OneMoves(q)
    BY <2>3, <2>4, <2>5, <2>6 DEF OneMoves, Closed, Offered, Unreplayed
  <2>8. QED
    BY <2>3, <2>7
<1>4. CASE EmitStage(w)
  <2>1. s.run \in replayed /\ s.run \in Runs
    BY <1>1, <1>4, DebugReplays DEF Emit, Typed, TypeOK
  <2>2. \A r \in Runs \ {s.run} : row'[r] = row[r]
    BY <1>1, <1>4, <2>1, SMT DEF EmitStage, UpdateRun, Typed, TypeOK
  <2>3. OneMoves(s.run)
    BY <2>1, <2>2 DEF OneMoves
  <2>4. QED
    BY <2>1, <2>3
<1>5. row' = row \/ LaunchCreate(w) \/ ApWrite(w) \/ EmitStage(w)
  <2>2. CASE Request(w)
    BY <2>2, Zenon DEF Request, ApCheck, DbStart, tables
  <2>3. CASE Launch(w) \/ Approve(w)
    BY <2>3, Zenon DEF Launch, LaunchPayload, LaunchSpawn, Approve, ApLoad, ApResume, ApRejectEdit, ApRead, tables
  <2>4. CASE Debug(w) \/ Emit(w)
    BY <2>4, Zenon DEF Debug, DbEmit, DbEnd, DbRaise, Emit, EmitRead, EmitSeq, EmitAppend, EmitRelease, tables
  <2>5. CASE Audit(w)
    BY <2>5, Zenon DEF Audit, AuditSeq, AuditAppend, AuditCollide, tables
  <2>6. QED
    BY <2>2, <2>3, <2>4, <2>5 DEF WorkerStep
<1>6. QED
  BY <1>2, <1>3, <1>4, <1>5 DEF Kept

LEMMA RowMoves ==
  ASSUME SInv, [Next]_vars
  PROVE  Kept \/ \E q \in Runs : OneMoves(q)
<1> USE DEF At
<1>1. Typed /\ ReplayInv /\ RunsInv /\ MainInv
  BY DEF SInv, IInv, Sound, Meaning
<1>2. ASSUME NEW r \in Runs, ExecutorStep(r) PROVE OneMoves(r)
  BY <1>1, <1>2, ExecutorMoves
<1>3. CASE RecoverWrite
  <2> DEFINE q == thr[Main].run
  <2>1. /\ thr[Main].pc = "recover_write" /\ UpdateRun(q, thr[Main].copy)
        /\ row[q].status \in {"queued", "running"} /\ thr[Main].copy.status = "failed"
    BY <1>1, <1>3 DEF RecoverWrite, MainInv
  <2>2. q \in Runs
    BY <1>1, <2>1, ThreadKinds, SMT DEF Typed, Local, Resting
  <2>3. row'[q].status = "failed" /\ \A r \in Runs \ {q} : row'[r] = row[r]
    BY <1>1, <2>1, <2>2, SMT DEF UpdateRun, Typed, TypeOK
  <2>4. OneMoves(q)
    BY <2>1, <2>3 DEF OneMoves, Moved
  <2>5. QED
    BY <2>2, <2>4
<1>4. CASE (Recover /\ ~RecoverWrite) \/ Crash \/ Quiescent \/ UNCHANGED vars
  <2>1. row' = row
    BY <1>4, Zenon DEF Recover, RecoverNext, RecoverDone, Audit, AuditSeq, AuditAppend, AuditCollide,
       Crash, Quiescent, vars, tables
  <2>2. QED
    BY <2>1 DEF Kept
<1>5. QED
  BY <1>2, <1>3, <1>4, WorkerMoves DEF Next
-------------------------------------------------------------------------------
(***************************************************************************)
(* The event stream is the authoritative completion signal: in every       *)
(* reachable state a run whose stream ends in "complete" is completed and  *)
(* one whose stream ends in "error" is failed, across crashes, recovery,   *)
(* approvals and the replays of other runs.                                *)
(***************************************************************************)
THEOREM TerminalEventsTrue == Spec => []TerminalEventMatchesRow
<1>1. SInv => TerminalEventMatchesRow
  BY DEF SInv, Sound, Meaning, RunsInv, RunInv, Backed, TerminalEventMatchesRow
<1>2. QED
  BY <1>1, SoundInvariant, PTL

(***************************************************************************)
(* put_artifact comes before the row is published: a run is offered or     *)
(* completed only when its source artifact, its report and (if it waits    *)
(* for approval) its response plan are stored.                             *)
(***************************************************************************)
THEOREM OfferedComplete == Spec => []PublishedAfterArtifacts
<1>1. SInv => PublishedAfterArtifacts
  <2> SUFFICES ASSUME SInv, NEW r \in Unreplayed, row[r].status \in {"awaiting_approval", "completed"}
               PROVE  /\ {SourceArtifact(r), "investigation_report"} \subseteq artifacts[r]
                      /\ thr[r].todo = <<>>
                      /\ row[r].status = "awaiting_approval" => "response_plan" \in artifacts[r]
    BY DEF PublishedAfterArtifacts
  <2>1. Needed(r, row[r].status) \subseteq artifacts[r] /\ thr[r].todo = <<>>
    BY DEF SInv, Sound, Meaning, RunsInv, RunInv, Backed, Offered
  <2>2. QED
    BY <2>1 DEF Needed
<1>2. QED
  BY <1>1, SoundInvariant, PTL

(***************************************************************************)
(* The approval desk offers a run only while its graph is stopped at the   *)
(* approval interrupt or has a decision, and a run shown as advised has a  *)
(* decision: the order of ApprovalService.decide holds against every other *)
(* request, execution and crash.                                           *)
(***************************************************************************)
THEOREM DeskFollowsGraph == Spec => []ApprovalFollowsGraph
<1>1. SInv => ApprovalFollowsGraph
  BY DEF SInv, Sound, Meaning, RunsInv, RunInv, Backed, ApprovalFollowsGraph, Stopped
<1>2. QED
  BY <1>1, SoundInvariant, PTL

(***************************************************************************)
(* With recover_orphans at the start of the process, a serving process     *)
(* never shows a queued or running run that nobody works on: an audit      *)
(* record that finds its number taken never ends a launch, and no          *)
(* execution ends before its run has settled.                              *)
(***************************************************************************)
THEOREM NoOrphansServed == RecoverAtStart /\ Spec => []NoOrphanRun
<1> SUFFICES ASSUME RecoverAtStart PROVE Spec => []NoOrphanRun
  OBVIOUS
<1>1. SInv => NoOrphanRun
  <2> SUFFICES ASSUME SInv, Serving, NEW r \in Unreplayed, row[r].status \in {"queued", "running"}
               PROVE  HasThread(r)
    BY DEF NoOrphanRun
  <2>1. Owned(r)
    BY DEF SInv, Sound, NoOrphan
  <2>2. QED
    BY <2>1, SMT DEF Owned, Launches, HasThread
<1>2. QED
  BY <1>1, SoundInvariant, PTL

(***************************************************************************)
(* A pending approval is left in one way: complete_after_approval, by a    *)
(* request that records the decision the graph has taken.  A restart, the  *)
(* recovery of orphans and the execution itself never close it.            *)
(***************************************************************************)
THEOREM PendingNeedsDecision == Spec => PendingClosedByDecision
<1> DEFINE A == \A r \in Unreplayed : row[r].status = "awaiting_approval" /\ row'[r].status # "awaiting_approval"
           => /\ row'[r].status = "completed"
              /\ head[r] \in Decision
              /\ \E w \in Workers : thr'[w].run = r /\ thr'[w].entry.action = "approval_decided"
<1>1. SInv /\ [Next]_vars => A
  <2> SUFFICES ASSUME SInv, [Next]_vars, NEW r \in Unreplayed,
                      row[r].status = "awaiting_approval", row'[r].status # "awaiting_approval"
               PROVE  row'[r].status = "completed" /\ Closed(r)
    BY DEF Closed
  <2>1. PICK q \in Runs : OneMoves(q)
    BY RowMoves DEF Kept, Unreplayed
  <2>2. q = r /\ r \notin replayed
    BY <2>1 DEF OneMoves, Unreplayed
  <2>3. ~Moved(row[r].status, row'[r].status)
    BY DEF Moved
  <2>4. QED
    BY <2>1, <2>2, <2>3 DEF OneMoves
<1>2. SInv /\ [Next]_vars => [A]_vars
  BY <1>1
<1>3. QED
  BY <1>2, SoundInvariant, PTL DEF PendingClosedByDecision, Spec

\* Only the start of a replay replays.
LEMMA ReplayStarts ==
  ASSUME SInv, [Next]_vars, replayed' # replayed
  PROVE  \E w \in Workers : DbStart(w)
<1>1. ASSUME NEW r \in Runs, ExecutorStep(r) PROVE replayed' = replayed
  BY <1>1, ExecutorFrame DEF SInv, IInv
<1>2. ASSUME NEW w \in Workers, Request(w) \/ WorkerStep(w), ~DbStart(w) PROVE replayed' = replayed
  <2>1. CASE Request(w) \/ Launch(w)
    BY <1>2, <2>1, Zenon DEF Request, LaunchCreate, ApCheck, Launch, LaunchPayload, LaunchSpawn, counts
  <2>2. CASE Approve(w) \/ Debug(w)
    BY <2>2, Zenon DEF Approve, ApLoad, ApResume, ApRejectEdit, ApRead, ApWrite, Debug, DbEmit, DbEnd, DbRaise, counts
  <2>3. CASE Emit(w) \/ Audit(w)
    BY <2>3, Zenon DEF Emit, EmitRead, EmitStage, EmitSeq, EmitAppend, EmitRelease,
       Audit, AuditSeq, AuditAppend, AuditCollide, counts
  <2>4. QED
    BY <1>2, <2>1, <2>2, <2>3 DEF WorkerStep
<1>3. CASE Recover \/ Crash \/ Quiescent \/ UNCHANGED vars
  BY <1>3, Zenon DEF Recover, RecoverNext, RecoverWrite, RecoverDone, Audit, AuditSeq, AuditAppend, AuditCollide,
     Crash, Quiescent, vars, counts
<1>4. QED
  BY <1>1, <1>2, <1>3 DEF Next

LEMMA OneEntry ==
  ASSUME NEW S, NEW q \in S, NEW f, NEW g, f = [x \in S |-> f[x]], g = [x \in S |-> g[x]],
         \A x \in S \ {q} : g[x] = f[x]
  PROVE  g = [f EXCEPT ![q] = g[q]]
  BY SMT

(***************************************************************************)
(* The status column implements the safety part of RunContract: each run   *)
(* is created once, started once, settled once, and a parked run is closed *)
(* once, until its first replay; no thread ever takes a status back.  A    *)
(* replay of one run leaves the contract of all others standing.           *)
(***************************************************************************)
THEOREM StatusKeepsContract == Spec => KeepsContract
<1> DEFINE st == [r \in Runs |-> IF r \in replayed THEN "replayed" ELSE row[r].status]
<1>1. Init => Contract!Init
  BY SMT DEF Init, Contract!Init, NoRow
<1>2. SInv /\ [Next]_vars => [Contract!Next]_st
  <2> SUFFICES ASSUME SInv, [Next]_vars, st' # st
               PROVE  Contract!Next
    OBVIOUS
  <2>0. /\ st = [r \in Runs |-> st[r]] /\ st' = [r \in Runs |-> st'[r]]
        /\ \A r \in Runs : st[r] = (IF r \in replayed THEN "replayed" ELSE row[r].status)
        /\ \A r \in Runs : st'[r] = (IF r \in replayed' THEN "replayed" ELSE row'[r].status)
    OBVIOUS
  <2> HIDE DEF st
  <2>1. CASE replayed' = replayed
    <3>1. ~Kept
      BY <2>0, <2>1 DEF Kept
    <3>2. PICK q \in Runs : OneMoves(q)
      BY <3>1, RowMoves
    <3>3. \A r \in Runs \ {q} : st'[r] = st[r]
      BY <2>0, <2>1, <3>2 DEF OneMoves
    <3>4. st'[q] # st[q] /\ st' = [st EXCEPT ![q] = st'[q]]
      BY <2>0, <3>3, OneEntry
    <3>5. q \notin replayed /\ st[q] = row[q].status /\ st'[q] = row'[q].status
      BY <2>0, <2>1, <3>4
    <3>6. st' = [st EXCEPT ![q] = row'[q].status]
      BY <3>4, <3>5
    <3>7. \/ Contract!Create(q) \/ Contract!Start(q) \/ Contract!Park(q) \/ Contract!Publish(q)
          \/ Contract!Fail(q) \/ Contract!Decide(q)
      BY <3>2, <3>4, <3>5, <3>6, Zenon DEF st, OneMoves, Moved, Offered, Contract!Move, Contract!Active,
         Contract!Create, Contract!Start, Contract!Park, Contract!Publish, Contract!Fail, Contract!Decide
    <3>8. QED
      BY <3>7 DEF Contract!Next, Contract!Settle
  <2>2. CASE replayed' # replayed
    <3>1. PICK w \in Workers : DbStart(w)
      BY <2>2, ReplayStarts
    <3>2. PICK q \in Runs : row[q].status # "absent" /\ replayed' = replayed \cup {q}
      BY <3>1 DEF DbStart
    <3>3. q \notin replayed /\ row' = row /\ row[q].status \in Status
      BY <2>2, <3>1, <3>2, SMT DEF DbStart, tables, SInv, IInv, Typed, TypeOK, Row
    <3>4. st[q] \in {"queued", "running"} \cup Settled /\ st'[q] = "replayed"
      BY <2>0, <3>2, <3>3 DEF Status, Settled, Offered
    <3>5. \A r \in Runs \ {q} : st'[r] = st[r]
      BY <2>0, <3>2, <3>3
    <3>6. st' = [st EXCEPT ![q] = "replayed"]
      BY <2>0, <3>4, <3>5, OneEntry
    <3>7. Contract!Replay(q)
      BY <3>4, <3>6 DEF st, Contract!Replay, Contract!Move, Contract!Active, Contract!Settled, Settled, Offered
    <3>8. QED
      BY <3>7 DEF Contract!Next
  <2>3. QED
    BY <2>1, <2>2
<1>3. QED
  BY <1>1, <1>2, SoundInvariant, PTL DEF Spec, KeepsContract, Contract!Safety
===============================================================================
