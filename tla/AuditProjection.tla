---------------------------- MODULE AuditProjection ----------------------------
(***************************************************************************)
(* projection_auditd.py: audit lines are grouped into records, a record is *)
(* classified into at most one envelope, and a batch of envelopes becomes  *)
(* canonical events with stable process identities and parent relations.   *)
(*                                                                         *)
(* A line belongs to the record At (its time and serial).  A SYSCALL line  *)
(* has the call, whether it succeeded, its process and parent and what its *)
(* arguments a1 and a2 mean if read as open flags; a PATH line has its     *)
(* nametype and path; a USER line stands for the user records.             *)
(***************************************************************************)
EXTENDS Integers, FiniteSets, SequencesExt

CONSTANTS Pids, Paths, Unit     \* Unit: the path of a systemd unit

None      == 0                  \* no parent: pid 0
Access    == {"read", "write", "create"}
FileCalls == {"open", "openat", "creat", "unlink", "rename"}
Calls     == FileCalls \cup {"execve", "execveat", "connect", "setuid"}
Other     == "-"

Line == [at : Nat, type : {"SYSCALL", "PATH", "USER"}, call : Calls \cup {Other},
         success : BOOLEAN, pid : Pids \cup {None}, ppid : Pids \cup {None},
         a1 : Access, a2 : Access, inet : BOOLEAN,
         nametype : {"NORMAL", "CREATE", "DELETE", "PARENT", Other}, path : Paths \cup {Other}]
-------------------------------------------------------------------------------
\* parse_auditd_lines: records in the order their first lines appear.
Records(lines) ==
    LET first == {i \in DOMAIN lines : \A j \in 1..(i - 1) : lines[j].at # lines[i].at}
        order == SetToSortSeq(first, <)
    IN  [n \in DOMAIN order |-> SelectSeq(lines, LAMBDA l : l.at = lines[order[n]].at)]

OfType(record, type) == SelectSeq(record, LAMBDA l : l.type = type)
Items(record) == SelectSeq(OfType(record, "PATH"), LAMBDA l : l.nametype # "PARENT")
Named(record, nametype) == SelectSeq(Items(record), LAMBDA l : l.nametype = nametype)

Envelope(kind, s, op, path, from) ==
    [kind |-> kind, at |-> s.at, pid |-> s.pid, ppid |-> s.ppid,
     op |-> op, path |-> path, from |-> from]

\* The flags are taken from a2 for open and openat alike (line 191).
Flags(s) == IF s.call \in {"open", "openat"} THEN s.a2 ELSE "read"

FileEnvelope(record, s) ==
    LET items   == Items(record)
        old     == Named(record, "DELETE")
        new     == Named(record, "CREATE")
        Op(op)  == {Envelope("file", s, op, items[1].path, Other)}
    IN  IF s.call = "rename"
        THEN IF old # <<>> /\ new # <<>>
             THEN {Envelope("file", s, "rename", new[1].path, old[1].path)} ELSE {}
        ELSE IF items = <<>> THEN {}
        ELSE IF items[1].nametype = "CREATE" \/ Flags(s) = "create" THEN Op("create")
        ELSE IF items[1].nametype = "DELETE" THEN Op("delete")
        ELSE IF Flags(s) = "write" /\ items[1].nametype = "NORMAL" THEN Op("write") ELSE {}

\* Mutant: a denied call leaves its envelope too.
Classify_DeniedToo(record) ==
    LET calls == OfType(record, "SYSCALL")
        s     == calls[1]
    IN  IF calls = <<>> THEN {Envelope("authentication", record[1], Other, Other, Other)}
        ELSE IF s.call = "execve" THEN {Envelope("process", s, Other, Other, Other)}
        ELSE IF s.call \in FileCalls THEN FileEnvelope(record, s) ELSE {}

\* _classify: at most one envelope; a denied call, a read, an incomplete rename, an address
\* that is no Internet address and execveat leave none.
Classify(record) ==
    LET calls == OfType(record, "SYSCALL")
        s     == calls[1]
    IN  IF calls = <<>>
        THEN IF OfType(record, "USER") = <<>> THEN {}
             ELSE {Envelope("authentication", record[1], Other, Other, Other)}
        ELSE IF ~s.success THEN {}
        ELSE CASE s.call = "execve"  -> {Envelope("process", s, Other, Other, Other)}
               [] s.call \in FileCalls -> FileEnvelope(record, s)
               [] s.call = "connect" -> IF s.inet THEN {Envelope("network", s, Other, Other, Other)}
                                        ELSE {}
               [] s.call = "setuid"  -> {Envelope("syscall", s, s.call, Other, Other)}
               [] OTHER -> {}

Parse(lines) ==
    FoldLeft(LAMBDA seq, record : seq \o SetToSeq(Classify(record)), <<>>, Records(lines))
-------------------------------------------------------------------------------
\* Mutant: processes are identified by the process list alone.
Starts_ListOnly(envelopes, listed) == listed

\* project_batch: the start of a process is that of the process list, else its first exec.
Starts(envelopes, listed) ==
    LET execs(pid) == {i \in DOMAIN envelopes :
                          envelopes[i].kind = "process" /\ envelopes[i].pid = pid}
    IN  [pid \in DOMAIN listed \cup {p \in Pids : execs(p) # {}} |->
            IF pid \in DOMAIN listed THEN listed[pid]
            ELSE envelopes[CHOOSE i \in execs(pid) : \A j \in execs(pid) : i <= j].at]

\* _process_ref, with the time of the event itself for a process of unknown start.
ProcessRef(starts, envelope) ==
    <<envelope.pid, IF envelope.pid \in DOMAIN starts THEN starts[envelope.pid] ELSE envelope.at>>

\* The handlers of project: whose act an event is, and its domain.
Project(starts, e) ==
    CASE e.kind = "process" -> [type |-> "process_exec", of |-> {ProcessRef(starts, e)}, env |-> e]
      [] e.kind = "network" -> [type |-> "network_connection", of |-> {ProcessRef(starts, e)},
                                env |-> e]
      [] e.kind = "file" /\ e.path = Unit -> [type |-> "systemd_event", of |-> {}, env |-> e]
      [] e.kind = "file" /\ e.path # Unit ->
            [type |-> "file_event", of |-> {ProcessRef(starts, e)}, env |-> e]
      [] OTHER -> [type |-> e.kind, of |-> {}, env |-> e]

\* The relation to the parent comes before the exec that shows it, once per pair.
Relation(starts, e) ==
    [type |-> "parent", env |-> e,
     of |-> {ProcessRef(starts, e), <<e.ppid, starts[e.ppid]>>}]
Related(starts, e) ==
    e.kind = "process" /\ e.ppid # None /\ e.ppid # e.pid /\ e.ppid \in DOMAIN starts

ProjectBatch(envelopes, listed) ==
    LET starts == Starts(envelopes, listed)
        Step(events, e) ==
            LET known == \E i \in DOMAIN events :
                            /\ events[i].type = "parent"
                            /\ events[i].of = Relation(starts, e).of
                            /\ events[i].env.pid = e.pid
            IN  (IF Related(starts, e) /\ ~known
                 THEN Append(events, Relation(starts, e)) ELSE events)
                \o <<Project(starts, e)>>
    IN  FoldLeft(Step, <<>>, envelopes)
-------------------------------------------------------------------------------
\* What the canonical events may say about a capture, however its lines interleave: an event
\* other than of a user record comes from a call that succeeded ("denied syscalls must not
\* become phantom create/connect evidence"), and of openat only from one that wrote or
\* created; all acts of a process that is listed or seen executing carry one identity, from
\* its first act on, and parent relations connect identities that the acts carry, once each.
EventsExplainCapture(lines, listed) ==
    LET events == ProjectBatch(Parse(lines), listed)
        calls  == {lines[i] : i \in {i \in DOMAIN lines : lines[i].type = "SYSCALL"}}
        Acts   == {i \in DOMAIN events : events[i].of # {} /\ events[i].type # "parent"}
        Stable == DOMAIN listed \cup {l.pid : l \in {l \in calls : l.success /\ l.call = "execve"}}
    IN  /\ \A i \in DOMAIN events : events[i].env.kind # "authentication" =>
              \E l \in calls : /\ l.at = events[i].env.at /\ l.success
                               /\ l.call = "openat" /\ events[i].env.op = "write" => l.a2 = "write"
        /\ \A i, j \in Acts : /\ events[i].env.pid = events[j].env.pid
                              /\ events[i].env.pid \in Stable
                              => events[i].of = events[j].of
        /\ \A i \in DOMAIN events : events[i].type = "parent" =>
              /\ \E j \in Acts : j > i /\ events[j].of \subseteq events[i].of
              /\ \A j \in Acts : events[j].env.pid = events[i].env.ppid
                                 => events[j].of \subseteq events[i].of
              /\ \A j \in DOMAIN events : events[j].type = "parent" /\ j # i =>
                    events[j].of # events[i].of \/ events[j].env.pid # events[i].env.pid
===============================================================================
