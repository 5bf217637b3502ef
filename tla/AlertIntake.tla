------------------------------ MODULE AlertIntake ------------------------------
(***************************************************************************)
(* AlertIntakeConnector: one poll queries the alert source over a window   *)
(* that starts a fixed overlap below the watermark, drops the alerts it    *)
(* already knows, starts a run for the oldest of the others, and advances  *)
(* the watermark.  The background poller and the manual poll endpoint call *)
(* it from their own threads.                                              *)
(*                                                                         *)
(* The dedup table and the watermark are in SQLite and survive a crash, as *)
(* do the runs the sink has created; a poll and the disabled flag do not.  *)
(* The source and the sink are external: the source holds alerts with the  *)
(* time it detected them, the sink creates a run, or raises with or        *)
(* without having created one.                                             *)
(***************************************************************************)
EXTENDS Naturals, Sequences, FiniteSets

CONSTANTS
    Alerts,       \* the alerts the source will ever hold
    Mappable,     \* those with a sha256 and a path; the others are skipped
    Undated,      \* those without detected_at
    Pollers,      \* threads that poll: the background poller, requests of the manual endpoint
    Background,   \* the background poller
    None,         \* no watermark, no success yet, no time, no owner of the lock
    Overlap,      \* how far below the watermark the window reaches
    MaxRuns,      \* max_runs_per_poll
    FetchLimit,   \* alert_limit * page_limit: records one poll fetches at most
    RetryLimit,   \* RETRY_LIMIT
    MaxClock,     \* bound: the clock
    MaxCrashes    \* bound: crashes of the process

ASSUME AlertsAssumption ==
    /\ Mappable \subseteq Alerts
    /\ Undated \subseteq Alerts
    /\ Background \in Pollers
    /\ None \notin Pollers \cup Nat

ASSUME AlertsFinite == IsFiniteSet(Alerts)

ASSUME LimitsAssumption ==
    /\ {Overlap, MaxClock, MaxCrashes} \subseteq Nat
    /\ {MaxRuns, FetchLimit, RetryLimit} \subseteq Nat \ {0}

VARIABLES
    clock,      \* the time of day
    arrived,    \* the alerts the source holds
    detected,   \* detected[a]: when the source detected a
    state,      \* state[a]: intake_alerts.state, "new" without a row
    fails,      \* fails[a]: intake_alerts.fail_count
    watermark,  \* the stored watermark
    runs,       \* runs[a]: runs the sink has returned for a
    stray,      \* stray[a]: runs of a stored by a start that then raised
    disabled,   \* the connector's _disabled flag
    lock,       \* the poller that holds the connector's lock
    poll,       \* poll[p]: the poll thread p is in
    crashes     \* crashes so far

store  == <<state, fails, watermark>>
source == <<clock, arrived, detected>>
vars   == <<clock, arrived, detected, state, fails, watermark, runs, stray, disabled, lock, poll, crashes>>

Terminal == {"seen", "skipped", "abandoned"}
State    == {"new", "failed"} \cup Terminal
Time     == Nat \cup {None}
Poll     == [pc : {"idle", "query", "known", "next", "record", "audit"}, base : Nat, now : Nat,
             fetched : SUBSET Alerts, todo : Seq(Alerts), latest : Time]

NoPoll == [pc |-> "idle", base |-> 0, now |-> 0, fetched |-> {}, todo |-> <<>>, latest |-> None]

At(p, pc)    == poll[p].pc = pc
Become(p, s) == poll' = [poll EXCEPT ![p] = s]
EndPoll(p)   == Become(p, NoPoll) /\ lock' = None
-------------------------------------------------------------------------------
\* Later than: an alert without a time is sorted before all others.
Later(a, b) == a \notin Undated /\ (b \in Undated \/ detected[a] > detected[b])

\* What the source answers for a window; an alert without a time is in every window.
InWindow(a, base, now) ==
    /\ a \in arrived
    /\ a \in Undated \/ (detected[a] + Overlap >= base /\ detected[a] <= now)

Window(base, now) == {a \in Alerts : InWindow(a, base, now)}

\* The window is anchored at the watermark, at the clock as long as there is none.
Anchor == IF watermark = None THEN clock ELSE watermark

\* Mutant: polls do not exclude each other.
PollBegin_NoLock(p) ==
    /\ At(p, "idle")
    /\ ~disabled
    /\ lock' = p
    /\ Become(p, [NoPoll EXCEPT !.pc = "query", !.base = Anchor, !.now = clock])
    /\ UNCHANGED <<source, store, runs, stray, disabled, crashes>>

PollBegin(p) ==
    /\ At(p, "idle")
    /\ ~disabled
    /\ lock = None
    /\ lock' = p
    /\ Become(p, [NoPoll EXCEPT !.pc = "query", !.base = Anchor, !.now = clock])
    /\ UNCHANGED <<source, store, runs, stray, disabled, crashes>>

\* The pages of one poll, up to the page limit; the source chooses their order.
PollFetch(p) ==
    /\ At(p, "query")
    /\ LET window == Window(poll[p].base, poll[p].now)
       IN  \E records \in SUBSET window :
              /\ Cardinality(window) <= FetchLimit => records = window
              /\ Cardinality(window) > FetchLimit => Cardinality(records) = FetchLimit
              /\ Become(p, [poll[p] EXCEPT !.pc = "known", !.fetched = records])
    /\ UNCHANGED <<source, store, runs, stray, disabled, lock, crashes>>

PollUnsupported(p) ==
    /\ At(p, "query")
    /\ disabled' = TRUE
    /\ EndPoll(p)
    /\ UNCHANGED <<source, store, runs, stray, crashes>>

\* DataAccessError: the watermark stays, the next round retries.
PollFails(p) ==
    /\ At(p, "query")
    /\ EndPoll(p)
    /\ UNCHANGED <<source, store, runs, stray, disabled, crashes>>

\* The orders in which `sorted' may return a set of alerts, oldest first.
Oldest(pending) ==
    {q \in [1..Cardinality(pending) -> pending] :
        \A i, j \in DOMAIN q : i < j => q[i] # q[j] /\ ~ Later(q[i], q[j])}

\* Mutant: a failed alert counts as known.
Known_FailedToo == {a \in Alerts : state[a] # "new"}
Known == {a \in Alerts : state[a] \in Terminal}

PollKnown(p) ==
    /\ At(p, "known")
    /\ \E q \in Oldest(poll[p].fetched \ Known) :
          Become(p, [poll[p] EXCEPT !.pc = "next", !.fetched = {},
                                    !.todo = SubSeq(q, 1, IF Len(q) < MaxRuns THEN Len(q) ELSE MaxRuns)])
    /\ UNCHANGED <<source, store, runs, stray, disabled, lock, crashes>>
-------------------------------------------------------------------------------
(***************************************************************************)
(* The loop over the pending alerts.                                       *)
(***************************************************************************)
Turn(p, a) == At(p, "next") /\ poll[p].todo # <<>> /\ a = Head(poll[p].todo)

RecordAlert(a, s, n) == state' = [state EXCEPT ![a] = s] /\ fails' = [fails EXCEPT ![a] = n]

AlertSkip(p, a) ==
    /\ Turn(p, a)
    /\ a \notin Mappable
    /\ RecordAlert(a, "skipped", 0)
    /\ Become(p, [poll[p] EXCEPT !.todo = Tail(@)])
    /\ UNCHANGED <<source, watermark, runs, stray, disabled, lock, crashes>>

\* start_alert creates the run and spawns its thread.
AlertStart(p, a) ==
    /\ Turn(p, a)
    /\ a \in Mappable
    /\ runs' = [runs EXCEPT ![a] = @ + 1]
    /\ Become(p, [poll[p] EXCEPT !.pc = "record"])
    /\ UNCHANGED <<source, store, stray, disabled, lock, crashes>>

\* Mutant: one attempt too many.
AlertStartFails_LateLimit(p, a) ==
    /\ Turn(p, a)
    /\ a \in Mappable
    /\ RecordAlert(a, IF fails[a] + 1 > RetryLimit THEN "abandoned" ELSE "failed", fails[a] + 1)
    /\ Become(p, [poll[p] EXCEPT !.todo = Tail(@)])
    /\ UNCHANGED <<source, watermark, runs, stray, disabled, lock, crashes>>

\* start_alert raises, before it has stored the run or after: its artifact, its audit and its
\* thread come later.  Nobody takes the row back; the start counts as failed all the same.
AlertStartFails(p, a) ==
    /\ Turn(p, a)
    /\ a \in Mappable
    /\ \E stored \in 0..1 : stray' = [stray EXCEPT ![a] = @ + stored]
    /\ RecordAlert(a, IF fails[a] + 1 >= RetryLimit THEN "abandoned" ELSE "failed", fails[a] + 1)
    /\ Become(p, [poll[p] EXCEPT !.todo = Tail(@)])
    /\ UNCHANGED <<source, watermark, runs, disabled, lock, crashes>>

AlertRecord(p) ==
    /\ At(p, "record")
    /\ RecordAlert(Head(poll[p].todo), "seen", 0)
    /\ Become(p, [poll[p] EXCEPT !.pc = "audit"])
    /\ UNCHANGED <<source, watermark, runs, stray, disabled, lock, crashes>>

AlertAudit(p) ==
    /\ At(p, "audit")
    /\ LET a == Head(poll[p].todo)
           latest == poll[p].latest
       IN  Become(p, [poll[p] EXCEPT !.pc = "next", !.todo = Tail(@),
                         !.latest = IF a \notin Undated /\ (latest = None \/ detected[a] > latest)
                                    THEN detected[a] ELSE latest])
    /\ UNCHANGED <<source, store, runs, stray, disabled, lock, crashes>>

\* The new run's thread audits too: the insert may hit its sequence number, and
\* the exception ends the poll.
AlertAuditRaises(p) ==
    /\ At(p, "audit")
    /\ EndPoll(p)
    /\ UNCHANGED <<source, store, runs, stray, disabled, crashes>>

PollFinish(p) ==
    /\ At(p, "next")
    /\ poll[p].todo = <<>>
    /\ watermark' = IF poll[p].latest = None THEN watermark ELSE poll[p].latest
    /\ EndPoll(p)
    /\ UNCHANGED <<source, state, fails, runs, stray, disabled, crashes>>

Handle(p, a) == AlertSkip(p, a) \/ AlertStart(p, a) \/ AlertStartFails(p, a)

\* A poll that has begun goes on to its end.
PollStep(p) ==
    \/ PollFetch(p) \/ PollUnsupported(p) \/ PollFails(p) \/ PollKnown(p)
    \/ \E a \in Alerts : Handle(p, a)
    \/ AlertRecord(p) \/ AlertAudit(p) \/ AlertAuditRaises(p) \/ PollFinish(p)
-------------------------------------------------------------------------------
(***************************************************************************)
(* The source, the clock, and a crash of the process.                      *)
(***************************************************************************)
Arrive(a) ==
    /\ a \notin arrived
    /\ arrived' = arrived \cup {a}
    /\ detected' = [detected EXCEPT ![a] = clock]
    /\ UNCHANGED <<clock, store, runs, stray, disabled, lock, poll, crashes>>

Tick ==
    /\ clock < MaxClock
    /\ clock' = clock + 1
    /\ UNCHANGED <<arrived, detected, store, runs, stray, disabled, lock, poll, crashes>>

Crash ==
    /\ crashes < MaxCrashes
    /\ crashes' = crashes + 1
    /\ poll' = [p \in Pollers |-> NoPoll]
    /\ lock' = None
    /\ disabled' = FALSE
    /\ UNCHANGED <<source, store, runs, stray>>

\* A disabled connector returns at once; nothing is left to do.
Disabled ==
    /\ disabled
    /\ UNCHANGED vars

Init ==
    /\ clock = 0
    /\ arrived = {}
    /\ detected = [a \in Alerts |-> 0]
    /\ state = [a \in Alerts |-> "new"]
    /\ fails = [a \in Alerts |-> 0]
    /\ watermark = None
    /\ runs = [a \in Alerts |-> 0]
    /\ stray = [a \in Alerts |-> 0]
    /\ disabled = FALSE
    /\ lock = None
    /\ poll = [p \in Pollers |-> NoPoll]
    /\ crashes = 0

Next ==
    \/ \E p \in Pollers : PollBegin(p) \/ PollStep(p)
    \/ \E a \in Alerts : Arrive(a)
    \/ Tick
    \/ Crash
    \/ Disabled

Spec == Init /\ [][Next]_vars

(***************************************************************************)
(* Fairness: the background poller polls again after every interval, a     *)
(* poll that has begun goes on, and the source does not fail for ever.     *)
(* Nobody has to use the manual endpoint.                                  *)
(***************************************************************************)
FairSpec ==
    /\ Spec
    /\ WF_vars(PollBegin(Background))
    /\ \A p \in Pollers : WF_vars(PollStep(p)) /\ SF_vars(PollFetch(p))
-------------------------------------------------------------------------------
TypeOK ==
    /\ clock \in 0..MaxClock
    /\ arrived \subseteq Alerts
    /\ detected \in [Alerts -> Nat]
    /\ state \in [Alerts -> State]
    /\ fails \in [Alerts -> Nat]
    /\ watermark \in Time
    /\ runs \in [Alerts -> Nat]
    /\ stray \in [Alerts -> Nat]
    /\ disabled \in BOOLEAN
    /\ lock \in Pollers \cup {None}
    /\ poll \in [Pollers -> Poll]
    /\ crashes \in 0..MaxCrashes

(***************************************************************************)
(* Whichever threads poll and however often the window returns it, an      *)
(* alert gets at most one run, but for what is accounted for: a crash      *)
(* between start_alert and the record of it costs another, and a start     *)
(* that raises may leave one behind, of which there are no more than the   *)
(* failures on record - fewer than RETRY_LIMIT if a start succeeds at last.*)
(***************************************************************************)
FailedStarts(a) == IF state[a] = "seen" THEN RetryLimit - 1 ELSE fails[a]

OneRunPerAlert == \A a \in Alerts : runs[a] <= 1 + crashes /\ stray[a] <= FailedStarts(a)

(***************************************************************************)
(* A retry is counted: an alert waits for another attempt after fewer than *)
(* RETRY_LIMIT failures and is given up at the limit.                      *)
(***************************************************************************)
RetriesCounted ==
    \A a \in Alerts :
        /\ state[a] = "failed" => fails[a] \in 1..(RetryLimit - 1)
        /\ state[a] = "abandoned" => fails[a] = RetryLimit

(***************************************************************************)
(* An alert the source holds is settled by the retries of the poller,      *)
(* unless the window has left it behind, the connector is disabled, or the *)
(* window holds more alerts than one poll fetches: nothing then keeps the  *)
(* source from answering with the same known alerts for ever.              *)
(***************************************************************************)
LeftBehind(a) == a \notin Undated /\ detected[a] + Overlap < Anchor
Crowded == Cardinality(Window(Anchor, clock)) > FetchLimit

VisibleAlertSettles ==
    \A a \in Alerts : a \in arrived ~> (state[a] \in Terminal \/ LeftBehind(a) \/ Crowded \/ disabled)

(***************************************************************************)
(* Alerts awaiting retry stay inside the window, so no alert is lost       *)
(* (AlertIntakeConnector's docstring).                                     *)
(***************************************************************************)
\* The code does not keep this; no run checks it.
RetryStaysInWindow ==
    \A a \in Alerts : state[a] = "failed" /\ watermark # None => ~ LeftBehind(a)
===============================================================================
