-------------------------------- MODULE LiveView --------------------------------
(***************************************************************************)
(* The page of a run and its event stream (presentation/api): a snapshot   *)
(* rendered from three reads, then events pushed over a connection that    *)
(* starts from the first event every time it is opened, a timer that asks  *)
(* for the status, and reloads.  The run itself is what RunLifecycle       *)
(* models, reduced to its status column and its event ledger; the status   *)
(* is written before the terminal event.                                   *)
(*                                                                         *)
(* Bounds: MaxEvents events in the ledger; the page counts how often it    *)
(* shows an event up to two ("again").                                     *)
(***************************************************************************)
EXTENDS Integers, Sequences

CONSTANT MaxEvents
ASSUME MaxEventsAssumption == MaxEvents \in Nat \ {0}

VARIABLES status,   \* the status column of the run
          ledger,   \* its events in the order of their sequence numbers
          page,     \* what the browser holds
          stream    \* the connection: closed, or open with the last number sent
vars == <<status, ledger, page, stream>>

Live     == {"queued", "running", "awaiting_approval"}   \* the page opens a stream
Reloads  == {"completed", "failed", "awaiting_approval"} \* the page reloads itself
Final    == {"completed", "failed"}
Events   == {"step", "complete", "error"}
Numbers  == 1..MaxEvents

Closed == [open |-> FALSE, last |-> 0]
Opened == [open |-> TRUE,  last |-> 0]

\* at: which read of run_page is next, or that the page is shown.  last: LAST_SEQ.  rendered:
\* the events the snapshot shows.  reloading: the timer of finishPage runs.  reconnected: the
\* stream has been opened more than once, which the page itself does not know.
TypeOK ==
    /\ status \in Live \cup Final
    /\ ledger \in Seq(Events) /\ Len(ledger) <= MaxEvents
    /\ page \in [at : {"status", "events", "trajectory", "shown"}, status : Live \cup Final,
                 last : 0..MaxEvents, rendered : 0..MaxEvents, shown : [Numbers -> 0..2],
                 reloading : BOOLEAN, reconnected : BOOLEAN]
    /\ stream \in [open : BOOLEAN, last : 0..MaxEvents]

NewPage == [at |-> "status", status |-> "queued", last |-> 0, rendered |-> 0,
            shown |-> [n \in Numbers |-> 0], reloading |-> FALSE, reconnected |-> FALSE]

Init == /\ status = "queued" /\ ledger = <<>>
        /\ page = NewPage /\ stream = Closed
-------------------------------------------------------------------------------
\* The run, and debug replays, which may emit at any time.
Emit(kind) == Len(ledger) < MaxEvents /\ ledger' = Append(ledger, kind)

Step     == Emit("step") /\ UNCHANGED <<status, page, stream>>
Begin    == status = "queued" /\ status' = "running" /\ UNCHANGED <<ledger, page, stream>>
Park     == status = "running" /\ status' = "awaiting_approval" /\ UNCHANGED <<ledger, page, stream>>
Decide   == status = "awaiting_approval" /\ status' = "completed" /\ UNCHANGED <<ledger, page, stream>>
Finish   == /\ status = "running"
            /\ status' \in Final
            /\ UNCHANGED <<ledger, page, stream>>

\* The terminal event follows the row, if it comes: a run closed by a decision has none.
EmitTerminal ==
    /\ status \in Final
    /\ \A i \in DOMAIN ledger : ledger[i] = "step"
    /\ Emit(IF status = "completed" THEN "complete" ELSE "error")
    /\ UNCHANGED <<status, page, stream>>
-------------------------------------------------------------------------------
\* run_page: the row, its events, and after them the trajectory, each a store call.
ReadStatus ==
    /\ page.at = "status"
    /\ page' = [page EXCEPT !.at = "events", !.status = status]
    /\ UNCHANGED <<status, ledger, stream>>

ReadEvents ==
    /\ page.at = "events"
    /\ page' = [page EXCEPT !.at = "trajectory", !.last = Len(ledger)]
    /\ UNCHANGED <<status, ledger, stream>>

Shown(n) == [i \in Numbers |-> IF i <= n THEN 1 ELSE 0]

\* Mutant: what the page skips is taken from the later of the two reads.
ReadTrajectory_LastFromHere ==
    /\ page.at = "trajectory"
    /\ page' = [page EXCEPT !.at = "shown", !.last = Len(ledger), !.rendered = page.last,
                            !.shown = Shown(page.last)]
    /\ stream' = IF page.status \in Live THEN Opened ELSE Closed
    /\ UNCHANGED <<status, ledger>>

\* The page is rendered from the trajectory, and its script opens the stream if the status
\* it was rendered with is live.
ReadTrajectory ==
    /\ page.at = "trajectory"
    /\ page' = [page EXCEPT !.at = "shown", !.rendered = Len(ledger), !.shown = Shown(Len(ledger))]
    /\ stream' = IF page.status \in Live THEN Opened ELSE Closed
    /\ UNCHANGED <<status, ledger>>

\* generate() sends the next event, and onmessage renders it unless the snapshot has it; a
\* terminal event makes the page reload.
Deliver ==
    /\ stream.open /\ stream.last < Len(ledger)
    /\ LET n == stream.last + 1
       IN  /\ stream' = [stream EXCEPT !.last = n]
           /\ page' = IF n <= page.last THEN page
                      ELSE [page EXCEPT !.shown[n] = IF @ < 2 THEN @ + 1 ELSE 2,
                                        !.reloading = @ \/ ledger[n] \in {"complete", "error"}]
    /\ UNCHANGED <<status, ledger>>

\* The stream ends: after 240 polls without an event, or because the connection is lost.
IdleOut    == stream.open /\ stream.last = Len(ledger) /\ stream' = Closed /\ UNCHANGED <<status, ledger, page>>
Disconnect == stream.open /\ stream' = Closed /\ UNCHANGED <<status, ledger, page>>

\* EventSource opens it again, from the first event: events carry no id to resume from.
Reconnect ==
    /\ page.at = "shown" /\ page.status \in Live /\ ~stream.open
    /\ stream' = Opened
    /\ page' = [page EXCEPT !.reconnected = TRUE]
    /\ UNCHANGED <<status, ledger>>

\* Mutant: a failed run is left to its event.
Ends_NotFailed == Reloads \ {"failed"}

Ends == Reloads

\* checkRunTerminal, from the timer of a live page and after an error of the stream.
CheckRunTerminal ==
    /\ page.at = "shown" /\ page.status \in Live /\ ~page.reloading
    /\ status \in Ends
    /\ page' = [page EXCEPT !.reloading = TRUE]
    /\ UNCHANGED <<status, ledger, stream>>

Reload ==
    /\ page.at = "shown" /\ page.reloading
    /\ page' = NewPage /\ stream' = Closed
    /\ UNCHANGED <<status, ledger>>

Next == \/ Step \/ Begin \/ Park \/ Decide \/ Finish \/ EmitTerminal
        \/ ReadStatus \/ ReadEvents \/ ReadTrajectory
        \/ Deliver \/ IdleOut \/ Disconnect \/ Reconnect
        \/ CheckRunTerminal \/ Reload

Spec == Init /\ [][Next]_vars

\* A page that was asked for is rendered, and its timers run with the service in reach; the
\* stream need not deliver anything and the run need not get anywhere.
FairSpec == /\ Spec
            /\ WF_vars(ReadStatus) /\ WF_vars(ReadEvents) /\ WF_vars(ReadTrajectory)
            /\ WF_vars(CheckRunTerminal) /\ WF_vars(Reload)
-------------------------------------------------------------------------------
\* LAST_SEQ (routes.py:1014, pages.py:1386-1388): wherever the stream breaks off and whatever
\* is emitted between the reads of a snapshot, the page shows the ledger from its first
\* event on without a gap, and twice only what a reopened stream or the second of the two
\* reads brought again.
NoEventSkipped ==
    page.at = "shown" =>
        \A n \in Numbers :
            /\ page.shown[n] > 0 => n <= Len(ledger) /\ \A i \in 1..n : page.shown[i] > 0
            /\ stream.open /\ n <= stream.last => page.shown[n] > 0
            /\ page.shown[n] = 2 => page.reconnected \/ n \in (page.last + 1)..page.rendered

\* finishPage reloads the whole page after a terminal status (pages.py:1335-1338, 1380-1382):
\* an open page comes to show the run completed or failed once it is, even if the stream
\* never says so: because it idled out or broke off, or because the terminal event was in
\* the snapshot already or has not been emitted.
PageShowsTheEnd == status \in Final ~> page.at = "shown" /\ page.status = status
===============================================================================
