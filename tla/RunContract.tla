------------------------------ MODULE RunContract ------------------------------
(***************************************************************************)
(* What an investigation run promises to whoever watches its row: a run is *)
(* created queued, is executed at most once, and then settles: published,  *)
(* failed, or parked for one approval decision that closes it.  Nothing    *)
(* else ever happens to its status, and an active run does settle.  The    *)
(* promise ends with the first debug replay of the run, which every run    *)
(* that exists can have, one that still waits for its execution included.  *)
(***************************************************************************)
CONSTANT Runs

VARIABLE status   \* status[r]: the status column of run r, "absent" before create_run,
                  \* "replayed" from its first debug replay on

Active  == {"queued", "running"}
Settled == {"awaiting_approval", "completed", "failed"}

Init == status = [r \in Runs |-> "absent"]

Move(r, from, to) ==
    /\ status[r] \in from
    /\ status' = [status EXCEPT ![r] = to]

Create(r)  == Move(r, {"absent"}, "queued")
Start(r)   == Move(r, {"queued"}, "running")
Park(r)    == Move(r, {"running"}, "awaiting_approval")
Publish(r) == Move(r, {"running"}, "completed")
Fail(r)    == Move(r, Active, "failed")
Decide(r)  == Move(r, {"awaiting_approval"}, "completed")
Replay(r)  == Move(r, Active \cup Settled, "replayed")

Settle(r) == Park(r) \/ Publish(r) \/ Fail(r)

Next == \E r \in Runs : Create(r) \/ Start(r) \/ Settle(r) \/ Decide(r) \/ Replay(r)

Safety == Init /\ [][Next]_status

\* An active run is not left active for ever.
Spec == Safety /\ \A r \in Runs : WF_status(Start(r) \/ Settle(r))
================================================================================
