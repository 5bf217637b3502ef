----------------------------- MODULE LiveViewProofs -----------------------------
(***************************************************************************)
(* Proof about LiveView, for a ledger of any length: a page shows its run  *)
(* without a gap, however its reads, its stream and the run interleave.    *)
(***************************************************************************)
EXTENDS LiveView, TLAPS

\* The stream belongs to the page shown, and nothing runs ahead of the ledger.
Bounded ==
    /\ stream.open => page.at = "shown"
    /\ stream.last <= Len(ledger)
    /\ page.at \in {"trajectory", "shown"} => page.last <= Len(ledger)
    /\ page.at = "shown" => page.last <= page.rendered /\ page.rendered <= Len(ledger)

\* The snapshot is shown, and a stream that was opened once has shown nothing beyond the
\* snapshot and its own position.
SnapshotShown ==
    page.at = "shown" =>
        \A n \in Numbers :
            /\ n <= page.rendered => page.shown[n] > 0
            /\ stream.open /\ ~page.reconnected /\ n > page.rendered /\ n > stream.last
                 => page.shown[n] = 0

IInv == TypeOK /\ Bounded /\ SnapshotShown /\ NoEventSkipped

LEMMA InitInv == Init => IInv
BY MaxEventsAssumption DEF Init, IInv, TypeOK, Bounded, SnapshotShown, NoEventSkipped, NewPage,
   Closed, Numbers, Live, Events

\* The run and its events: the ledger only grows.
LEMMA RunInv ==
  ASSUME IInv, UNCHANGED <<page, stream>>, status' \in Live \cup Final,
         ledger' = ledger \/ \E kind \in Events : Emit(kind)
  PROVE  IInv'
<1> USE MaxEventsAssumption
<1>1. ledger' \in Seq(Events) /\ Len(ledger') <= MaxEvents /\ Len(ledger) <= Len(ledger')
  BY SMTT(30) DEF IInv, TypeOK, Emit
<1>2. Len(ledger) \in Nat /\ Len(ledger') \in Nat
  BY <1>1 DEF IInv, TypeOK
<1>3. TypeOK'
  BY <1>1 DEF IInv, TypeOK
<1>4. page.last \in Nat /\ page.rendered \in Nat /\ stream.last \in Nat
  BY DEF IInv, TypeOK
<1>5. Bounded' /\ SnapshotShown'
  BY <1>1, <1>2, <1>4 DEF IInv, Bounded, SnapshotShown
<1>6. NoEventSkipped'
  BY <1>1, <1>2 DEF IInv, NoEventSkipped, Numbers
<1> QED
  BY <1>3, <1>5, <1>6 DEF IInv

LEMMA RunStepInv ==
  ASSUME IInv, Step \/ Begin \/ Park \/ Decide \/ Finish \/ EmitTerminal
  PROVE  IInv'
<1>1. UNCHANGED <<page, stream>>
  BY DEF Step, Begin, Park, Decide, Finish, EmitTerminal
<1>2. status' \in Live \cup Final
  BY DEF IInv, TypeOK, Step, Begin, Park, Decide, Finish, EmitTerminal, Live, Final
<1>3. ledger' = ledger \/ \E kind \in Events : Emit(kind)
  BY DEF Step, Begin, Park, Decide, Finish, EmitTerminal, Events
<1> QED
  BY <1>1, <1>2, <1>3, RunInv

\* The three reads of a snapshot.
LEMMA ReadInv ==
  ASSUME IInv, ReadStatus \/ ReadEvents \/ ReadTrajectory
  PROVE  IInv'
<1> USE MaxEventsAssumption
<1>0. Len(ledger) \in 0..MaxEvents
  BY DEF IInv, TypeOK
<1>1. CASE ReadStatus
  <2>1. page' \in [at : {"status", "events", "trajectory", "shown"}, status : Live \cup Final,
                   last : 0..MaxEvents, rendered : 0..MaxEvents, shown : [Numbers -> 0..2],
                   reloading : BOOLEAN, reconnected : BOOLEAN] /\ page'.at = "events"
    BY <1>1 DEF ReadStatus, IInv, TypeOK
  <2> QED
    BY <1>1, <2>1 DEF ReadStatus, IInv, TypeOK, Bounded, SnapshotShown, NoEventSkipped
<1>2. CASE ReadEvents
  <2>1. page' \in [at : {"status", "events", "trajectory", "shown"}, status : Live \cup Final,
                   last : 0..MaxEvents, rendered : 0..MaxEvents, shown : [Numbers -> 0..2],
                   reloading : BOOLEAN, reconnected : BOOLEAN]
        /\ page'.at = "trajectory" /\ page'.last = Len(ledger)
    BY <1>0, <1>2 DEF ReadEvents, IInv, TypeOK
  <2> QED
    BY <1>0, <1>2, <2>1 DEF ReadEvents, IInv, TypeOK, Bounded, SnapshotShown, NoEventSkipped
<1>3. CASE ReadTrajectory
  <2>1. Shown(Len(ledger)) \in [Numbers -> 0..2]
        /\ \A n \in Numbers : /\ Shown(Len(ledger))[n] > 0 <=> n <= Len(ledger)
                              /\ Shown(Len(ledger))[n] # 2
                              /\ Shown(Len(ledger))[n] = 0 <=> n > Len(ledger)
    BY <1>0 DEF Shown, Numbers
  <2> DEFINE r == Len(ledger)
             s == Shown(r)
  <2>a. page.at = "trajectory" /\ page.last \in Nat /\ page.last <= r
    BY <1>3 DEF ReadTrajectory, IInv, TypeOK, Bounded
  <2>b. page' = [page EXCEPT !.at = "shown", !.rendered = r, !.shown = s]
    BY <1>3 DEF ReadTrajectory
  <2>c. r \in 0..MaxEvents /\ s \in [Numbers -> 0..2]
    BY <1>0, <2>1
  <2> HIDE DEF r, s
  <2>d. /\ page' \in [at : {"status", "events", "trajectory", "shown"}, status : Live \cup Final,
                   last : 0..MaxEvents, rendered : 0..MaxEvents, shown : [Numbers -> 0..2],
                   reloading : BOOLEAN, reconnected : BOOLEAN]
        /\ page'.at = "shown" /\ page'.last = page.last /\ page'.rendered = r /\ page'.shown = s
    BY <2>b, <2>c DEF IInv, TypeOK
  <2>2. /\ page' \in [at : {"status", "events", "trajectory", "shown"}, status : Live \cup Final,
                   last : 0..MaxEvents, rendered : 0..MaxEvents, shown : [Numbers -> 0..2],
                   reloading : BOOLEAN, reconnected : BOOLEAN]
        /\ page'.at = "shown" /\ page'.last = page.last /\ page'.rendered = Len(ledger)
        /\ page'.shown = Shown(Len(ledger)) /\ page.last \in Nat /\ page.last <= Len(ledger)
    BY <2>a, <2>d DEF r, s
  <2>3. stream' \in [open : BOOLEAN, last : 0..MaxEvents] /\ stream'.last = 0
    BY <1>3 DEF ReadTrajectory, Opened, Closed
  <2>4. ledger' = ledger /\ status' = status
    BY <1>3 DEF ReadTrajectory
  <2>5. TypeOK'
    BY <2>2, <2>3, <2>4 DEF IInv, TypeOK
  <2>6. Bounded' /\ SnapshotShown'
    BY <1>0, <2>1, <2>2, <2>3, <2>4 DEF Bounded, SnapshotShown, Numbers
  <2>7. NoEventSkipped'
    BY <1>0, <2>1, <2>2, <2>3, <2>4 DEF NoEventSkipped, Numbers
  <2> QED
    BY <2>5, <2>6, <2>7 DEF IInv
<1> QED
  BY <1>1, <1>2, <1>3

\* An event arrives: everything before it is shown already.
LEMMA DeliverInv == ASSUME IInv, Deliver PROVE IInv'
<1> USE MaxEventsAssumption
<1> DEFINE n == stream.last + 1
<1>1. /\ Len(ledger) \in 0..MaxEvents /\ n \in Numbers /\ n <= Len(ledger)
      /\ page.last \in Nat /\ page.rendered \in Nat /\ stream.last \in Nat
      /\ page.shown \in [Numbers -> 0..2] /\ stream.open /\ page.at = "shown"
  BY DEF Deliver, IInv, TypeOK, Bounded, Numbers
<1>2. /\ stream' \in [open : BOOLEAN, last : 0..MaxEvents] /\ stream'.last = n /\ stream'.open
      /\ ledger' = ledger /\ status' = status
  BY <1>1, SMTT(30) DEF Deliver, IInv, TypeOK, Numbers
<1>3. CASE n <= page.last
  <2>1. page' = page
    BY <1>3 DEF Deliver
  <2>2. TypeOK' /\ Bounded'
    BY <1>1, <1>2, <2>1 DEF IInv, TypeOK, Bounded
  <2>3. SnapshotShown'
    BY <1>1, <1>2, <2>1 DEF IInv, SnapshotShown, Numbers
  <2>4. page.shown[n] > 0
    BY <1>1, <1>3 DEF IInv, SnapshotShown, Bounded
  <2>5. NoEventSkipped'
    BY <1>1, <1>2, <2>1, <2>4 DEF IInv, NoEventSkipped, Numbers
  <2> QED
    BY <2>2, <2>3, <2>5 DEF IInv
<1>4. CASE n > page.last
  <2> DEFINE m == IF page.shown[n] < 2 THEN page.shown[n] + 1 ELSE 2
             s == [page.shown EXCEPT ![n] = m]
  <2>1. m \in 1..2 /\ (page.shown[n] = 0 => m = 1)
    BY <1>1
  <2>2. s \in [Numbers -> 0..2] /\ s[n] = m /\ \A i \in Numbers : i # n => s[i] = page.shown[i]
    BY <1>1, <2>1
  <2> DEFINE b == page.reloading \/ ledger[n] \in {"complete", "error"}
  <2>b. b \in BOOLEAN
    OBVIOUS
  <2>c. ~(n <= page.last)
    BY <1>1, <1>4 DEF Numbers
  <2>d. page' = IF n <= page.last THEN page
                ELSE [page EXCEPT !.shown[n] = IF @ < 2 THEN @ + 1 ELSE 2,
                                  !.reloading = @ \/ ledger[n] \in {"complete", "error"}]
    BY DEF Deliver
  <2>e. page' = [page EXCEPT !.shown = s, !.reloading = b]
    BY <2>c, <2>d
  <2> HIDE DEF b
  <2>3. page' = [page EXCEPT !.shown = s, !.reloading = b] /\ b \in BOOLEAN
    BY <2>b, <2>e
  <2>4. /\ page' \in [at : {"status", "events", "trajectory", "shown"}, status : Live \cup Final,
                   last : 0..MaxEvents, rendered : 0..MaxEvents, shown : [Numbers -> 0..2],
                   reloading : BOOLEAN, reconnected : BOOLEAN]
        /\ page'.at = "shown" /\ page'.last = page.last /\ page'.rendered = page.rendered
        /\ page'.shown = s /\ page'.reconnected = page.reconnected
    BY <1>1, <2>2, <2>3 DEF IInv, TypeOK
  <2>5. TypeOK' /\ Bounded'
    BY <1>1, <1>2, <2>4 DEF IInv, TypeOK, Bounded
  <2>6. \A i \in Numbers : s[i] = 0 => page.shown[i] = 0
    BY <2>1, <2>2
  <2>7. SnapshotShown'
    <3>1. \A i \in Numbers : i <= page.rendered => page.shown[i] > 0
      BY <1>1 DEF IInv, SnapshotShown
    <3>2. \A i \in Numbers : i <= page.rendered => s[i] > 0
      BY <3>1, <2>1, <2>2
    <3>3. \A i \in Numbers : ~page.reconnected /\ i > page.rendered /\ i > n => s[i] = 0
      BY <1>1, <2>2 DEF IInv, SnapshotShown, Numbers
    <3> QED
      BY <3>2, <3>3, <1>2, <2>4 DEF SnapshotShown
  <2>8. \A i \in Numbers : i < n => page.shown[i] > 0
    BY <1>1 DEF IInv, NoEventSkipped, Numbers
  <2>9. \A i \in Numbers : /\ s[i] > 0 => i <= Len(ledger) /\ \A j \in 1..i : s[j] > 0
                           /\ i <= n => s[i] > 0
    <3> SUFFICES ASSUME NEW i \in Numbers
                 PROVE  /\ s[i] > 0 => i <= Len(ledger) /\ \A j \in 1..i : s[j] > 0
                        /\ i <= n => s[i] > 0
      OBVIOUS
    <3>1. \A j \in Numbers : page.shown[j] > 0 \/ j = n => s[j] > 0
      BY <2>1, <2>2
    <3>2. i <= n => s[i] > 0
      BY <3>1, <2>8, <1>1 DEF Numbers
    <3>3. page.shown[i] > 0 => i <= Len(ledger) /\ \A j \in 1..i : page.shown[j] > 0
      BY <1>1 DEF IInv, NoEventSkipped
    <3>4. \A j \in 1..i : j \in Numbers
      BY DEF Numbers
    <3>5. CASE i = n
      BY <3>5, <3>1, <3>4, <2>8, <1>1 DEF Numbers
    <3>6. CASE i # n
      BY <3>6, <3>1, <3>2, <3>3, <3>4, <2>2
    <3> QED
      BY <3>5, <3>6
  <2>10. \A i \in Numbers : s[i] = 2 => page.reconnected \/ i \in (page.last + 1)..page.rendered
    <3>1. \A i \in Numbers : page.shown[i] = 2 => page.reconnected \/ i \in (page.last + 1)..page.rendered
      BY <1>1 DEF IInv, NoEventSkipped
    <3>2. s[n] = 2 => page.reconnected \/ n \in (page.last + 1)..page.rendered
      <4>1. n > stream.last
        BY <1>1
      <4>2. ~page.reconnected /\ n > page.rendered => page.shown[n] = 0
        BY <1>1, <4>1 DEF IInv, SnapshotShown
      <4>3. ~page.reconnected /\ n > page.rendered => s[n] = 1
        BY <4>2, <2>1, <2>2
      <4> QED
        BY <4>3, <1>1, <1>4 DEF Numbers
    <3> QED
      BY <3>1, <3>2, <2>2
  <2>11. NoEventSkipped'
    BY <1>2, <2>4, <2>9, <2>10 DEF NoEventSkipped
  <2> QED
    BY <2>5, <2>7, <2>11 DEF IInv
<1> QED
  BY <1>1, <1>3, <1>4

\* The connection goes and comes back, and the page is taken anew.
LEMMA ConnectionInv ==
  ASSUME IInv, IdleOut \/ Disconnect \/ Reconnect \/ CheckRunTerminal \/ Reload
  PROVE  IInv'
<1> USE MaxEventsAssumption
<1>0. Len(ledger) \in Nat
  BY DEF IInv, TypeOK
<1>1. CASE IdleOut \/ Disconnect
  <2>1. stream' = Closed /\ UNCHANGED <<status, ledger, page>>
    BY <1>1 DEF IdleOut, Disconnect
  <2>2. TypeOK' /\ Bounded' /\ SnapshotShown'
    BY <1>0, <2>1 DEF Closed, IInv, TypeOK, Bounded, SnapshotShown
  <2>3. NoEventSkipped'
    BY <2>1 DEF Closed, IInv, NoEventSkipped
  <2> QED
    BY <2>2, <2>3 DEF IInv
<1>2. CASE Reconnect
  <2>1. /\ page' \in [at : {"status", "events", "trajectory", "shown"}, status : Live \cup Final,
                   last : 0..MaxEvents, rendered : 0..MaxEvents, shown : [Numbers -> 0..2],
                   reloading : BOOLEAN, reconnected : BOOLEAN]
        /\ page'.at = "shown" /\ page.at = "shown" /\ page'.last = page.last
        /\ page'.rendered = page.rendered /\ page'.shown = page.shown /\ page'.reconnected
    BY <1>2 DEF Reconnect, IInv, TypeOK
  <2>2. stream' = Opened /\ UNCHANGED <<status, ledger>>
    BY <1>2 DEF Reconnect
  <2>3. TypeOK' /\ Bounded' /\ SnapshotShown'
    BY <1>0, <2>1, <2>2 DEF Opened, IInv, TypeOK, Bounded, SnapshotShown
  <2>4. NoEventSkipped'
    BY <1>0, <2>1, <2>2 DEF Opened, IInv, NoEventSkipped, Numbers
  <2> QED
    BY <2>3, <2>4 DEF IInv
<1>3. CASE CheckRunTerminal
  <2>1. /\ page' \in [at : {"status", "events", "trajectory", "shown"}, status : Live \cup Final,
                   last : 0..MaxEvents, rendered : 0..MaxEvents, shown : [Numbers -> 0..2],
                   reloading : BOOLEAN, reconnected : BOOLEAN]
        /\ page'.at = page.at /\ page'.last = page.last /\ page'.reconnected = page.reconnected
        /\ page'.rendered = page.rendered /\ page'.shown = page.shown
        /\ UNCHANGED <<status, ledger, stream>>
    BY <1>3 DEF CheckRunTerminal, IInv, TypeOK
  <2> QED
    BY <2>1 DEF IInv, TypeOK, Bounded, SnapshotShown, NoEventSkipped
<1>4. CASE Reload
  <2>1. page' = NewPage /\ stream' = Closed /\ UNCHANGED <<status, ledger>>
    BY <1>4 DEF Reload
  <2> QED
    BY <1>0, <2>1 DEF NewPage, Closed, IInv, TypeOK, Bounded, SnapshotShown, NoEventSkipped,
       Numbers, Live
<1> QED
  BY <1>1, <1>2, <1>3, <1>4

\* Every step keeps the invariant.
LEMMA NextInv == IInv /\ [Next]_vars => IInv'
<1> SUFFICES ASSUME IInv, [Next]_vars PROVE IInv'
  OBVIOUS
<1>1. CASE UNCHANGED vars
  BY <1>1 DEF vars, IInv, TypeOK, Bounded, SnapshotShown, NoEventSkipped
<1>2. CASE Next
  BY <1>2, RunStepInv, ReadInv, DeliverInv, ConnectionInv DEF Next
<1> QED
  BY <1>1, <1>2

LEMMA Invariant == Spec => []IInv
<1> QED
  BY InitInv, NextInv, PTL DEF Spec

\* The page, the stream and the ledger stay within the numbers of the ledger.
THEOREM PageTypes == Spec => []TypeOK
BY Invariant, PTL DEF IInv

\* LAST_SEQ does its work for a ledger of any length: a page shows its run from the first
\* event on without a gap, and twice only what a reopened stream or the second of its two
\* reads brought again.
THEOREM NothingSkipped == Spec => []NoEventSkipped
BY Invariant, PTL DEF IInv
===============================================================================
