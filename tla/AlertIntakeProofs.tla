-------------------------- MODULE AlertIntakeProofs ----------------------------
(***************************************************************************)
(* Proofs about AlertIntake, for every finite set of alerts, every set of  *)
(* polling threads and all limits: a run per alert and the counting of     *)
(* retries.                                                                *)
(***************************************************************************)
EXTENDS AlertIntake, FiniteSetTheorems, TLAPS

\* Only the thread that holds the lock is in a poll.
Excluded == \A p \in Pollers : poll[p].pc # "idle" => lock = p

\* What a poll still has to handle: distinct alerts, none of them settled but the one whose
\* acceptance is being audited.
Pending(p) ==
    /\ poll[p].pc \in {"idle", "query", "known"} => poll[p].todo = <<>>
    /\ poll[p].pc \in {"record", "audit"} => poll[p].todo # <<>>
    /\ \A i, j \in 1..Len(poll[p].todo) : i # j => poll[p].todo[i] # poll[p].todo[j]
    /\ \A i \in 1..Len(poll[p].todo) :
          poll[p].pc # "audit" \/ i # 1 => state[poll[p].todo[i]] \notin Terminal

\* A row that was never written has no failures.
Counted == RetriesCounted /\ \A a \in Alerts : state[a] = "new" => fails[a] = 0

\* The run of an alert is accounted for by its record, or by the poll that is about to write
\* it; a run beyond that has cost a crash.
Recording(a) == \E p \in Pollers : poll[p].pc = "record" /\ poll[p].todo[1] = a
Accounted(a) == state[a] = "seen" \/ Recording(a)
RunsAccounted == \A a \in Alerts : runs[a] <= crashes + (IF Accounted(a) THEN 1 ELSE 0)

\* A run a failed start has left is covered by the failures counted so far; a skipped alert
\* never had a start.
StrayCounted(a) == stray[a] <= FailedStarts(a) /\ (a \notin Mappable => stray[a] = 0)
StraysCounted == \A a \in Alerts : StrayCounted(a)

IInv == TypeOK /\ Excluded /\ (\A p \in Pollers : Pending(p)) /\ Counted /\ RunsAccounted /\ StraysCounted

\* The first state.
LEMMA InitInv == Init => IInv
<1> SUFFICES ASSUME Init PROVE IInv
  OBVIOUS
<1> USE AlertsAssumption, LimitsAssumption DEF Init
<1>0. NoPoll \in Poll /\ 0 \in 0..MaxClock /\ 0 \in 0..MaxCrashes
  BY DEF NoPoll, Poll, Time
<1>1. TypeOK
  BY <1>0 DEF TypeOK, State, Time
<1>2. Excluded /\ \A p \in Pollers : Pending(p)
  BY DEF Excluded, Pending, NoPoll
<1>3. Counted
  BY DEF Counted, RetriesCounted
<1>4. RunsAccounted /\ StraysCounted
  BY DEF RunsAccounted, Accounted, Recording, NoPoll, StraysCounted, StrayCounted, FailedStarts
<1> QED
  BY <1>1, <1>2, <1>3, <1>4 DEF IInv

\* A step of one poll, seen from the others: they are idle, so what it writes concerns
\* nobody else.
LEMMA OthersIdle ==
  ASSUME IInv, NEW p \in Pollers, poll[p].pc # "idle"
  PROVE  /\ lock = p
         /\ \A q \in Pollers \ {p} : poll[q].pc = "idle" /\ poll[q].todo = <<>>
BY DEF IInv, Excluded, Pending

\* A thread between two polls has nothing to handle, whatever the records become.
LEMMA IdlePending ==
  ASSUME NEW q \in Pollers, poll'[q].pc = "idle", poll'[q].todo = <<>>
  PROVE  Pending(q)'
BY DEF Pending

\* The stray runs and their cover do not change.
LEMMA StrayFrame ==
  ASSUME StraysCounted, UNCHANGED <<state, fails, stray>>
  PROVE  StraysCounted'
BY DEF StraysCounted, StrayCounted, FailedStarts

\* The end of a poll: nothing of it is left.
LEMMA EndInv ==
  ASSUME IInv, NEW p \in Pollers, poll[p].pc \notin {"idle", "record"}, EndPoll(p),
         UNCHANGED <<source, state, fails, runs, stray, crashes>>,
         watermark' \in Time, disabled' \in BOOLEAN
  PROVE  IInv'
<1> USE AlertsAssumption
<1>1. poll' = [poll EXCEPT ![p] = NoPoll] /\ lock' = None
  BY DEF EndPoll, Become
<1>a. NoPoll \in Poll
  BY DEF NoPoll, Poll, Time
<1>2. TypeOK'
  BY <1>1, <1>a DEF IInv, TypeOK, source
<1>3. \A q \in Pollers : poll'[q].pc = "idle" /\ poll'[q].todo = <<>>
  BY <1>1, OthersIdle DEF IInv, TypeOK, NoPoll
<1>4. Excluded' /\ \A q \in Pollers : Pending(q)'
  BY <1>3 DEF Excluded, Pending
<1>5. Counted'
  BY DEF IInv, Counted, RetriesCounted
<1>6. \A a \in Alerts : Accounted(a) => Accounted(a)'
  BY OthersIdle DEF Accounted, Recording
<1>7. RunsAccounted' /\ StraysCounted'
  BY <1>6, StrayFrame DEF IInv, RunsAccounted, TypeOK
<1> QED
  BY <1>2, <1>4, <1>5, <1>7 DEF IInv

\* A step inside a poll that neither starts a run nor writes a record.
LEMMA InsideInv ==
  ASSUME IInv, NEW p \in Pollers, NEW s \in Poll,
         poll[p].pc \notin {"idle", "record"}, s.pc \notin {"idle", "record"},
         Become(p, s), UNCHANGED <<source, store, runs, stray, disabled, lock, crashes>>,
         Pending(p)'
  PROVE  IInv'
<1>1. poll' = [poll EXCEPT ![p] = s]
  BY DEF Become
<1>2. TypeOK'
  BY <1>1 DEF IInv, TypeOK, source, store
<1>3. Excluded'
  BY <1>1, OthersIdle DEF IInv, TypeOK, Excluded
<1>4. \A q \in Pollers : Pending(q)'
  <2>1. \A q \in Pollers \ {p} : poll'[q].pc = "idle" /\ poll'[q].todo = <<>>
    BY <1>1, OthersIdle DEF IInv, TypeOK
  <2> QED
    BY <2>1, IdlePending
<1>5. Counted'
  BY DEF IInv, Counted, RetriesCounted, store
<1>6. \A a \in Alerts : Accounted(a) => Accounted(a)'
  BY <1>1, OthersIdle DEF IInv, TypeOK, Accounted, Recording, store
<1>7. RunsAccounted'
  BY <1>6 DEF IInv, RunsAccounted, TypeOK
<1>8. StraysCounted'
  BY StrayFrame DEF IInv, store
<1> QED
  BY <1>2, <1>3, <1>4, <1>5, <1>7, <1>8 DEF IInv

\* The orders of a finite set of alerts: sequences of its members, each once.
LEMMA OldestOrders ==
  ASSUME NEW pending \in SUBSET Alerts, NEW q \in Oldest(pending)
  PROVE  /\ q \in Seq(Alerts)
         /\ \A i \in 1..Len(q) : q[i] \in pending
         /\ \A i, j \in 1..Len(q) : i # j => q[i] # q[j]
<1>1. Cardinality(pending) \in Nat
  BY FS_CardinalityType, FS_Subset, AlertsFinite
<1>2. q \in [1..Cardinality(pending) -> pending]
  BY DEF Oldest
<1>3. q \in Seq(Alerts) /\ Len(q) = Cardinality(pending)
  BY <1>1, <1>2
<1>4. \A i, j \in 1..Len(q) : i < j => q[i] # q[j]
  BY <1>2, <1>3 DEF Oldest
<1> QED
  BY <1>2, <1>3, <1>4

\* What the loop takes of an order.
LEMMA TakenPending ==
  ASSUME IInv, NEW p \in Pollers, PollKnown(p)
  PROVE  \E s \in Poll : s.pc = "next" /\ Become(p, s) /\ Pending(p)'
<1>1. PICK q \in Oldest(poll[p].fetched \ Known) :
          poll' = [poll EXCEPT ![p] = [poll[p] EXCEPT !.pc = "next", !.fetched = {},
                       !.todo = SubSeq(q, 1, IF Len(q) < MaxRuns THEN Len(q) ELSE MaxRuns)]]
  BY DEF PollKnown, Become
<1> DEFINE n == IF Len(q) < MaxRuns THEN Len(q) ELSE MaxRuns
           s == [poll[p] EXCEPT !.pc = "next", !.fetched = {}, !.todo = SubSeq(q, 1, n)]
<1>2. poll[p] \in Poll /\ poll[p].fetched \subseteq Alerts
  BY DEF IInv, TypeOK, Poll
<1>3. /\ q \in Seq(Alerts)
      /\ \A i \in 1..Len(q) : q[i] \in poll[p].fetched \ Known
      /\ \A i, j \in 1..Len(q) : i # j => q[i] # q[j]
  BY <1>2, OldestOrders
<1>4. n \in 0..Len(q) /\ MaxRuns \in Nat
  BY <1>3, LimitsAssumption
<1>5. /\ SubSeq(q, 1, n) \in Seq(Alerts)
      /\ Len(SubSeq(q, 1, n)) = n
      /\ \A i \in 1..n : SubSeq(q, 1, n)[i] = q[i]
  BY <1>3, <1>4
<1>6. s \in Poll
  BY <1>2, <1>5 DEF Poll
<1>7. poll'[p] = s /\ s.todo = SubSeq(q, 1, n) /\ s.pc = "next"
  BY <1>1, <1>2 DEF IInv, TypeOK, Poll
<1>8. Pending(p)'
  BY <1>3, <1>4, <1>5, <1>7 DEF Pending, Known, PollKnown, store
<1> QED
  BY <1>1, <1>6, <1>7, <1>8 DEF Become

\* A record written by the poll whose turn it is, without a new run.
LEMMA RecordInv ==
  ASSUME IInv, NEW p \in Pollers, NEW a \in Alerts, NEW r \in State, NEW n \in Nat,
         Turn(p, a), RecordAlert(a, r, n),
         r = "failed" => n \in 1..(RetryLimit - 1), r = "abandoned" => n = RetryLimit,
         r # "new", r # "seen",
         Become(p, [poll[p] EXCEPT !.todo = Tail(@)]),
         stray' \in [Alerts -> Nat], \A b \in Alerts \ {a} : stray'[b] = stray[b],
         stray'[a] <= n, a \notin Mappable => stray'[a] = 0,
         UNCHANGED <<source, watermark, runs, disabled, lock, crashes>>
  PROVE  IInv'
<1>0. poll[p] \in Poll /\ poll[p].todo \in Seq(Alerts) /\ poll[p].todo # <<>>
      /\ a = poll[p].todo[1] /\ poll[p].pc = "next" /\ Pending(p)
  BY DEF IInv, TypeOK, Poll, Turn, At
<1> DEFINE s == [poll[p] EXCEPT !.todo = Tail(@)]
<1>1. /\ Tail(poll[p].todo) \in Seq(Alerts)
      /\ Len(Tail(poll[p].todo)) = Len(poll[p].todo) - 1
      /\ \A i \in 1..Len(Tail(poll[p].todo)) : Tail(poll[p].todo)[i] = poll[p].todo[i + 1]
  BY <1>0
<1>2. s \in Poll /\ s.pc = "next" /\ s.todo = Tail(poll[p].todo)
  BY <1>0, <1>1 DEF Poll
<1>3. poll' = [poll EXCEPT ![p] = s] /\ poll'[p] = s
  BY DEF Become, IInv, TypeOK
<1>4. state' = [state EXCEPT ![a] = r] /\ fails' = [fails EXCEPT ![a] = n]
  BY DEF RecordAlert
<1>5. TypeOK'
  BY <1>2, <1>3, <1>4 DEF IInv, TypeOK, source
<1>6. Excluded'
  BY <1>0, <1>2, <1>3, OthersIdle DEF IInv, TypeOK, Excluded
<1>7. Pending(p)'
  <2>0. \A i \in 1..Len(s.todo) : /\ i + 1 \in 1..Len(poll[p].todo) /\ i + 1 # 1
                                  /\ s.todo[i] = poll[p].todo[i + 1]
    BY <1>0, <1>1, <1>2
  <2>a. 1 \in 1..Len(poll[p].todo)
    BY <1>0
  <2>1. \A i \in 1..Len(s.todo) : s.todo[i] # a /\ state[s.todo[i]] \notin Terminal
    BY <1>0, <2>0, <2>a, SMTT(30) DEF Pending
  <2>2. \A i \in 1..Len(s.todo) : s.todo[i] \in Alerts
    BY <1>1, <1>2
  <2>3. \A i \in 1..Len(s.todo) : state'[s.todo[i]] \notin Terminal
    BY <2>1, <2>2, <1>4 DEF IInv, TypeOK
  <2>4. \A i, j \in 1..Len(s.todo) : i # j => s.todo[i] # s.todo[j]
    <3> SUFFICES ASSUME NEW i \in 1..Len(s.todo), NEW j \in 1..Len(s.todo), i # j
                 PROVE  s.todo[i] # s.todo[j]
      OBVIOUS
    <3>1. i + 1 \in 1..Len(poll[p].todo) /\ j + 1 \in 1..Len(poll[p].todo) /\ i + 1 # j + 1
      BY <2>0
    <3>2. poll[p].todo[i + 1] # poll[p].todo[j + 1]
      BY <1>0, <3>1 DEF Pending
    <3>3. s.todo[i] = poll[p].todo[i + 1] /\ s.todo[j] = poll[p].todo[j + 1]
      BY <2>0
    <3> HIDE DEF s
    <3> QED
      BY <3>2, <3>3
  <2>5. poll'[p].pc = "next" /\ poll'[p].todo = s.todo
    BY <1>2, <1>3
  <2> HIDE DEF s
  <2> DEFINE todo == s.todo
  <2>6. poll'[p].todo = todo /\ poll'[p].pc = "next"
    BY <2>5
  <2>7. \A i \in 1..Len(todo) : state'[todo[i]] \notin Terminal
    BY <2>3
  <2>8. \A i, j \in 1..Len(todo) : i # j => todo[i] # todo[j]
    BY <2>4
  <2> HIDE DEF todo
  <2> QED
    BY <2>6, <2>7, <2>8 DEF Pending
<1>8. \A q \in Pollers : Pending(q)'
  <2>1. \A q \in Pollers \ {p} : poll'[q].pc = "idle" /\ poll'[q].todo = <<>>
    BY <1>0, <1>3, OthersIdle DEF IInv, TypeOK
  <2> QED
    BY <1>7, <2>1, IdlePending
<1>9. Counted'
  BY <1>4 DEF IInv, TypeOK, Counted, RetriesCounted
<1>10. state[a] # "seen"
  BY <1>0 DEF Pending, Terminal
<1>11. \A b \in Alerts : Accounted(b) => Accounted(b)'
  BY <1>0, <1>3, <1>4, <1>10, OthersIdle DEF IInv, TypeOK, Accounted, Recording
<1>12. RunsAccounted'
  BY <1>11 DEF IInv, RunsAccounted, TypeOK
<1>13. StraysCounted'
  <2> SUFFICES ASSUME NEW b \in Alerts PROVE StrayCounted(b)'
    BY DEF StraysCounted
  <2>1. CASE b = a
    BY <1>4, <2>1 DEF IInv, TypeOK, StrayCounted, FailedStarts
  <2>2. CASE b # a
    BY <1>4, <2>2 DEF IInv, TypeOK, StraysCounted, StrayCounted, FailedStarts
  <2> QED
    BY <2>1, <2>2
<1> QED
  BY <1>5, <1>6, <1>8, <1>9, <1>12, <1>13 DEF IInv

\* The turn of an alert: it is skipped, it fails, or it gets a run that its record has yet to
\* account for.
LEMMA HandleInv == ASSUME IInv, NEW p \in Pollers, NEW a \in Alerts, Handle(p, a) PROVE IInv'
<1>0. poll[p] \in Poll /\ poll[p].todo \in Seq(Alerts) /\ poll[p].todo # <<>>
      /\ a = poll[p].todo[1] /\ poll[p].pc = "next" /\ Pending(p)
  BY DEF IInv, TypeOK, Poll, Turn, At, Handle, AlertSkip, AlertStart, AlertStartFails
<1>a. stray \in [Alerts -> Nat] /\ StrayCounted(a)
  BY DEF IInv, TypeOK, StraysCounted
<1>1. CASE AlertSkip(p, a)
  <2>1. /\ Turn(p, a) /\ RecordAlert(a, "skipped", 0) /\ a \notin Mappable
        /\ Become(p, [poll[p] EXCEPT !.todo = Tail(@)])
        /\ UNCHANGED <<source, watermark, runs, stray, disabled, lock, crashes>>
    BY <1>1 DEF AlertSkip
  <2>2. stray[a] = 0
    BY <1>a, <2>1 DEF StrayCounted
  <2>3. "skipped" \in State /\ 0 \in Nat
    BY DEF State, Terminal
  <2> QED
    BY <1>a, <2>1, <2>2, <2>3, RecordInv
<1>2. CASE AlertStartFails(p, a)
  <2>1. state[a] \in {"new", "failed"} /\ fails[a] \in Nat
    BY <1>0 DEF Pending, IInv, TypeOK, State
  <2>2. RetryLimit \in Nat \ {0}
    BY LimitsAssumption
  <2>3. fails[a] \in 0..(RetryLimit - 1)
    BY <2>1, <2>2 DEF IInv, Counted, RetriesCounted
  <2> DEFINE r == IF fails[a] + 1 >= RetryLimit THEN "abandoned" ELSE "failed"
             n == fails[a] + 1
  <2>4. /\ r \in State /\ n \in Nat /\ r # "new" /\ r # "seen"
        /\ r = "failed" => n \in 1..(RetryLimit - 1)
        /\ r = "abandoned" => n = RetryLimit
    BY <2>2, <2>3 DEF State, Terminal
  <2>5. /\ Turn(p, a) /\ RecordAlert(a, r, n)
        /\ Become(p, [poll[p] EXCEPT !.todo = Tail(@)])
        /\ UNCHANGED <<source, watermark, runs, disabled, lock, crashes>>
    BY <1>2 DEF AlertStartFails
  <2>6. PICK stored \in 0..1 : stray' = [stray EXCEPT ![a] = @ + stored]
    BY <1>2 DEF AlertStartFails
  <2>7. stray[a] <= fails[a] /\ a \in Mappable
    BY <1>2, <1>a, <2>1 DEF StrayCounted, FailedStarts, AlertStartFails
  <2>8. /\ stray' \in [Alerts -> Nat] /\ \A b \in Alerts \ {a} : stray'[b] = stray[b]
        /\ stray'[a] <= n
    BY <1>a, <2>1, <2>6, <2>7
  <2> HIDE DEF r, n
  <2> QED
    BY <2>4, <2>5, <2>7, <2>8, RecordInv
<1>3. CASE AlertStart(p, a)
  <2>1. poll' = [poll EXCEPT ![p] = [poll[p] EXCEPT !.pc = "record"]] /\ runs' = [runs EXCEPT ![a] = @ + 1]
        /\ UNCHANGED <<source, store, stray, disabled, lock, crashes>>
    BY <1>3 DEF AlertStart, Become
  <2>a. /\ poll'[p] \in Poll /\ poll'[p].pc = "record" /\ poll'[p].todo = poll[p].todo
        /\ \A q \in Pollers \ {p} : poll'[q] = poll[q]
    BY <1>0, <2>1 DEF IInv, TypeOK, Poll
  <2>b. poll' \in [Pollers -> Poll] /\ runs' \in [Alerts -> Nat]
    BY <2>1, <2>a DEF IInv, TypeOK
  <2>2. TypeOK'
    BY <2>1, <2>b DEF IInv, TypeOK, source, store
  <2>c. Pending(p)'
    BY <1>0, <2>1, <2>a DEF Pending, store
  <2>d. \A q \in Pollers \ {p} : poll'[q].pc = "idle" /\ poll'[q].todo = <<>>
    BY <1>0, <2>a, OthersIdle
  <2>3. Excluded' /\ \A q \in Pollers : Pending(q)'
    BY <1>0, <2>1, <2>c, <2>d, IdlePending, OthersIdle DEF Excluded
  <2>4. Counted'
    BY <2>1 DEF IInv, Counted, RetriesCounted, store
  <2>5. ~Accounted(a)
    BY <1>0, OthersIdle DEF Accounted, Recording, Pending, Terminal
  <2>6. \A b \in Alerts : Accounted(b) => Accounted(b)'
    BY <1>0, <2>1, OthersIdle DEF IInv, TypeOK, Accounted, Recording, store
  <2>7. Accounted(a)'
    BY <1>0, <2>1 DEF IInv, TypeOK, Accounted, Recording
  <2>8. RunsAccounted'
    BY <2>1, <2>5, <2>6, <2>7 DEF IInv, RunsAccounted, TypeOK
  <2>9. StraysCounted'
    BY <2>1, StrayFrame DEF IInv, store
  <2> QED
    BY <2>2, <2>3, <2>4, <2>8, <2>9 DEF IInv
<1> QED
  BY <1>1, <1>2, <1>3 DEF Handle

\* The record of an accepted alert takes over the account of its run.
LEMMA AlertRecordInv == ASSUME IInv, NEW p \in Pollers, AlertRecord(p) PROVE IInv'
<1>0. poll[p] \in Poll /\ poll[p].todo \in Seq(Alerts) /\ poll[p].pc = "record" /\ Pending(p)
  BY DEF IInv, TypeOK, Poll, At, AlertRecord
<1> DEFINE a == poll[p].todo[1]
<1>1. a \in Alerts /\ Head(poll[p].todo) = a
  BY <1>0 DEF Pending
<1>2. /\ state' = [state EXCEPT ![a] = "seen"] /\ fails' = [fails EXCEPT ![a] = 0]
      /\ poll' = [poll EXCEPT ![p] = [poll[p] EXCEPT !.pc = "audit"]]
      /\ UNCHANGED <<source, watermark, runs, stray, disabled, lock, crashes>>
  BY <1>1 DEF AlertRecord, RecordAlert, Become
<1>3. TypeOK'
  BY <1>0, <1>1, <1>2 DEF IInv, TypeOK, source, State, Terminal, Poll
<1>4. Excluded'
  BY <1>0, <1>2, OthersIdle DEF IInv, TypeOK, Excluded
<1>5. Pending(p)'
  <2>1. poll'[p].pc = "audit" /\ poll'[p].todo = poll[p].todo
    BY <1>0, <1>2 DEF IInv, TypeOK, Poll
  <2>2. \A i \in 1..Len(poll[p].todo) : poll[p].todo[i] \in Alerts
    BY <1>0
  <2>3. \A i \in 1..Len(poll[p].todo) : i # 1 => poll[p].todo[i] # a
    BY <1>0 DEF Pending
  <2>4. \A i \in 1..Len(poll[p].todo) : i # 1 => state'[poll[p].todo[i]] \notin Terminal
    BY <1>0, <1>2, <2>2, <2>3 DEF Pending, IInv, TypeOK
  <2> QED
    BY <1>0, <2>1, <2>4 DEF Pending
<1>6. \A q \in Pollers : Pending(q)'
  <2>1. \A q \in Pollers \ {p} : poll'[q].pc = "idle" /\ poll'[q].todo = <<>>
    BY <1>0, <1>2, OthersIdle DEF IInv, TypeOK
  <2> QED
    BY <1>5, <2>1, IdlePending
<1>7. Counted'
  BY <1>1, <1>2 DEF IInv, TypeOK, Counted, RetriesCounted
<1>8. \A b \in Alerts : Accounted(b) => Accounted(b)'
  BY <1>0, <1>1, <1>2, OthersIdle DEF IInv, TypeOK, Accounted, Recording
<1>9. RunsAccounted'
  BY <1>2, <1>8 DEF IInv, RunsAccounted, TypeOK
<1>10. StraysCounted'
  <2> SUFFICES ASSUME NEW b \in Alerts PROVE StrayCounted(b)'
    BY DEF StraysCounted
  <2>1. CASE b = a
    <3>1. state[a] \in {"new", "failed"}
      BY <1>0, <1>1 DEF Pending, IInv, TypeOK, State
    <3>2. fails[a] <= RetryLimit - 1 /\ RetryLimit \in Nat \ {0} /\ fails[a] \in Nat
      BY <1>1, <3>1, LimitsAssumption DEF IInv, TypeOK, Counted, RetriesCounted
    <3>3. stray[a] <= RetryLimit - 1 /\ StrayCounted(a)
      BY <1>1, <3>1, <3>2 DEF IInv, TypeOK, StraysCounted, StrayCounted, FailedStarts
    <3> QED
      BY <1>1, <1>2, <2>1, <3>3 DEF IInv, TypeOK, StrayCounted, FailedStarts
  <2>2. CASE b # a
    <3>1. state'[b] = state[b] /\ fails'[b] = fails[b] /\ stray'[b] = stray[b] /\ StrayCounted(b)
      BY <1>2, <2>2 DEF IInv, TypeOK, StraysCounted
    <3> QED
      BY <3>1 DEF StrayCounted, FailedStarts
  <2> QED
    BY <2>1, <2>2
<1> QED
  BY <1>3, <1>4, <1>6, <1>7, <1>9, <1>10 DEF IInv

\* The audit of an accepted alert ends its turn.
LEMMA AlertAuditInv == ASSUME IInv, NEW p \in Pollers, AlertAudit(p) PROVE IInv'
<1>0. poll[p] \in Poll /\ poll[p].todo \in Seq(Alerts) /\ poll[p].todo # <<>>
      /\ poll[p].pc = "audit" /\ Pending(p)
  BY DEF IInv, TypeOK, Poll, Pending, AlertAudit, At
<1>1. PICK t \in Time : poll' = [poll EXCEPT ![p] = [poll[p] EXCEPT !.pc = "next",
                                                   !.todo = Tail(@), !.latest = t]]
  <2>1. Head(poll[p].todo) \in Alerts /\ poll[p].latest \in Time
    BY <1>0 DEF Poll
  <2>2. (IF Head(poll[p].todo) \notin Undated
            /\ (poll[p].latest = None \/ detected[Head(poll[p].todo)] > poll[p].latest)
         THEN detected[Head(poll[p].todo)] ELSE poll[p].latest) \in Time
    BY <2>1 DEF IInv, TypeOK, Time
  <2> QED
    BY <2>2 DEF AlertAudit, Become
<1> DEFINE todo == Tail(poll[p].todo)
           s == [poll[p] EXCEPT !.pc = "next", !.todo = Tail(@), !.latest = t]
<1>2. /\ todo \in Seq(Alerts)
      /\ \A i \in 1..Len(todo) : /\ i + 1 \in 1..Len(poll[p].todo) /\ i + 1 # 1
                                 /\ todo[i] = poll[p].todo[i + 1]
  BY <1>0
<1>3. s \in Poll /\ s.pc = "next" /\ s.todo = todo
  BY <1>0, <1>2 DEF Poll
<1>4. poll'[p] = s /\ Become(p, s)
  BY <1>1 DEF Become, IInv, TypeOK
<1>5. UNCHANGED <<source, store, runs, stray, disabled, lock, crashes>>
  BY DEF AlertAudit
<1>6. Pending(p)'
  <2>1. \A i \in 1..Len(todo) : state[todo[i]] \notin Terminal
    BY <1>0, <1>2 DEF Pending
  <2>2. \A i, j \in 1..Len(todo) : i # j => todo[i] # todo[j]
    <3> SUFFICES ASSUME NEW i \in 1..Len(todo), NEW j \in 1..Len(todo), i # j
                 PROVE  todo[i] # todo[j]
      OBVIOUS
    <3>1. i + 1 \in 1..Len(poll[p].todo) /\ j + 1 \in 1..Len(poll[p].todo) /\ i + 1 # j + 1
      BY <1>2
    <3> QED
      BY <1>0, <1>2, <3>1 DEF Pending
  <2> HIDE DEF s, todo
  <2> QED
    BY <2>1, <2>2, <1>3, <1>4, <1>5 DEF Pending, store
<1> HIDE DEF s
<1> QED
  BY <1>0, <1>3, <1>4, <1>5, <1>6, InsideInv

\* A poll begins with the lock and with nothing to handle.
LEMMA PollBeginInv == ASSUME IInv, NEW p \in Pollers, PollBegin(p) PROVE IInv'
<1> USE AlertsAssumption
<1> DEFINE s == [NoPoll EXCEPT !.pc = "query", !.base = Anchor, !.now = clock]
<1>1. /\ lock = None /\ lock' = p /\ poll' = [poll EXCEPT ![p] = s]
      /\ UNCHANGED <<source, store, runs, stray, disabled, crashes>>
  BY DEF PollBegin, Become
<1>a. NoPoll \in Poll /\ NoPoll.todo = <<>>
  BY DEF NoPoll, Poll, Time
<1>b. Anchor \in Nat /\ clock \in Nat
  BY LimitsAssumption DEF IInv, TypeOK, Anchor, Time
<1>2. s \in Poll /\ s.pc = "query" /\ s.todo = <<>>
  BY <1>a, <1>b DEF Poll
<1> HIDE DEF s
<1>3. \A q \in Pollers : poll[q].pc = "idle" /\ poll[q].todo = <<>>
  BY <1>1 DEF IInv, Excluded, Pending
<1>4. \A q \in Pollers : poll'[q] = IF q = p THEN s ELSE poll[q]
  BY <1>1 DEF IInv, TypeOK
<1>5. TypeOK'
  BY <1>1, <1>2 DEF IInv, TypeOK, source, store
<1>6. Excluded'
  BY <1>1, <1>3, <1>4 DEF Excluded
<1>7. \A q \in Pollers : Pending(q)'
  BY <1>2, <1>3, <1>4 DEF Pending
<1>8. Counted'
  BY <1>1 DEF IInv, Counted, RetriesCounted, store
<1>9. \A b \in Alerts : Accounted(b) => Accounted(b)'
  BY <1>1, <1>3 DEF Accounted, Recording, store
<1>10. RunsAccounted'
  BY <1>1, <1>9 DEF IInv, RunsAccounted, TypeOK
<1>11. StraysCounted'
  BY <1>1, StrayFrame DEF IInv, store
<1> QED
  BY <1>5, <1>6, <1>7, <1>8, <1>10, <1>11 DEF IInv

\* The source and the clock touch nothing of the connector.
LEMMA SourceInv == ASSUME IInv, (\E a \in Alerts : Arrive(a)) \/ Tick PROVE IInv'
<1>1. UNCHANGED <<store, runs, stray, disabled, lock, poll, crashes>>
  BY DEF Arrive, Tick
<1>2. clock' \in 0..MaxClock /\ arrived' \subseteq Alerts /\ detected' \in [Alerts -> Nat]
  <2>1. CASE \E a \in Alerts : Arrive(a)
    <3>1. clock \in Nat
      BY LimitsAssumption DEF IInv, TypeOK
    <3> QED
      BY <2>1, <3>1 DEF IInv, TypeOK, Arrive
  <2>2. CASE Tick
    BY <2>2, LimitsAssumption DEF IInv, TypeOK, Tick
  <2> QED
    BY <2>1, <2>2
<1>3. TypeOK'
  BY <1>1, <1>2 DEF IInv, TypeOK, store
<1>4. Excluded' /\ Counted' /\ RunsAccounted'
  BY <1>1 DEF IInv, Excluded, Counted, RetriesCounted, RunsAccounted, Accounted, Recording, store
<1>5. \A p \in Pollers : Pending(p)'
  <2> SUFFICES ASSUME NEW p \in Pollers PROVE Pending(p)'
    OBVIOUS
  <2>1. Pending(p)
    BY DEF IInv
  <2> QED
    BY <1>1, <2>1 DEF Pending, store
<1>6. StraysCounted'
  BY <1>1, StrayFrame DEF IInv, store
<1> QED
  BY <1>3, <1>4, <1>5, <1>6 DEF IInv

\* A crash ends every poll; what a run was owed becomes the crash's.
LEMMA CrashInv == ASSUME IInv, Crash PROVE IInv'
<1>1. /\ poll' = [p \in Pollers |-> NoPoll] /\ lock' = None /\ disabled' = FALSE
      /\ crashes < MaxCrashes /\ crashes' = crashes + 1 /\ UNCHANGED <<source, store, runs, stray>>
  BY DEF Crash
<1>2. NoPoll \in Poll
  BY DEF NoPoll, Poll, Time
<1>a. crashes' \in 0..MaxCrashes
  BY <1>1, LimitsAssumption DEF IInv, TypeOK
<1>b. poll' \in [Pollers -> Poll] /\ lock' \in Pollers \cup {None} /\ disabled' \in BOOLEAN
  BY <1>1, <1>2
<1>3. TypeOK'
  BY <1>1, <1>a, <1>b DEF IInv, TypeOK, source, store
<1>4. \A q \in Pollers : poll'[q].pc = "idle" /\ poll'[q].todo = <<>>
  BY <1>1 DEF NoPoll
<1>5. Excluded' /\ \A q \in Pollers : Pending(q)'
  BY <1>4, IdlePending DEF Excluded
<1>6. Counted'
  BY <1>1 DEF IInv, Counted, RetriesCounted, store
<1>7. RunsAccounted'
  BY <1>1 DEF IInv, TypeOK, RunsAccounted
<1>8. StraysCounted'
  BY <1>1, StrayFrame DEF IInv, store
<1> QED
  BY <1>3, <1>5, <1>6, <1>7, <1>8 DEF IInv

\* The steps between the loop's iterations and around them.
LEMMA PollStepInv == ASSUME IInv, NEW p \in Pollers, PollStep(p) PROVE IInv'
<1>0. poll[p] \in Poll /\ watermark \in Time /\ disabled \in BOOLEAN /\ Pending(p)
  BY DEF IInv, TypeOK
<1>1. CASE PollFetch(p)
  <2>1. PICK records \in SUBSET Window(poll[p].base, poll[p].now) :
            Become(p, [poll[p] EXCEPT !.pc = "known", !.fetched = records])
    BY <1>1 DEF PollFetch
  <2> DEFINE s == [poll[p] EXCEPT !.pc = "known", !.fetched = records]
  <2>2. s \in Poll /\ s.pc = "known" /\ s.todo = poll[p].todo
    BY <1>0, <2>1 DEF Poll, Window
  <2>3. poll[p].pc = "query" /\ UNCHANGED <<source, store, runs, stray, disabled, lock, crashes>>
    BY <1>1 DEF PollFetch, At
  <2>4. poll'[p] = s
    BY <2>1 DEF Become, IInv, TypeOK
  <2> HIDE DEF s
  <2>5. Pending(p)'
    BY <1>0, <2>2, <2>3, <2>4 DEF Pending
  <2> QED
    BY <2>1, <2>2, <2>3, <2>5, InsideInv DEF s
<1>2. CASE PollUnsupported(p) \/ PollFails(p)
  BY <1>0, <1>2, EndInv DEF PollUnsupported, PollFails, At, store
<1>3. CASE PollKnown(p)
  <2>1. PICK s \in Poll : s.pc = "next" /\ Become(p, s) /\ Pending(p)'
    BY <1>3, TakenPending
  <2> QED
    BY <1>3, <2>1, InsideInv DEF PollKnown, At
<1>4. CASE \E a \in Alerts : Handle(p, a)
  BY <1>4, HandleInv
<1>5. CASE AlertRecord(p)
  BY <1>5, AlertRecordInv
<1>6. CASE AlertAudit(p)
  BY <1>6, AlertAuditInv
<1>7. CASE AlertAuditRaises(p)
  BY <1>0, <1>7, EndInv DEF AlertAuditRaises, At, store
<1>8. CASE PollFinish(p)
  BY <1>0, <1>8, EndInv DEF PollFinish, At, Poll
<1> QED
  BY <1>1, <1>2, <1>3, <1>4, <1>5, <1>6, <1>7, <1>8 DEF PollStep

\* Every step keeps the invariant.
LEMMA NextInv == IInv /\ [Next]_vars => IInv'
<1> SUFFICES ASSUME IInv, [Next]_vars PROVE IInv'
  OBVIOUS
<1> USE AlertsAssumption, LimitsAssumption
<1>1. CASE \E p \in Pollers : PollStep(p)
  BY <1>1, PollStepInv
<1>2. ASSUME NEW p \in Pollers, PollBegin(p) PROVE IInv'
  BY <1>2, PollBeginInv
<1>3. CASE (\E a \in Alerts : Arrive(a)) \/ Tick
  BY <1>3, SourceInv
<1>4. CASE Crash
  BY <1>4, CrashInv
<1>5. CASE UNCHANGED vars
  BY <1>5 DEF vars, IInv, TypeOK, Excluded, Pending, Counted, RetriesCounted, RunsAccounted,
     Accounted, Recording, StraysCounted, StrayCounted, FailedStarts
<1> QED
  BY <1>1, <1>2, <1>3, <1>4, <1>5 DEF Next, Disabled

\* All parts of the invariant hold in every state.
LEMMA Invariant == Spec => []IInv
<1> QED
  BY InitInv, NextInv, PTL DEF Spec

\* Types of the store and of the polls.
THEOREM TypeCorrect == Spec => []TypeOK
BY Invariant, PTL DEF IInv

\* An alert waits for a retry after fewer failures than the limit and is given up exactly at
\* it, however polls are cut off (record_alert, RETRY_LIMIT).
THEOREM RetriesAreCounted == Spec => []RetriesCounted
BY Invariant, PTL DEF IInv, Counted

\* Whichever threads poll and whatever the source returns again, an alert gets one run, one
\* more per crash between start_alert and the record of it, and at most one per counted failure
\* of a start that had stored its run.
THEOREM OneRunEach == Spec => []OneRunPerAlert
<1>1. IInv => OneRunPerAlert
  BY DEF IInv, TypeOK, RunsAccounted, OneRunPerAlert, StraysCounted, StrayCounted
<1> QED
  BY <1>1, Invariant, PTL
===============================================================================
