-------------------------- MODULE ActivityStoreProofs --------------------------
(***************************************************************************)
(* Proofs about ActivityStore, for all batches, any number of ingesters,   *)
(* readers and crashes: the tables agree with each other, history is only  *)
(* added to, a batch that has been ingested is accounted for, and a reader *)
(* gets every page in order and nothing outside its scope.                 *)
(***************************************************************************)
EXTENDS ActivityStore, FiniteSetTheorems, SequenceTheorems, TLAPS

Stored == {raw[k] : k \in DOMAIN raw}

\* The tables agree, and an identifier is that of one activity.
Agree ==
    /\ \A k \in DOMAIN raw : Key(raw[k]) = k /\ raw[k].id \in Nat
    /\ activities = UNION {Parse(x) : x \in Stored}
    /\ \A a, b \in activities : a.id = b.id => a = b
    /\ relations = UNION {Related(a) : a \in activities}
    /\ DOMAIN entities = UNION {Identified(a) : a \in activities}
    /\ \A e \in DOMAIN entities :
          entities[e].aliases = {a.source : a \in {c \in activities : e \in Identified(c)}}

\* What an ingester has behind it is counted, and stored or quarantined.
Handled(b, i) ==
    LET x == Batch[b][i]
    IN \/ x.usable /\ Key(x) \in DOMAIN raw /\ raw[Key(x)] = x
       \/ x.id \in DOMAIN quarantine[b]

Ingester == [pc : {"read", "insert"}, pos : Nat, imported : Nat, duplicates : Nat, failed : Nat]

Progress(b) ==
    /\ ing[b].pos \in 1..(Len(Batch[b]) + 1)
    /\ ing[b].imported + ing[b].duplicates + ing[b].failed = ing[b].pos - 1
    /\ ing[b].pc = "insert" => ing[b].pos <= Len(Batch[b]) /\ Current(b).usable
    /\ \A i \in 1..(ing[b].pos - 1) : Handled(b, i)

Accounted ==
    /\ ing \in [Ingesters -> Ingester]
    /\ DOMAIN quarantine = Ingesters
    /\ \A b \in Ingesters : Progress(b)

-----------------------------------------------------------------------------
\* Of a record: one activity, or two whose identifiers differ, both the record's.
LEMMA ParseFacts ==
  ASSUME NEW x, x.id \in Nat
  PROVE  /\ \A a \in Parse(x) : /\ a.source = x.source /\ a.record = x.id /\ a.text = x.text
                                /\ a.id = 2 * x.id \/ a.id = 2 * x.id + 1
         /\ \A a, b \in Parse(x) : a.id = b.id => a = b
         /\ \E a, b : Parse(x) \subseteq {a, b}
<1> DEFINE act == Activity(x)
<1>1. /\ act.id = 2 * x.id /\ act.source = x.source /\ act.record = x.id /\ act.text = x.text
      /\ \A actor : LET twin == [act EXCEPT !.id = @ + 1, !.type = "file", !.actor = actor]
                    IN  /\ twin.id = 2 * x.id + 1 /\ twin.source = x.source /\ twin.record = x.id
                        /\ twin.text = x.text
  BY DEF Activity
<1>2. PICK actor : Parse(x) \subseteq
                     {act, [act EXCEPT !.id = @ + 1, !.type = "file", !.actor = actor]}
  <2>1. CASE x.kind = "process_exec"
    BY <2>1 DEF Parse
  <2>2. CASE x.kind # "process_exec"
    BY <2>2 DEF Parse
  <2> QED
    BY <2>1, <2>2
<1> DEFINE twin == [act EXCEPT !.id = @ + 1, !.type = "file", !.actor = actor]
<1>3. twin.id = 2 * x.id + 1 /\ twin.source = x.source /\ twin.record = x.id /\ twin.text = x.text
  BY <1>1
<1>4. act.id = 2 * x.id /\ act.source = x.source /\ act.record = x.id /\ act.text = x.text
  BY <1>1
<1>5. Parse(x) \subseteq {act, twin} /\ 2 * x.id # 2 * x.id + 1
  BY <1>2
<1> HIDE DEF act, twin
<1> QED
  BY <1>3, <1>4, <1>5

\* A relation names the activity it was taken from.
LEMMA RelatedNames == \A a : \A r \in Related(a) : r.activity = a.id
BY DEF Related

\* A record stored: all tables gain what it shows and lose nothing.
LEMMA StoreAgrees ==
  ASSUME Agree, NEW x, x.id \in Nat, ~Collides(x), StoreRecord(x)
  PROVE  Agree'
<1> DEFINE new == Parse(x)
           met == UNION {Identified(a) : a \in new}
<1>1. /\ Key(x) \notin DOMAIN raw
      /\ \A a \in new, b \in activities : a.id # b.id
  BY DEF Collides
<1>2. /\ DOMAIN raw' = DOMAIN raw \cup {Key(x)} /\ raw'[Key(x)] = x
      /\ \A k \in DOMAIN raw : raw'[k] = raw[k]
  BY <1>1 DEF StoreRecord
<1>3. Stored' = Stored \cup {x}
  BY <1>2 DEF Stored
<1>4. activities' = activities \cup new
  BY DEF StoreRecord
<1>5. activities' = UNION {Parse(y) : y \in Stored'}
  BY <1>3, <1>4 DEF Agree
<1>6. \A a, b \in activities' : a.id = b.id => a = b
  BY <1>1, <1>4, ParseFacts DEF Agree
<1>7. \A k \in DOMAIN raw' : Key(raw'[k]) = k /\ raw'[k].id \in Nat
  BY <1>2 DEF Agree
<1>8. relations' = UNION {Related(a) : a \in activities'}
  BY <1>4 DEF StoreRecord, Agree
<1>9. DOMAIN entities' = DOMAIN entities \cup met
      /\ \A e \in DOMAIN entities' : entities'[e] = IF e \in met THEN Merged(e, x) ELSE entities[e]
  BY DEF StoreRecord
<1>10. DOMAIN entities' = UNION {Identified(a) : a \in activities'}
  BY <1>4, <1>9 DEF Agree
<1>11. ASSUME NEW e \in DOMAIN entities'
       PROVE  entities'[e].aliases = {a.source : a \in {c \in activities' : e \in Identified(c)}}
  <2>1. \A a \in new : a.source = x.source
    BY ParseFacts
  <2>2. CASE e \notin met
    <3>1. e \in DOMAIN entities /\ entities'[e] = entities[e]
      BY <1>9, <2>2
    <3>2. \A a \in new : e \notin Identified(a)
      BY <2>2
    <3>3. {c \in activities' : e \in Identified(c)} = {c \in activities : e \in Identified(c)}
      BY <1>4, <3>2
    <3> QED
      BY <3>1, <3>3 DEF Agree
  <2>3. CASE e \in met
    <3>0. entities'[e] = Merged(e, x)
      BY <1>9, <1>11, <2>3
    <3>1. entities'[e].aliases = (IF e \notin DOMAIN entities THEN {x.source}
                                  ELSE entities[e].aliases \cup {x.source})
      <4>1. CASE e \notin DOMAIN entities
        BY <3>0, <4>1 DEF Merged
      <4>2. CASE e \in DOMAIN entities
        BY <3>0, <4>2 DEF Merged
      <4> QED
        BY <4>1, <4>2
    <3>2. PICK n \in new : e \in Identified(n)
      BY <2>3
    <3>3. {a.source : a \in {c \in activities' : e \in Identified(c)}} =
             {a.source : a \in {c \in activities : e \in Identified(c)}} \cup {x.source}
      BY <1>4, <2>1, <3>2
    <3>4. e \notin DOMAIN entities => {c \in activities : e \in Identified(c)} = {}
      BY DEF Agree
    <3>5. e \in DOMAIN entities =>
             entities[e].aliases = {a.source : a \in {c \in activities : e \in Identified(c)}}
      BY DEF Agree
    <3> QED
      BY <3>1, <3>3, <3>4, <3>5
  <2> QED
    BY <2>2, <2>3
<1> QED
  BY <1>5, <1>6, <1>7, <1>8, <1>10, <1>11 DEF Agree

\* The only step that writes the four tables stores a new record of a batch.
LEMMA WhoWrites ==
  ASSUME Accounted, [Next]_vars
  PROVE  \/ UNCHANGED <<raw, activities, entities, relations>>
         \/ \E x : x.id \in Nat /\ x.text \in Nat /\ ~Collides(x) /\ StoreRecord(x)
<1>1. ASSUME NEW b \in Ingesters, Insert(b)
      PROVE  \/ UNCHANGED <<raw, activities, entities, relations>>
             \/ \E x : x.id \in Nat /\ x.text \in Nat /\ ~Collides(x) /\ StoreRecord(x)
  <2>1. ing[b].pos \in 1..Len(Batch[b])
    BY <1>1, BatchAssumption DEF Insert, Accounted, Progress
  <2>2. Current(b).id \in Nat /\ Current(b).text \in Nat
    BY <2>1, BatchAssumption DEF Current
  <2> QED
    BY <1>1, <2>2 DEF Insert, Quarantine
<1>2. ASSUME NEW b \in Ingesters, ReadDigest(b)
      PROVE  UNCHANGED <<raw, activities, entities, relations>>
  BY <1>2 DEF ReadDigest, Quarantine, tables
<1>3. ASSUME ~\E b \in Ingesters : Insert(b) \/ ReadDigest(b)
      PROVE  UNCHANGED <<raw, activities, entities, relations>>
  BY <1>3 DEF Next, vars, tables, Crash, Open, Page, Close
<1> QED
  BY <1>1, <1>2, <1>3

LEMMA AgreeInit == Init => Agree
BY DEF Init, Agree, Stored

LEMMA AgreeNext == Agree /\ Accounted /\ [Next]_vars => Agree'
<1> SUFFICES ASSUME Agree, Accounted, [Next]_vars PROVE Agree'
  OBVIOUS
<1>1. CASE UNCHANGED <<raw, activities, entities, relations>>
  BY <1>1 DEF Agree, Stored
<1>2. CASE \E x : x.id \in Nat /\ x.text \in Nat /\ ~Collides(x) /\ StoreRecord(x)
  BY <1>2, StoreAgrees
<1> QED
  BY <1>1, <1>2, WhoWrites

-----------------------------------------------------------------------------
\* The counters of a batch.

Kept ==
    /\ \A k \in DOMAIN raw : k \in DOMAIN raw' /\ raw'[k] = raw[k]
    /\ DOMAIN quarantine' = Ingesters
    /\ \A b \in Ingesters : DOMAIN quarantine[b] \subseteq DOMAIN quarantine'[b]

LEMMA NextKeeps == ASSUME Accounted, [Next]_vars PROVE Kept
<1>1. \A k \in DOMAIN raw : k \in DOMAIN raw' /\ raw'[k] = raw[k]
  <2>1. CASE UNCHANGED <<raw, activities, entities, relations>>
    BY <2>1
  <2>2. ASSUME NEW x, ~Collides(x), StoreRecord(x)
        PROVE  \A k \in DOMAIN raw : k \in DOMAIN raw' /\ raw'[k] = raw[k]
    BY <2>2 DEF Collides, StoreRecord
  <2> QED
    BY <2>1, <2>2, WhoWrites
<1>2. quarantine' = quarantine \/ \E b \in Ingesters : \E x : Quarantine(b, x)
  BY DEF Next, ReadDigest, Insert, Crash, Open, Page, Close, tables, vars
<1>3. ASSUME NEW b \in Ingesters, NEW x, Quarantine(b, x)
      PROVE  /\ DOMAIN quarantine' = Ingesters
             /\ \A c \in Ingesters : DOMAIN quarantine[c] \subseteq DOMAIN quarantine'[c]
  <2>1. /\ DOMAIN quarantine' = Ingesters
        /\ DOMAIN quarantine'[b] = DOMAIN quarantine[b] \cup {x.id}
        /\ \A c \in Ingesters \ {b} : quarantine'[c] = quarantine[c]
    BY <1>3 DEF Quarantine, Accounted
  <2> QED
    BY <2>1
<1> QED
  BY <1>1, <1>2, <1>3 DEF Kept, Accounted

LEMMA HandledStays ==
  ASSUME Kept, NEW b \in Ingesters, NEW i, Handled(b, i)
  PROVE  Handled(b, i)'
BY DEF Kept, Handled

\* One record further: it has been handled and is counted once.
LEMMA StepAccounted ==
  ASSUME Accounted, Kept, NEW b \in Ingesters, NEW what \in {"imported", "duplicates", "failed"},
         Step(b, what), ing[b].pos <= Len(Batch[b]),
         NEW last, last = ing[b].pos, Handled(b, last)'
  PROVE  Accounted'
<1>1. /\ ing \in [Ingesters -> Ingester] /\ ing[b] \in Ingester /\ Progress(b)
      /\ Len(Batch[b]) \in Nat
  BY BatchAssumption DEF Accounted
<1> DEFINE s == Stepped(ing[b], what)
<1>2. ing' = [ing EXCEPT ![b] = s]
  BY DEF Step
<1>3. /\ s \in Ingester /\ s.pos = ing[b].pos + 1 /\ s.pc = "read"
      /\ s.imported + s.duplicates + s.failed = ing[b].imported + ing[b].duplicates + ing[b].failed + 1
  <2>1. CASE what = "imported"
    BY <1>1, <2>1 DEF Ingester, Stepped
  <2>2. CASE what = "duplicates"
    BY <1>1, <2>2 DEF Ingester, Stepped
  <2>3. CASE what = "failed"
    BY <1>1, <2>3 DEF Ingester, Stepped
  <2> QED
    BY <2>1, <2>2, <2>3
<1> HIDE DEF s
<1>4. ing' \in [Ingesters -> Ingester] /\ ing'[b] = s /\ \A c \in Ingesters \ {b} : ing'[c] = ing[c]
  BY <1>1, <1>2, <1>3
<1>5. Progress(b)'
  <2>1. ing[b].pos \in Nat /\ ing[b].imported \in Nat /\ ing[b].duplicates \in Nat /\ ing[b].failed \in Nat
        /\ s.imported \in Nat /\ s.duplicates \in Nat /\ s.failed \in Nat
    BY <1>1, <1>3 DEF Ingester
  <2>2. \A i \in 1..(s.pos - 1) : i \in 1..(ing[b].pos - 1) \/ i = last
    BY <1>1, <1>3, <2>1
  <2>3. \A i \in 1..(s.pos - 1) : Handled(b, i)'
    BY <1>1, <2>2, HandledStays DEF Progress
  <2>4. ing[b].imported + ing[b].duplicates + ing[b].failed = ing[b].pos - 1
    BY <1>1 DEF Progress
  <2>5. s.pos \in 1..(Len(Batch[b]) + 1)
    BY <1>1, <1>3, <2>1, SMTT(30)
  <2>6. s.imported + s.duplicates + s.failed = s.pos - 1
    BY <1>3, <2>1, <2>4
  <2> QED
    BY <1>3, <1>4, <2>3, <2>5, <2>6 DEF Progress
<1>6. ASSUME NEW c \in Ingesters \ {b} PROVE Progress(c)'
  <2>1. Progress(c) /\ ing'[c] = ing[c]
    BY <1>4 DEF Accounted
  <2>2. \A i \in 1..(ing[c].pos - 1) : Handled(c, i)'
    BY <2>1, HandledStays DEF Progress
  <2> QED
    BY <2>1, <2>2 DEF Progress, Current
<1> QED
  BY <1>4, <1>5, <1>6 DEF Accounted, Kept

\* An ingester that does not move: what it handled stays handled.
LEMMA StillAccounted ==
  ASSUME Accounted, Kept, NEW c \in Ingesters, ing'[c] = ing[c]
  PROVE  Progress(c)'
<1>1. Progress(c)
  BY DEF Accounted
<1>2. \A i \in 1..(ing[c].pos - 1) : Handled(c, i)'
  BY <1>1, HandledStays DEF Progress
<1> QED
  BY <1>1, <1>2 DEF Progress, Current

LEMMA AccountedInit == Init => Accounted
BY BatchAssumption DEF Init, Accounted, Progress, Ingester, Fresh

LEMMA AccountedNext == Accounted /\ [Next]_vars => Accounted'
<1> SUFFICES ASSUME Accounted, [Next]_vars PROVE Accounted'
  OBVIOUS
<1>0. Kept
  BY NextKeeps
<1>a. ASSUME NEW b \in Ingesters, NEW x, Quarantine(b, x) PROVE x.id \in DOMAIN quarantine'[b]
  BY <1>a DEF Quarantine, Accounted
<1>1. ASSUME NEW b \in Ingesters, ReadDigest(b) PROVE Accounted'
  <2> DEFINE x == Current(b)
  <2> PICK last : last = ing[b].pos
    OBVIOUS
  <2>0. /\ ing[b].pos <= Len(Batch[b]) /\ ing[b].pos \in Nat /\ ing[b].pos \in 1..Len(Batch[b])
        /\ x = Batch[b][last]
    BY <1>1, BatchAssumption DEF ReadDigest, Accounted, Ingester, Progress, Current
  <2>1. CASE x.usable /\ Key(x) \notin DOMAIN raw /\ ing' = [ing EXCEPT ![b].pc = "insert"]
    <3>1. /\ ing'[b] = [ing[b] EXCEPT !.pc = "insert"] /\ ing' \in [Ingesters -> Ingester]
          /\ \A c \in Ingesters \ {b} : ing'[c] = ing[c]
      BY <2>1 DEF Accounted, Ingester
    <3>2. ing'[b].pos = ing[b].pos /\ ing'[b].imported = ing[b].imported
          /\ ing'[b].duplicates = ing[b].duplicates /\ ing'[b].failed = ing[b].failed
      BY <3>1 DEF Accounted, Ingester
    <3>3. \A i \in 1..(ing[b].pos - 1) : Handled(b, i)'
      BY <1>0, HandledStays DEF Accounted, Progress
    <3>4. Progress(b)'
      BY <2>0, <2>1, <3>2, <3>3 DEF Accounted, Progress, Current
    <3> QED
      BY <1>0, <3>1, <3>4, StillAccounted DEF Accounted, Kept
  <2>2. CASE x.usable /\ Duplicate(x) /\ Step(b, "duplicates") /\ UNCHANGED tables
    <3>1. Handled(b, last)'
      BY <2>0, <2>2 DEF Handled, Duplicate, tables
    <3> QED
      BY <1>0, <2>0, <2>2, <3>1, StepAccounted
  <2>3. CASE Quarantine(b, x)
    <3>1. Handled(b, last)'
      BY <1>a, <2>0, <2>3 DEF Handled
    <3> QED
      BY <1>0, <2>0, <2>3, <3>1, StepAccounted DEF Quarantine
  <2> QED
    BY <1>1, <2>1, <2>2, <2>3 DEF ReadDigest
<1>2. ASSUME NEW b \in Ingesters, Insert(b) PROVE Accounted'
  <2> DEFINE x == Current(b)
  <2> PICK last : last = ing[b].pos
    OBVIOUS
  <2>0. /\ ing[b].pos <= Len(Batch[b]) /\ x.usable /\ x = Batch[b][last]
    BY <1>2 DEF Insert, Accounted, Progress, Current
  <2>1. CASE StoreRecord(x) /\ Step(b, "imported")
    <3>1. Key(x) \in DOMAIN raw' /\ raw'[Key(x)] = x
      BY <2>1 DEF StoreRecord
    <3>2. Handled(b, last)'
      BY <2>0, <3>1 DEF Handled
    <3> QED
      BY <1>0, <2>0, <2>1, <3>2, StepAccounted
  <2>2. CASE Quarantine(b, x)
    <3>1. Handled(b, last)'
      BY <1>a, <2>0, <2>2 DEF Handled
    <3> QED
      BY <1>0, <2>0, <2>2, <3>1, StepAccounted DEF Quarantine
  <2> QED
    BY <1>2, <2>1, <2>2 DEF Insert
<1>3. ASSUME NEW b \in Ingesters, Crash(b) PROVE Accounted'
  <2>1. /\ ing' \in [Ingesters -> Ingester] /\ ing'[b] = Fresh
        /\ \A c \in Ingesters \ {b} : ing'[c] = ing[c]
    BY <1>3 DEF Crash, Fresh, Accounted, Ingester
  <2>2. Progress(b)'
    BY <2>1, BatchAssumption DEF Progress, Fresh
  <2> QED
    BY <1>0, <2>1, <2>2, StillAccounted DEF Accounted, Kept
<1>4. CASE ing' = ing
  BY <1>0, <1>4, StillAccounted DEF Accounted, Kept
<1> QED
  BY <1>1, <1>2, <1>3, <1>4 DEF Next, vars, Open, Page, Close

LEMMA Invariant == Spec => [](Agree /\ Accounted)
<1> QED
  BY AgreeInit, AgreeNext, AccountedInit, AccountedNext, PTL DEF Spec

-----------------------------------------------------------------------------
\* The tables tell one story, down to the record a shown relation rests on
\* (put_record_with_activities writes all of it in one transaction).
THEOREM StoreIsConsistent == Spec => []StoreConsistent
<1>1. Agree => StoreConsistent
  <2> SUFFICES ASSUME Agree PROVE StoreConsistent
    OBVIOUS
  <2>1. ASSUME NEW r \in ShownRelations
        PROVE  Cardinality({a \in activities : a.id = r.activity /\ <<a.source, a.record>> \in DOMAIN raw}) = 1
    <3>1. PICK n \in activities : n.id = r.activity
      BY DEF ShownRelations, ShownActivities
    <3>2. PICK k \in DOMAIN raw : n \in Parse(raw[k])
      BY DEF Agree, Stored
    <3>3. n.source = raw[k].source /\ n.record = raw[k].id
      BY <3>2, ParseFacts DEF Agree
    <3>4. <<n.source, n.record>> \in DOMAIN raw
      BY <3>2, <3>3 DEF Agree, Key
    <3>5. {a \in activities : a.id = r.activity /\ <<a.source, a.record>> \in DOMAIN raw} = {n}
      BY <3>1, <3>4 DEF Agree
    <3> QED
      BY <3>5, FS_Singleton
  <2> QED
    BY <2>1 DEF Agree, Stored, StoreConsistent
<1> QED
  BY <1>1, Invariant, PTL

\* When a batch has been ingested, its report adds up and every record is in the store or in
\* quarantine, after any number of crashes and next to any other ingester (ingest_payloads).
THEOREM BatchIsAccounted == Spec => []NothingLost
<1>1. Accounted => NothingLost
  <2> SUFFICES ASSUME Accounted, NEW b \in Ingesters, ing[b].pos > Len(Batch[b])
               PROVE  /\ ing[b].imported + ing[b].duplicates + ing[b].failed = Len(Batch[b])
                      /\ \A i \in 1..Len(Batch[b]) : Handled(b, i)
    BY DEF NothingLost, Handled
  <2>1. ing[b].pos = Len(Batch[b]) + 1
    BY BatchAssumption DEF Accounted, Progress
  <2> QED
    BY <2>1, BatchAssumption DEF Accounted, Progress
<1> QED
  BY <1>1, Invariant, PTL

\* History is only added to (put_entity, put_relation, put_record_with_activities).
THEOREM HistoryStays == Spec => HistoryKept
<1> DEFINE Added ==
      /\ \A k \in DOMAIN raw : k \in DOMAIN raw' /\ raw'[k] = raw[k]
      /\ activities \subseteq activities' /\ relations \subseteq relations'
      /\ \A e \in DOMAIN entities :
            /\ e \in DOMAIN entities'
            /\ entities[e].aliases \subseteq entities'[e].aliases
            /\ entities[e].since # 0 => entities'[e].since = entities[e].since
<1>1. Accounted /\ [Next]_vars => Added
  <2> SUFFICES ASSUME Accounted, [Next]_vars PROVE Added
    OBVIOUS
  <2>1. CASE UNCHANGED <<raw, activities, entities, relations>>
    BY <2>1
  <2>2. ASSUME NEW x, ~Collides(x), StoreRecord(x) PROVE Added
    <3>1. \A k \in DOMAIN raw : k \in DOMAIN raw' /\ raw'[k] = raw[k]
      BY <2>2 DEF Collides, StoreRecord
    <3>2. activities \subseteq activities' /\ relations \subseteq relations'
      BY <2>2 DEF StoreRecord
    <3>3. ASSUME NEW e \in DOMAIN entities
          PROVE  /\ e \in DOMAIN entities'
                 /\ entities[e].aliases \subseteq entities'[e].aliases
                 /\ entities[e].since # 0 => entities'[e].since = entities[e].since
      <4>1. e \in DOMAIN entities' /\ entities'[e] \in {Merged(e, x), entities[e]}
        BY <2>2 DEF StoreRecord
      <4>2. /\ Merged(e, x).aliases = entities[e].aliases \cup {x.source}
            /\ entities[e].since # 0 => Merged(e, x).since = entities[e].since
        BY DEF Merged
      <4> QED
        BY <4>1, <4>2
    <3> QED
      BY <3>1, <3>2, <3>3
  <2> QED
    BY <2>1, <2>2, WhoWrites
<1>2. Accounted /\ [Next]_vars => [Added]_vars
  BY <1>1
<1> QED
  BY <1>2, Invariant, PTL DEF Spec, HistoryKept

-----------------------------------------------------------------------------
\* What is read: rows that can be put in order, because identifiers differ.
Sortable(rows) ==
    /\ IsFiniteSet(rows)
    /\ \A a \in rows : a.text \in Nat /\ a.id \in Nat
    /\ \A a, b \in rows : a.id = b.id => a = b

\* Each row has a place of its own, later rows have later places, and every place is taken.
LEMMA PlaceFacts ==
  ASSUME NEW rows, Sortable(rows)
  PROVE  /\ Cardinality(rows) \in Nat
         /\ Place(rows) \in Surjection(rows, 1..Cardinality(rows))
         /\ \A a, b \in rows : Before(a, b) => Place(rows)[a] < Place(rows)[b]
         /\ \A a, b \in rows : Place(rows)[a] = Place(rows)[b] => a = b
<1> DEFINE n == Cardinality(rows)
           place == Place(rows)
           Under(a) == {b \in rows : Before(b, a)}
<1>1. n \in Nat
  BY FS_CardinalityType DEF Sortable
<1>2. ASSUME NEW a \in rows
      PROVE  /\ IsFiniteSet(Under(a)) /\ Cardinality(Under(a)) \in Nat
             /\ place[a] = Cardinality(Under(a)) + 1 /\ place[a] \in 1..n
  <2>1. Under(a) \in SUBSET rows /\ a \notin Under(a)
    BY DEF Before, Sortable
  <2>2. IsFiniteSet(Under(a)) /\ Cardinality(Under(a)) <= n /\ Cardinality(Under(a)) # n
    BY <2>1, FS_Subset DEF Sortable
  <2>3. Cardinality(Under(a)) \in Nat
    BY <2>2, FS_CardinalityType
  <2>4. place[a] = Cardinality(Under(a)) + 1
    BY DEF Place
  <2> QED
    BY <1>1, <2>2, <2>3, <2>4
<1>3. ASSUME NEW a \in rows, NEW b \in rows, Before(a, b)
      PROVE  place[a] < place[b]
  <2>1. Under(a) \in SUBSET Under(b) /\ a \in Under(b) /\ a \notin Under(a)
    BY <1>3 DEF Before, Sortable
  <2>2. Cardinality(Under(a)) <= Cardinality(Under(b)) /\ Cardinality(Under(a)) # Cardinality(Under(b))
    <3>1. IsFiniteSet(Under(b)) /\ Under(a) # Under(b)
      BY <1>2, <2>1
    <3> HIDE DEF Under
    <3> QED
      BY <2>1, <3>1, FS_Subset
  <2>3. /\ place[a] = Cardinality(Under(a)) + 1 /\ place[b] = Cardinality(Under(b)) + 1
        /\ Cardinality(Under(a)) \in Nat /\ Cardinality(Under(b)) \in Nat
    BY <1>2
  <2> HIDE DEF place, Under
  <2> QED
    BY <2>2, <2>3
<1>p. place \in [rows -> 1..n]
  <2>1. DOMAIN place = rows /\ place = [a \in rows |-> place[a]]
    BY DEF Place
  <2> HIDE DEF place
  <2> QED
    BY <1>2, <2>1
<1> HIDE DEF place
<1>4. ASSUME NEW a \in rows, NEW b \in rows, place[a] = place[b]
      PROVE  a = b
  <2>1. ~Before(a, b) /\ ~Before(b, a)
    BY <1>1, <1>p, <1>3, <1>4
  <2> QED
    BY <2>1 DEF Before, Sortable
<1>5. place \in Surjection(rows, 1..n)
  <2> DEFINE places == 1..n
  <2>1. place \in Injection(rows, places)
    BY <1>p, <1>4 DEF Injection, IsInjective
  <2>2. IsFiniteSet(places) /\ Cardinality(places) = n
    <3>1. IsFiniteSet(places) /\ Cardinality(places) = IF 1 > n THEN 0 ELSE n - 1 + 1
      BY <1>1, FS_Interval
    <3> QED
      BY <1>1, <3>1
  <2> HIDE DEF places
  <2>3. place \in Surjection(rows, places)
    BY <2>1, <2>2, FS_Injection
  <2> QED
    BY <2>3 DEF places
<1> QED
  BY <1>1, <1>3, <1>4, <1>5 DEF place

\* ORDER BY observed_at, activity_id: each row once, in order.
LEMMA OrderedFacts ==
  ASSUME NEW rows, Sortable(rows)
  PROVE  /\ Len(Ordered(rows)) = Cardinality(rows) /\ Cardinality(rows) \in Nat
         /\ Place(rows) \in [rows -> 1..Cardinality(rows)]
         /\ \A i \in 1..Cardinality(rows) : Ordered(rows)[i] \in rows
         /\ \A a \in rows : Ordered(rows)[Place(rows)[a]] = a
         /\ \A i, j \in 1..Cardinality(rows) : i < j => Before(Ordered(rows)[i], Ordered(rows)[j])
<1> DEFINE n == Cardinality(rows)
           s == Ordered(rows)
           place == Place(rows)
<1>0. /\ n \in Nat /\ place \in [rows -> 1..n]
      /\ \A i \in 1..n : \E a \in rows : place[a] = i
      /\ \A a, b \in rows : Before(a, b) => place[a] < place[b]
      /\ \A a, b \in rows : place[a] = place[b] => a = b
  <2>1. place \in Surjection(rows, 1..n)
    BY PlaceFacts
  <2>2. place \in [rows -> 1..n] /\ \A i \in 1..n : \E a \in rows : place[a] = i
    <3> HIDE DEF place, n
    <3> QED
      BY <2>1 DEF Surjection
  <2> QED
    BY <2>2, PlaceFacts
<1>2. Len(s) = n /\ \A i \in 1..n : s[i] = CHOOSE a \in rows : place[a] = i
  BY <1>0 DEF Ordered
<1> HIDE DEF s, place, n
<1>3. ASSUME NEW i \in 1..n PROVE s[i] \in rows /\ place[s[i]] = i
  <2>1. \E a \in rows : place[a] = i
    BY <1>0
  <2> QED
    BY <1>2, <2>1
<1>4. ASSUME NEW a \in rows PROVE s[place[a]] = a
  <2>1. place[a] \in 1..n
    BY <1>0
  <2> QED
    BY <1>0, <1>3, <2>1
<1>5. ASSUME NEW i \in 1..n, NEW j \in 1..n, i < j PROVE Before(s[i], s[j])
  <2>1. s[i] \in rows /\ s[j] \in rows /\ place[s[i]] = i /\ place[s[j]] = j
    BY <1>3
  <2>2. s[i] # s[j] /\ ~(place[s[j]] < place[s[i]])
    BY <1>0, <1>5, <2>1
  <2>3. ~Before(s[j], s[i])
    BY <1>0, <2>1, <2>2
  <2> QED
    BY <2>1, <2>2, <2>3 DEF Before, Sortable
<1> QED
  BY <1>0, <1>2, <1>3, <1>4, <1>5 DEF s, place, n

\* With more rows a row can only move back.
LEMMA PlaceGrows ==
  ASSUME NEW rows, NEW more, Sortable(more), rows \subseteq more, NEW a \in rows
  PROVE  Place(rows)[a] \in Nat /\ Place(more)[a] \in Nat /\ Place(rows)[a] <= Place(more)[a]
<1> DEFINE few == {b \in rows : Before(b, a)}
           many == {b \in more : Before(b, a)}
<1>1. many \in SUBSET more /\ few \in SUBSET many /\ IsFiniteSet(more)
  BY DEF Sortable
<1>2. Place(rows)[a] = Cardinality(few) + 1 /\ Place(more)[a] = Cardinality(many) + 1
  BY DEF Place
<1> HIDE DEF few, many
<1>3. IsFiniteSet(many) /\ IsFiniteSet(few) /\ Cardinality(few) <= Cardinality(many)
  BY <1>1, FS_Subset
<1>4. Cardinality(few) \in Nat /\ Cardinality(many) \in Nat
  BY <1>3, FS_CardinalityType
<1> QED
  BY <1>2, <1>3, <1>4

-----------------------------------------------------------------------------
\* A client that reads: what it has seen was asked for and authorized, and what it knew
\* when it began it has seen or is still ahead of its cursor.
Fits(q, a) == IF q.mode = "typed" THEN Matches(a, q) ELSE OnTimeline(a, q)

Ahead(r, a, rows) ==
    IF r.q.mode = "typed" THEN Follows(r, a)
    ELSE Place(Selected(r.q, rows))[a] > r.offset

Reader(rows) == [pc : {"page", "done"}, q : Readers, seen : Seq(rows), offset : Nat, known : SUBSET rows]

SeenFits(r) == \A i \in 1..Len(r.seen) : Fits(r.q, r.seen[i])
InOrder(r) == r.q.mode = "typed" => \A i, j \in 1..Len(r.seen) : i < j => Before(r.seen[i], r.seen[j])
Shown(r, a) == \E i \in 1..Len(r.seen) : r.seen[i] = a

ReaderOK(r, rows) ==
    /\ r \in Reader(rows)
    /\ r.q.mode = "typed" => Authorized(r.q)
    /\ SeenFits(r)
    /\ InOrder(r)
    /\ \A a \in r.known : Fits(r.q, a) /\ (Shown(r, a) \/ (r.pc = "page" /\ Ahead(r, a, rows)))

Reading ==
    /\ Sortable(activities)
    /\ reader = NoReader \/ ReaderOK(reader, activities)

LEMMA SelectedFits == \A q, rows : Selected(q, rows) = {a \in rows : Fits(q, a)}
BY DEF Selected, Fits

LEMMA SubsetSortable ==
  ASSUME NEW rows, NEW more, Sortable(more), rows \subseteq more
  PROVE  Sortable(rows)
BY FS_Subset DEF Sortable

\* More activities disturb no reader.
LEMMA ReaderStays ==
  ASSUME NEW rows, NEW more, Sortable(more), rows \subseteq more, NEW r, ReaderOK(r, rows)
  PROVE  ReaderOK(r, more)
<1>1. r \in Reader(more)
  <2>1. r.seen \in Seq(more)
    BY SeqMonotonic DEF ReaderOK, Reader
  <2> QED
    BY <2>1 DEF ReaderOK, Reader
<1>2. ASSUME NEW a \in r.known, r.q.mode # "typed", Ahead(r, a, rows)
      PROVE  Ahead(r, a, more)
  <2> DEFINE S == Selected(r.q, rows)
             T == Selected(r.q, more)
  <2>1. a \in S /\ S \subseteq T /\ Sortable(T)
    BY SelectedFits, SubsetSortable DEF ReaderOK, Reader
  <2>2. Place(S)[a] > r.offset /\ r.offset \in Nat
    BY <1>2 DEF Ahead, ReaderOK, Reader
  <2>3. Place(S)[a] \in Nat /\ Place(T)[a] \in Nat /\ Place(S)[a] <= Place(T)[a]
    BY <2>1, PlaceGrows
  <2> HIDE DEF S, T
  <2>4. Place(T)[a] > r.offset
    BY <2>2, <2>3
  <2> QED
    BY <1>2, <2>4 DEF Ahead, T
<1>3. ASSUME NEW a \in r.known, Ahead(r, a, rows) PROVE Ahead(r, a, more)
  <2>1. CASE r.q.mode = "typed"
    BY <1>3, <2>1 DEF Ahead
  <2> QED
    BY <1>2, <1>3, <2>1
<1> QED
  BY <1>1, <1>3 DEF ReaderOK

LEMMA OpenReads ==
  ASSUME Reading, NEW q \in Readers, Open(q)
  PROVE  ReaderOK(reader', activities)
<1> DEFINE r == reader'
           S == Selected(q, activities)
<1>1. /\ r \in Reader(activities) /\ r.pc = "page" /\ r.q = q /\ r.seen = <<>> /\ r.offset = 0 /\ r.known = S
  <2>1. S \in SUBSET activities /\ <<>> \in Seq(activities)
    BY EmptySeq DEF Selected
  <2> QED
    BY <2>1 DEF Open, Reader
<1>2. q.mode = "typed" => Authorized(q)
  BY DEF Open
<1>3. \A a \in S : Fits(q, a)
  BY SelectedFits
<1>4. \A a \in S : Place(S)[a] \in 1..Cardinality(S) /\ Cardinality(S) \in Nat
  <2>1. Sortable(S)
    BY SubsetSortable, SelectedFits DEF Reading
  <2> HIDE DEF S
  <2> QED
    BY <2>1, OrderedFacts
<1> HIDE DEF r
<1>5. \A a \in S : Ahead(r, a, activities)
  BY <1>1, <1>4 DEF Ahead, Follows
<1>6. Len(r.seen) = 0
  BY <1>1
<1> HIDE DEF S
<1> QED
  BY <1>1, <1>2, <1>3, <1>5, <1>6 DEF ReaderOK, SeenFits, InOrder, r

LEMMA BeforeTransitive ==
  \A a, b, c : /\ a.text \in Nat /\ b.text \in Nat /\ c.text \in Nat
               /\ a.id \in Nat /\ b.id \in Nat /\ c.id \in Nat
               /\ Before(a, b) /\ Before(b, c)
               => Before(a, c)
BY DEF Before

\* The first rows of what is left.
LEMMA PageFacts ==
  ASSUME NEW S, NEW rest \in Seq(S), NEW size, size = IF Len(rest) < Limit THEN Len(rest) ELSE Limit
  PROVE  /\ size \in 0..Len(rest) /\ Len(rest) \in Nat
         /\ Len(rest) > Limit => size = Limit
         /\ ~(Len(rest) > Limit) => size = Len(rest)
         /\ SubSeq(rest, 1, size) \in Seq(S) /\ Len(SubSeq(rest, 1, size)) = size
         /\ \A i \in 1..size : SubSeq(rest, 1, size)[i] = rest[i]
<1>1. size \in 0..Len(rest) /\ Len(rest) \in Nat
  BY QueryAssumption
<1>2. \A i \in 1..size : rest[i] \in S
  BY <1>1, ElementOfSeq
<1>3. /\ SubSeq(rest, 1, size) \in Seq(S)
      /\ Len(SubSeq(rest, 1, size)) = (IF 1 <= size THEN size - 1 + 1 ELSE 0)
      /\ \A i \in 1..(size - 1 + 1) : SubSeq(rest, 1, size)[i] = rest[1 + i - 1]
  BY <1>1, <1>2, SubSeqProperties
<1>4. Len(SubSeq(rest, 1, size)) = size /\ \A i \in 1..size : SubSeq(rest, 1, size)[i] = rest[i]
  BY <1>1, <1>3
<1> QED
  BY <1>1, <1>3, <1>4, QueryAssumption

\* What is left of a query after its cursor.
LEMMA RestTyped ==
  ASSUME NEW r, ReaderOK(r, activities), Sortable(activities), r.q.mode = "typed"
  PROVE  /\ Rest(r) \in Seq(activities)
         /\ \A i \in 1..Len(Rest(r)) : Fits(r.q, Rest(r)[i]) /\ Follows(r, Rest(r)[i])
         /\ \A i, j \in 1..Len(Rest(r)) : i < j => Before(Rest(r)[i], Rest(r)[j])
         /\ \A a \in activities : Fits(r.q, a) /\ Follows(r, a) =>
                                    \E i \in 1..Len(Rest(r)) : Rest(r)[i] = a
<1> DEFINE T == {a \in Selected(r.q, activities) : Follows(r, a)}
           rest == Ordered(T)
           n == Cardinality(T)
<1>1. Rest(r) = rest
  BY DEF Rest
<1>2. T \subseteq activities /\ \A a : a \in T <=> a \in activities /\ Fits(r.q, a) /\ Follows(r, a)
  BY SelectedFits
<1>3. Sortable(T)
  BY <1>2, SubsetSortable
<1> HIDE DEF T
<1>4. /\ Len(rest) = n /\ n \in Nat /\ Place(T) \in [T -> 1..n]
      /\ \A i \in 1..n : rest[i] \in T
      /\ \A a \in T : rest[Place(T)[a]] = a
      /\ \A i, j \in 1..n : i < j => Before(rest[i], rest[j])
  BY <1>3, OrderedFacts
<1>5. rest \in Seq(activities)
  <2>1. rest = [i \in 1..n |-> rest[i]]
    BY DEF Ordered
  <2> HIDE DEF rest, n
  <2> QED
    BY <1>2, <1>4, <2>1, IsASeq
<1> HIDE DEF rest, n
<1>6. \A a \in T : \E i \in 1..Len(rest) : rest[i] = a
  BY <1>4
<1> QED
  BY <1>1, <1>2, <1>4, <1>5, <1>6

\* What is left of a timeline from an offset on.
LEMMA RestTimeline ==
  ASSUME NEW r, ReaderOK(r, activities), Sortable(activities), r.q.mode # "typed"
  PROVE  /\ Rest(r) \in Seq(activities)
         /\ \A i \in 1..Len(Rest(r)) : Fits(r.q, Rest(r)[i])
         /\ \A a \in activities :
              Fits(r.q, a) /\ Ahead(r, a, activities) =>
                 /\ Place(Selected(r.q, activities))[a] - r.offset \in 1..Len(Rest(r))
                 /\ Rest(r)[Place(Selected(r.q, activities))[a] - r.offset] = a
<1> DEFINE T == Selected(r.q, activities)
           all == Ordered(T)
           n == Cardinality(T)
           m == r.offset
           rest == SubSeq(all, m + 1, n)
<1>2. T \subseteq activities /\ \A a : a \in T <=> a \in activities /\ Fits(r.q, a)
  BY SelectedFits
<1>3. Sortable(T)
  BY <1>2, SubsetSortable
<1>4. /\ Len(all) = n /\ n \in Nat /\ Place(T) \in [T -> 1..n]
      /\ \A i \in 1..n : all[i] \in T
      /\ \A a \in T : all[Place(T)[a]] = a
  <2> HIDE DEF T
  <2> QED
    BY <1>3, OrderedFacts
<1>1. Rest(r) = rest /\ m \in Nat
  BY <1>4 DEF Rest, ReaderOK, Reader
<1>a. \A a : Ahead(r, a, activities) => Place(T)[a] > m
  BY DEF Ahead
<1> HIDE DEF T, all, n, m
<1>5. /\ rest \in Seq(T) /\ Len(rest) = (IF m + 1 <= n THEN n - (m + 1) + 1 ELSE 0)
      /\ \A i \in 1..(n - (m + 1) + 1) : rest[i] = all[(m + 1) + i - 1]
  <2>1. \A i \in (m + 1)..n : all[i] \in T
    BY <1>1, <1>4
  <2> QED
    BY <1>1, <1>4, <2>1, SubSeqProperties
<1>6. /\ rest \in Seq(T) /\ Len(rest) = (IF m < n THEN n - m ELSE 0)
      /\ \A i \in 1..(n - m) : rest[i] = all[m + i]
  BY <1>1, <1>4, <1>5
<1> HIDE DEF rest
<1>7. rest \in Seq(activities) /\ \A i \in 1..Len(rest) : rest[i] \in T
  BY <1>2, <1>6, SeqMonotonic, ElementOfSeq
<1>8. ASSUME NEW a \in T, Ahead(r, a, activities)
      PROVE  Place(T)[a] - m \in 1..Len(rest) /\ rest[Place(T)[a] - m] = a
  <2>1. Place(T)[a] \in 1..n /\ Place(T)[a] > m
    BY <1>4, <1>8, <1>a
  <2>2. Place(T)[a] - m \in 1..(n - m) /\ m + (Place(T)[a] - m) = Place(T)[a] /\ m < n
    BY <1>1, <1>4, <2>1
  <2> QED
    BY <1>4, <1>6, <2>2
<1> QED
  BY <1>1, <1>2, <1>7, <1>8 DEF T, m

\* A page: what it shows fits and goes on where the last one ended, and what was known is
\* shown or still ahead; nothing is ahead of the last page.
LEMMA PageReads ==
  ASSUME Reading, Page
  PROVE  ReaderOK(reader', activities)
<1> DEFINE r == reader
           u == reader'
           rest == Rest(r)
           size == IF Len(rest) < Limit THEN Len(rest) ELSE Limit
           page == SubSeq(rest, 1, size)
<1>1. ReaderOK(r, activities) /\ r.pc = "page" /\ Sortable(activities)
  BY DEF Reading, Page, NoReader
<1>2. /\ u.pc = (IF Len(rest) > Limit THEN "page" ELSE "done") /\ u.q = r.q
      /\ u.seen = r.seen \o page /\ u.offset = r.offset + Limit /\ u.known = r.known
      /\ u = [pc |-> u.pc, q |-> u.q, seen |-> u.seen, offset |-> u.offset, known |-> u.known]
  <2> HIDE DEF page, rest
  <2>1. u = [r EXCEPT !.seen = @ \o page, !.offset = @ + Limit,
                      !.pc = IF Len(rest) > Limit THEN "page" ELSE "done"]
    BY DEF Page, page, rest
  <2>2. r \in Reader(activities)
    BY <1>1 DEF ReaderOK
  <2> QED
    BY <2>1, <2>2 DEF Reader
<1> HIDE DEF u
<1>3. /\ rest \in Seq(activities)
      /\ \A i \in 1..Len(rest) : Fits(r.q, rest[i])
      /\ r.q.mode = "typed" => \A i \in 1..Len(rest) : Follows(r, rest[i])
      /\ r.q.mode = "typed" => \A i, j \in 1..Len(rest) : i < j => Before(rest[i], rest[j])
  BY <1>1, RestTyped, RestTimeline
<1>4. \A a \in activities : Fits(r.q, a) /\ r.q.mode = "typed" /\ Follows(r, a) =>
                               \E i \in 1..Len(rest) : rest[i] = a
  BY <1>1, RestTyped
<1>5. \A a \in activities : Fits(r.q, a) /\ r.q.mode # "typed" /\ Ahead(r, a, activities) =>
                              LET k == Place(Selected(r.q, activities))[a] - r.offset
                              IN k \in 1..Len(rest) /\ rest[k] = a
  BY <1>1, RestTimeline
<1> HIDE DEF rest
<1>6. /\ size \in 0..Len(rest) /\ Len(rest) \in Nat /\ Limit \in Nat \ {0}
      /\ Len(rest) > Limit => size = Limit
      /\ ~(Len(rest) > Limit) => size = Len(rest)
      /\ page \in Seq(activities) /\ Len(page) = size
      /\ \A i \in 1..size : page[i] = rest[i]
  BY <1>3, PageFacts, QueryAssumption
<1> HIDE DEF size, page
<1> DEFINE n == Len(r.seen)
<1>7. /\ r \in Reader(activities) /\ r.seen \in Seq(activities) /\ n \in Nat /\ r.offset \in Nat
      /\ r.known \subseteq activities
  BY <1>1 DEF ReaderOK, Reader
<1>8. /\ u.seen \in Seq(activities) /\ Len(u.seen) = n + size
      /\ \A i \in 1..n : u.seen[i] = r.seen[i]
      /\ \A k \in 1..size : u.seen[n + k] = rest[k]
  <2>1. /\ u.seen \in Seq(activities) /\ Len(u.seen) = n + size
        /\ \A i \in 1..(n + size) : u.seen[i] = IF i <= n THEN r.seen[i] ELSE page[i - n]
    <3>0. \A s, t \in Seq(activities) :
            /\ s \o t \in Seq(activities) /\ Len(s \o t) = Len(s) + Len(t)
            /\ \A i \in 1..(Len(s) + Len(t)) : (s \o t)[i] =
                                                 IF i <= Len(s) THEN s[i] ELSE t[i - Len(s)]
      BY ConcatProperties
    <3>1. /\ r.seen \o page \in Seq(activities) /\ Len(r.seen \o page) = n + Len(page)
          /\ \A i \in 1..(n + Len(page)) : (r.seen \o page)[i] =
                                             IF i <= n THEN r.seen[i] ELSE page[i - n]
      BY <1>6, <1>7, <3>0
    <3> DEFINE joined == r.seen \o page
    <3>2. u.seen = joined /\ Len(page) = size
      BY <1>2, <1>6
    <3> HIDE DEF n, joined
    <3>3. /\ joined \in Seq(activities) /\ Len(joined) = n + size
          /\ \A i \in 1..(n + size) : joined[i] = IF i <= n THEN r.seen[i] ELSE page[i - n]
      BY <3>1, <3>2 DEF joined
    <3> QED
      BY <3>2, <3>3
  <2>2. ASSUME NEW k \in 1..size PROVE u.seen[n + k] = rest[k]
    <3>1. n + k \in 1..(n + size) /\ ~(n + k <= n) /\ n + k - n = k
      BY <1>6, <1>7
    <3>2. u.seen[n + k] = IF n + k <= n THEN r.seen[n + k] ELSE page[n + k - n]
      BY <2>1, <3>1
    <3>3. u.seen[n + k] = page[k]
      BY <3>1, <3>2
    <3> QED
      BY <1>6, <3>3
  <2>3. ASSUME NEW i \in 1..n PROVE u.seen[i] = r.seen[i]
    <3>1. i \in 1..(n + size) /\ i <= n
      BY <1>6, <1>7
    <3>2. u.seen[i] = IF i <= n THEN r.seen[i] ELSE page[i - n]
      BY <2>1, <3>1
    <3> QED
      BY <3>1, <3>2
  <2> QED
    BY <2>1, <2>2, <2>3
<1>9. \A i \in 1..Len(u.seen) : i \in 1..n \/ \E k \in 1..size : i = n + k
  <2>1. ASSUME NEW i \in 1..(n + size), i \notin 1..n PROVE i - n \in 1..size /\ i = n + (i - n)
    BY <1>6, <1>7, <2>1
  <2> QED
    BY <1>8, <2>1
<1>10. u \in Reader(activities)
  <2>1. u.offset \in Nat /\ u.pc \in {"page", "done"} /\ u.q \in Readers /\ u.known \in SUBSET activities
    BY <1>2, <1>6, <1>7 DEF Reader
  <2> QED
    BY <1>2, <1>8, <2>1 DEF Reader
<1>11. SeenFits(u)
  <2>1. \A k \in 1..size : Fits(r.q, rest[k])
    BY <1>3, <1>6
  <2> QED
    BY <1>1, <1>2, <1>8, <1>9, <2>1 DEF ReaderOK, SeenFits
<1>12. ASSUME r.q.mode = "typed", NEW i \in 1..Len(u.seen), NEW j \in 1..Len(u.seen), i < j
       PROVE  Before(u.seen[i], u.seen[j])
  <2>1. CASE i \in 1..n /\ j \in 1..n
    BY <1>1, <1>8, <1>12, <2>1 DEF ReaderOK, InOrder
  <2>2. ASSUME NEW k \in 1..size, i \in 1..n, j = n + k PROVE Before(u.seen[i], u.seen[j])
    <3>1. /\ r.seen # <<>> /\ Last(r.seen) = r.seen[n] /\ n \in 1..n
          /\ u.seen[i] = r.seen[i] /\ u.seen[j] = rest[k] /\ k \in 1..Len(rest)
      BY <1>6, <1>7, <1>8, <2>2 DEF Last
    <3>2. Before(r.seen[n], rest[k])
      BY <1>3, <1>12, <3>1 DEF Follows
    <3>3. i = n \/ Before(r.seen[i], r.seen[n])
      BY <1>1, <1>7, <1>12, <2>2, <3>1 DEF ReaderOK, InOrder
    <3>4. /\ r.seen[i] \in activities /\ r.seen[n] \in activities /\ rest[k] \in activities
      BY <1>3, <1>7, <2>2, <3>1, ElementOfSeq
    <3>5. \A a \in activities : a.text \in Nat /\ a.id \in Nat
      BY <1>1 DEF Sortable
    <3>6. Before(r.seen[i], rest[k])
      BY <3>2, <3>3, <3>4, <3>5, BeforeTransitive
    <3> QED
      BY <3>1, <3>6
  <2>3. ASSUME NEW k \in 1..size, NEW l \in 1..size, i = n + k, j = n + l
        PROVE  Before(u.seen[i], u.seen[j])
    <3>1. k < l /\ k \in 1..Len(rest) /\ l \in 1..Len(rest)
      BY <1>6, <1>7, <1>12, <2>3
    <3> QED
      BY <1>3, <1>8, <1>12, <2>3, <3>1
  <2>4. ASSUME NEW k \in 1..size, i = n + k PROVE j \notin 1..n
    BY <1>6, <1>7, <1>12, <2>4
  <2> QED
    BY <1>9, <2>1, <2>2, <2>3, <2>4
<1>13. ASSUME NEW a \in r.known, Shown(r, a) PROVE Shown(u, a)
  <2>1. PICK i \in 1..n : r.seen[i] = a
    BY <1>13 DEF Shown
  <2>2. i \in 1..Len(u.seen) /\ u.seen[i] = a
    BY <1>6, <1>7, <1>8, <2>1
  <2> QED
    BY <2>2 DEF Shown
<1>14. ASSUME NEW a, NEW k \in 1..size, rest[k] = a PROVE Shown(u, a)
  <2>1. n + k \in 1..Len(u.seen) /\ u.seen[n + k] = a
    BY <1>6, <1>7, <1>8, <1>14
  <2> QED
    BY <2>1 DEF Shown
<1>15. ASSUME NEW a \in r.known, Ahead(r, a, activities), ~Shown(u, a)
       PROVE  u.pc = "page" /\ Ahead(u, a, activities)
  <2>0. a \in activities /\ Fits(r.q, a)
    BY <1>1, <1>7 DEF ReaderOK
  <2>1. CASE r.q.mode = "typed"
    <3>1. PICK k \in 1..Len(rest) : rest[k] = a
      BY <1>4, <1>15, <2>0, <2>1 DEF Ahead
    <3>2. k \notin 1..size
      BY <1>14, <1>15, <3>1
    <3>3. size = Limit /\ Len(rest) > Limit /\ size < k /\ size \in 1..size /\ size \in 1..Len(rest)
      BY <1>6, <3>1, <3>2
    <3>4. Before(rest[size], a)
      BY <1>3, <2>1, <3>1, <3>3
    <3>5. Last(u.seen) = rest[size]
      <4>1. Last(u.seen) = u.seen[n + size]
        BY <1>8 DEF Last
      <4> QED
        BY <1>8, <3>3, <4>1
    <3> QED
      BY <1>2, <2>1, <3>3, <3>4, <3>5 DEF Ahead, Follows
  <2>2. CASE r.q.mode # "typed"
    <3> DEFINE p == Place(Selected(r.q, activities))[a]
               k == p - r.offset
    <3>1. k \in 1..Len(rest) /\ rest[k] = a
      BY <1>5, <1>15, <2>0, <2>2
    <3>2. k \notin 1..size
      BY <1>14, <1>15, <3>1
    <3>4. p \in Nat
      <4> DEFINE T == Selected(r.q, activities)
      <4>1. a \in T /\ T \subseteq activities
        BY <2>0, SelectedFits
      <4>2. Sortable(T)
        BY <1>1, <4>1, SubsetSortable
      <4> HIDE DEF T
      <4>3. Place(T) \in [T -> 1..Cardinality(T)]
        BY <4>2, OrderedFacts
      <4>4. Place(T)[a] \in Nat
        BY <4>1, <4>3
      <4> QED
        BY <4>4 DEF T
    <3> HIDE DEF p
    <3>3. Len(rest) > Limit /\ p > r.offset + Limit
      BY <1>6, <1>7, <3>1, <3>2, <3>4
    <3> QED
      BY <1>2, <2>2, <3>3 DEF Ahead, p
  <2> QED
    BY <2>1, <2>2
<1> HIDE DEF n
<1>16. InOrder(u)
  BY <1>2, <1>12 DEF InOrder
<1> QED
  BY <1>1, <1>2, <1>10, <1>11, <1>13, <1>15, <1>16 DEF ReaderOK, u

LEMMA ReadingInit == Init => Reading
BY FS_EmptySet DEF Init, Reading, Sortable

\* Ingestion adds activities that can be sorted with those there are.
LEMMA StockGrows ==
  ASSUME Agree, Agree', Accounted, Sortable(activities), [Next]_vars
  PROVE  Sortable(activities)' /\ activities \subseteq activities'
<1>1. CASE UNCHANGED <<raw, activities, entities, relations>>
  BY <1>1
<1>2. ASSUME NEW x, x.id \in Nat, x.text \in Nat, StoreRecord(x)
      PROVE  Sortable(activities)' /\ activities \subseteq activities'
  <2>1. activities' = activities \cup Parse(x)
    BY <1>2 DEF StoreRecord
  <2>2. IsFiniteSet(Parse(x))
    <3>1. PICK a, b : Parse(x) \subseteq {a, b}
      BY <1>2, ParseFacts
    <3>2. IsFiniteSet({a, b})
      <4>1. IsFiniteSet({a}) /\ {a, b} = {a} \cup {b}
        BY FS_Singleton
      <4>2. IsFiniteSet({a} \cup {b})
        BY <4>1, FS_AddElement
      <4> QED
        BY <4>1, <4>2, Zenon
    <3> QED
      BY <3>1, <3>2, FS_Subset
  <2>3. IsFiniteSet(activities')
    BY <2>1, <2>2, FS_Union DEF Sortable
  <2>4. \A a \in Parse(x) : a.text \in Nat /\ a.id \in Nat
    BY <1>2, ParseFacts
  <2> QED
    BY <2>1, <2>3, <2>4 DEF Sortable, Agree
<1> QED
  BY <1>1, <1>2, WhoWrites

LEMMA ReadingNext == Agree /\ Agree' /\ Accounted /\ Reading /\ [Next]_vars => Reading'
<1> SUFFICES ASSUME Agree, Agree', Accounted, Reading, [Next]_vars PROVE Reading'
  OBVIOUS
<1>1. Sortable(activities)' /\ activities \subseteq activities' /\ Sortable(activities')
  BY StockGrows DEF Reading, Sortable
<1>2. reader' = NoReader \/ ReaderOK(reader', activities)
  <2>1. CASE reader' = reader
    BY <2>1 DEF Reading
  <2>2. CASE \E q \in Readers : Open(q)
    BY <2>2, OpenReads
  <2>3. CASE Page
    BY <2>3, PageReads
  <2>4. CASE Close
    BY <2>4 DEF Close
  <2> QED
    BY <2>1, <2>2, <2>3, <2>4 DEF Next, vars, ReadDigest, Insert, Crash
<1>3. reader' = NoReader \/ ReaderOK(reader', activities')
  BY <1>1, <1>2, ReaderStays
<1> QED
  BY <1>1, <1>3 DEF Reading, ReaderOK, Reader, SeenFits, InOrder, Shown, Ahead, NoReader

LEMMA ReadingInvariant == Spec => [](Agree /\ Accounted /\ Reading)
<1> QED
  BY AgreeInit, AgreeNext, AccountedInit, AccountedNext, ReadingInit, ReadingNext, PTL DEF Spec

\* A client that follows the cursors to the end misses nothing that matched when it began,
\* whatever is ingested meanwhile, and a typed query never repeats a row (_query,
\* list_entity_timeline).
THEOREM PagesAreComplete == Spec => []PagesComplete
<1>1. Reading => PagesComplete
  <2> SUFFICES ASSUME Reading, reader.pc # "idle" PROVE PagesComplete
    BY DEF PagesComplete, Reading
  <2>1. ReaderOK(reader, activities)
    BY DEF Reading, NoReader
  <2>2. ASSUME reader.pc = "done", NEW a \in reader.known PROVE a \in ToSet(reader.seen)
    <3>1. PICK i \in 1..Len(reader.seen) : reader.seen[i] = a
      BY <2>1, <2>2 DEF ReaderOK, Shown
    <3>2. reader.seen \in Seq(activities)
      BY <2>1 DEF ReaderOK, Reader
    <3> QED
      BY <3>1, <3>2 DEF ToSet
  <2> QED
    BY <2>1, <2>2 DEF ReaderOK, InOrder, PagesComplete
<1> QED
  BY <1>1, ReadingInvariant, PTL

\* No page ever shows an activity of a host outside the scope or of a source outside the
\* profile, whatever hosts a query names, nor one outside the window as the query compares
\* it: typed ones by their text, timelines by the instant (_query, list_entity_timeline).
THEOREM PagesStayInScope == Spec => []PagesInScope
<1>1. Reading => PagesInScope
  <2> SUFFICES ASSUME Reading, reader.pc # "idle", NEW i \in 1..Len(reader.seen)
               PROVE  LET a == reader.seen[i]
                          w == reader.q.window
                      IN /\ a.source \in Visible
                         /\ reader.q.mode = "typed" /\ a.type # "asset" /\ ScopeHosts # {} =>
                              a.host \in ScopeHosts
                         /\ reader.q.mode = "typed" /\ InUTC(a) /\ InUTC(w[1]) /\ InUTC(w[2]) =>
                              ScopeWindow[1].time <= a.time /\ a.time <= ScopeWindow[2].time
                         /\ reader.q.mode # "typed" => w[1].time <= a.time /\ a.time <= w[2].time
    BY DEF PagesInScope
  <2> DEFINE a == reader.seen[i]
             q == reader.q
             w == q.window
  <2>1. ReaderOK(reader, activities)
    BY DEF Reading, NoReader
  <2>2. a \in activities /\ a.text \in Nat /\ q \in Readers /\ Fits(q, a)
    BY <2>1, ElementOfSeq DEF ReaderOK, Reader, SeenFits, Reading, Sortable
  <2>3. q.mode = "typed" => Authorized(q)
    BY <2>1 DEF ReaderOK
  <2>4. /\ {ScopeWindow[1].time, ScopeWindow[2].time} \subseteq Nat
        /\ {w[1].time, w[1].text, w[2].time, w[2].text} \subseteq Nat
    BY <2>2, QueryAssumption
  <2> HIDE DEF a, q
  <2>5. a.source \in Visible
    BY <2>2 DEF Fits, Matches, OnTimeline
  <2>6. ASSUME q.mode = "typed", a.type # "asset", ScopeHosts # {} PROVE a.host \in ScopeHosts
    <3>1. Matches(a, q) /\ q.hosts \subseteq ScopeHosts
      BY <2>2, <2>3, <2>6 DEF Fits, Authorized
    <3> QED
      BY <3>1, <2>6 DEF Matches, Hosts
  <2>7. ASSUME q.mode = "typed", InUTC(a), InUTC(w[1]), InUTC(w[2])
        PROVE  ScopeWindow[1].time <= a.time /\ a.time <= ScopeWindow[2].time
    <3>1. w[1].text <= a.text /\ a.text <= w[2].text
      BY <2>2, <2>7 DEF Fits, Matches
    <3>2. ScopeWindow[1].time <= w[1].time /\ w[2].time <= ScopeWindow[2].time
      BY <2>3, <2>7 DEF Authorized
    <3>3. a.text = a.time /\ w[1].text = w[1].time /\ w[2].text = w[2].time
      BY <2>7 DEF InUTC
    <3> HIDE DEF w
    <3> QED
      BY <2>2, <2>4, <3>1, <3>2, <3>3
  <2>8. q.mode # "typed" => w[1].time <= a.time /\ a.time <= w[2].time
    BY <2>2 DEF Fits, OnTimeline
  <2> QED
    BY <2>5, <2>6, <2>7, <2>8 DEF a, q
<1> QED
  BY <1>1, ReadingInvariant, PTL
=============================================================================
