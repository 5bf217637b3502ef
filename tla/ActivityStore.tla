---------------------------- MODULE ActivityStore ----------------------------
(* The data foundation: batches of raw records are parsed into activities    *)
(* and projected to entities and relations, one transaction per record       *)
(* (application/ingestion.py, adapters/parsers.py, activity_store.py,        *)
(* domain/entity_projection.py), while queries read the store page by page   *)
(* (adapters/activity_query.py, investigation_data.py).                      *)
EXTENDS Naturals, Sequences, SequencesExt, FiniteSetsExt, TLC

CONSTANTS
    Ingesters,      \* processes that ingest
    Batch,          \* the records each of them has, in order
    Readers,        \* the reads a client makes: typed queries and timelines
    Visible,        \* visible_sources of the data profile
    ScopeHosts,     \* authorized hosts and domains, and the window in time
    ScopeDomains,
    ScopeWindow,
    Known,          \* process references that carry a start time
    Limit,          \* page size
    MaxCrashes

(* Records have numbers: the identifier of an activity and that of its twin  *)
(* are made from the record's.                                               *)
ASSUME BatchAssumption ==
    \A b \in Ingesters :
        /\ Len(Batch[b]) \in Nat
        /\ \A i \in 1..Len(Batch[b]) :
              {Batch[b][i].id, Batch[b][i].time, Batch[b][i].text} \subseteq Nat

(* A moment is kept as it was written: its time is the instant it means, its *)
(* text the place of its ISO text among all texts.  In UTC the texts are in  *)
(* the order of the instants, with another offset they need not be: nothing  *)
(* converts an offset (_observed_at, isoformat).                             *)
InUTC(m) == m.text = m.time

(* The contracts of the queries: a page holds something, a window is bounded *)
(* by two moments.                                                           *)
ASSUME QueryAssumption ==
    /\ Limit \in Nat \ {0}
    /\ \A w \in {ScopeWindow} \cup {q.window : q \in Readers} :
          {w[1].time, w[1].text, w[2].time, w[2].text} \subseteq Nat

NoRef == "none"

VARIABLES
    raw,        \* raw_records: key to content
    activities, \* normalized_activities
    entities,   \* entity_identities: key to merged identity
    relations,  \* observed_relations
    quarantine, \* quarantined_records of each batch: identifier to content
    ing,        \* the ingesters
    reader,     \* the client's read in progress
    crashes

tables == <<raw, activities, entities, relations, quarantine>>
vars == <<tables, ing, reader, crashes>>

-----------------------------------------------------------------------------
(* ReferenceEventParser: the activities of a record.  The identifier is the  *)
(* record's, whatever its source; the twin of an executed or configured file *)
(* sorts right after it.                                                     *)
TypeOf ==
    [process_exec |-> "process", process_parent_relation |-> "process",
     network_connection |-> "network", socket_io |-> "socket", file_event |-> "file",
     systemd_event |-> "service", package_provenance |-> "package",
     login_event |-> "authentication", approved_endpoint |-> "asset"]

Activity(x) ==
    LET type == IF x.kind \in DOMAIN TypeOf THEN TypeOf[x.kind] ELSE "extension"
    IN [id |-> 2 * x.id, type |-> type, source |-> x.source, record |-> x.id,
        time |-> x.time, text |-> x.text,
        host  |-> IF type \in {"asset", "extension"} THEN NoRef ELSE x.host,
        actor |-> x.actor, object |-> x.object,
        parent |-> IF x.kind = "process_parent_relation" THEN x.object ELSE NoRef]

Parse(x) ==
    LET a == Activity(x)
    IN {a} \cup IF x.kind \in {"process_exec", "systemd_event"} /\ x.object # NoRef
                THEN {[a EXCEPT !.id = @ + 1, !.type = "file",
                         !.actor = IF x.kind = "process_exec" THEN @ ELSE NoRef]}
                ELSE {}

(* The contract of an activity refuses an empty host. *)
Malformed(x) == \E a \in Parse(x) : a.host = ""

(* DeterministicEntityProjector.  An entity is its kind and reference, for a *)
(* process of known start that start too; a relation through a process whose *)
(* start the activity does not show is a candidate only.                     *)
Entity(kind, ref) == [kind |-> kind, ref |-> ref]

ActorKind == [service |-> "service", package |-> "package"]
ObjectKind == [process |-> "file", file |-> "file", network |-> "network_endpoint",
               socket |-> "network_endpoint", service |-> "file", package |-> "file"]
LinkKind == [process |-> "executes", file |-> "acts_on", network |-> "connects_to",
             socket |-> "uses_socket", service |-> "configured_to_execute", package |-> "owns"]

Actor(a) == Entity(IF a.type \in DOMAIN ActorKind THEN ActorKind[a.type] ELSE "process", a.actor)

Related(a) ==
    LET started == a.actor \in Known
        link(kind, from, to, resolved) ==
            IF NoRef \in {from.ref, to.ref} THEN {}
            ELSE {[kind |-> kind, from |-> from, to |-> to, resolved |-> resolved, activity |-> a.id]}
    IN (IF a.type \notin DOMAIN LinkKind \/ a.parent # NoRef THEN {}
        ELSE link(LinkKind[a.type], Actor(a), Entity(ObjectKind[a.type], a.object),
                  a.type \in {"process", "service", "package"}))
       \cup (IF a.type # "process" THEN {}
             ELSE link("hosts", Entity("host", a.host), Actor(a), started)
                  \cup link("parent_of", Entity("process", a.parent), Actor(a), started))

Identified(a) ==
    {e \in (UNION {{r.from, r.to} : r \in Related(a)})
           \cup {Entity("host", a.host)}
           \cup (IF a.type \in DOMAIN LinkKind /\ a.type # "file" THEN {Actor(a)} ELSE {})
           \cup (IF a.type \in {"file", "network"} THEN {Entity(ObjectKind[a.type], a.object)} ELSE {})
           \cup (IF a.type = "asset" THEN {Entity("business_asset", a.object)} ELSE {}) : e.ref # NoRef}

(* put_entity: aliases accumulate, the first start of validity stays. *)
Merged_Replaced(e, x) ==
    [aliases |-> {x.source}, since |-> IF e.kind = "process" /\ e.ref \in Known THEN x.time ELSE 0]

Merged(e, x) ==
    LET since == IF e.kind = "process" /\ e.ref \in Known THEN x.time ELSE 0
    IN IF e \notin DOMAIN entities THEN [aliases |-> {x.source}, since |-> since]
       ELSE [aliases |-> entities[e].aliases \cup {x.source},
             since   |-> IF entities[e].since # 0 THEN entities[e].since ELSE since]

-----------------------------------------------------------------------------
(* ingest_payloads.  An ingester reads the digest of a record first and      *)
(* inserts in a transaction of its own; what raises is quarantined.          *)
Key(x) == <<x.source, x.id>>
Current(b) == Batch[b][ing[b].pos]

(* The digest tells a record sent again from one that changed. *)
Duplicate_ByKey(x) == Key(x) \in DOMAIN raw
Duplicate(x) == Key(x) \in DOMAIN raw /\ raw[Key(x)] = x
Changed(x) == Key(x) \in DOMAIN raw /\ raw[Key(x)] # x

Stepped(s, what) ==
    LET one(counter) == IF what = counter THEN 1 ELSE 0
    IN [pc |-> "read", pos |-> s.pos + 1, imported |-> s.imported + one("imported"),
        duplicates |-> s.duplicates + one("duplicates"), failed |-> s.failed + one("failed")]

Step(b, what) == ing' = [ing EXCEPT ![b] = Stepped(ing[b], what)]

Quarantine(b, x) ==
    /\ quarantine' = [quarantine EXCEPT ![b] =
                        [id \in DOMAIN quarantine[b] \cup {x.id} |->
                           IF id = x.id THEN x ELSE quarantine[b][id]]]
    /\ Step(b, "failed")
    /\ UNCHANGED <<raw, activities, entities, relations>>

ReadDigest(b) ==
    /\ ing[b].pc = "read"
    /\ ing[b].pos <= Len(Batch[b])
    /\ LET x == Current(b)
       IN \/ /\ x.usable /\ Key(x) \notin DOMAIN raw
             /\ ing' = [ing EXCEPT ![b].pc = "insert"]
             /\ UNCHANGED tables
          \/ /\ x.usable /\ Duplicate(x)
             /\ Step(b, "duplicates")
             /\ UNCHANGED tables
          \/ /\ ~x.usable \/ Changed(x)
             /\ Quarantine(b, x)
    /\ UNCHANGED <<reader, crashes>>

(* The keys: one raw record per source and identifier, one activity per      *)
(* identifier, whatever its source.                                          *)
Collides_RecordOnly(x) == Key(x) \in DOMAIN raw

Collides(x) ==
    \/ Key(x) \in DOMAIN raw
    \/ {a.id : a \in Parse(x)} \cap {a.id : a \in activities} # {}

StoreRecord(x) ==
    LET new == Parse(x)
        met == UNION {Identified(a) : a \in new}
    IN /\ raw' = [k \in DOMAIN raw \cup {Key(x)} |-> IF k = Key(x) THEN x ELSE raw[k]]
       /\ activities' = activities \cup new
       /\ entities' = [e \in DOMAIN entities \cup met |->
                         IF e \in met THEN Merged(e, x) ELSE entities[e]]
       /\ relations' = relations \cup UNION {Related(a) : a \in new}

Insert(b) ==
    /\ ing[b].pc = "insert"
    /\ LET x == Current(b)
       IN \/ /\ ~Malformed(x) /\ ~Collides(x)
             /\ StoreRecord(x)
             /\ Step(b, "imported")
             /\ UNCHANGED quarantine
          \/ /\ Malformed(x) \/ Collides(x)
             /\ Quarantine(b, x)
    /\ UNCHANGED <<reader, crashes>>

(* The process dies between two commits; the batch is ingested again. *)
Fresh == [pc |-> "read", pos |-> 1, imported |-> 0, duplicates |-> 0, failed |-> 0]

Crash(b) ==
    /\ crashes < MaxCrashes
    /\ ing[b].pos <= Len(Batch[b])
    /\ ing' = [ing EXCEPT ![b] = Fresh]
    /\ crashes' = crashes + 1
    /\ UNCHANGED <<tables, reader>>
-----------------------------------------------------------------------------
(* SQLiteActivityQueryAdapter._query: the request must lie in the scope; the *)
(* typed rows are filtered, and the page after the cursor is returned.  The  *)
(* scope is compared as instants, the rows, their order and the cursor as    *)
(* text; no hosts at all filter nothing.                                     *)
DomainOf == [process |-> "process", network |-> "network", socket |-> "network", file |-> "file",
             service |-> "persistence", package |-> "reputation", asset |-> "reputation",
             authentication |-> "authentication"]

Hosts(q) == IF q.hosts # {} THEN q.hosts ELSE ScopeHosts

Authorized_AnyHost(q) ==
    /\ q.type = "extension" \/ DomainOf[q.type] \in ScopeDomains
    /\ ScopeWindow[1].time <= q.window[1].time /\ q.window[2].time <= ScopeWindow[2].time

Authorized(q) ==
    /\ q.type = "extension" \/ DomainOf[q.type] \in ScopeDomains
    /\ q.hosts \subseteq ScopeHosts
    /\ ScopeWindow[1].time <= q.window[1].time /\ q.window[2].time <= ScopeWindow[2].time

AllRefs(a) == {a.host, a.actor, a.object} \ {NoRef}

Matches(a, q) ==
    /\ a.type = q.type
    /\ a.type # "asset" /\ Hosts(q) # {} => a.host \in Hosts(q)
    /\ a.type = "asset" /\ q.hosts # {} => AllRefs(a) \cap q.hosts # {}
    /\ q.window[1].text <= a.text /\ a.text <= q.window[2].text
    /\ a.source \in Visible
    /\ q.refs # {} => AllRefs(a) \cap q.refs # {}

(* list_entity_timeline: an activity without a host passes for every host,   *)
(* and the window is compared as instants.                                   *)
OnTimeline(a, q) ==
    /\ a.source \in Visible
    /\ {a.actor, a.object} \cap q.refs # {}
    /\ a.host = NoRef \/ a.host \in q.hosts
    /\ q.window[1].time <= a.time /\ a.time <= q.window[2].time

Selected(q, rows) ==
    {a \in rows : IF q.mode = "typed" THEN Matches(a, q) ELSE OnTimeline(a, q)}

Before(a, b) == a.text < b.text \/ (a.text = b.text /\ a.id < b.id)
Place(rows) == [a \in rows |-> Cardinality({b \in rows : Before(b, a)}) + 1]
Ordered(rows) == [i \in 1..Cardinality(rows) |-> CHOOSE a \in rows : Place(rows)[a] = i]

NoReader == [pc |-> "idle"]

Open(q) ==
    /\ reader.pc = "idle"
    /\ q.mode = "typed" => Authorized(q)
    /\ reader' = [pc |-> "page", q |-> q, seen |-> <<>>, offset |-> 0, known |-> Selected(q, activities)]
    /\ UNCHANGED <<tables, ing, crashes>>

Follows_ByTime(r, a) == r.seen = <<>> \/ Last(r.seen).text < a.text
Follows(r, a) == r.seen = <<>> \/ Before(Last(r.seen), a)

(* A typed query continues after the last row it returned, a timeline at an  *)
(* offset into the list as it now is.                                        *)
Rest(r) ==
    LET rows == Selected(r.q, activities)
    IN IF r.q.mode = "typed"
       THEN Ordered({a \in rows : Follows(r, a)})
       ELSE LET all == Ordered(rows) IN SubSeq(all, r.offset + 1, Len(all))

Page ==
    /\ reader.pc = "page"
    /\ LET rest == Rest(reader)
           size == IF Len(rest) < Limit THEN Len(rest) ELSE Limit
       IN reader' = [reader EXCEPT !.seen = @ \o SubSeq(rest, 1, size),
                                   !.offset = @ + Limit,
                                   !.pc = IF Len(rest) > Limit THEN "page" ELSE "done"]
    /\ UNCHANGED <<tables, ing, crashes>>

Close ==
    /\ reader.pc = "done"
    /\ reader' = NoReader
    /\ UNCHANGED <<tables, ing, crashes>>

(* find_relations and get_raw_record: what is only supported by a source out *)
(* of view is not shown.                                                     *)
ShownActivities == {a \in activities : a.source \in Visible}
ShownRelations  == {r \in relations : \E a \in ShownActivities : a.id = r.activity}

-----------------------------------------------------------------------------
Init ==
    /\ raw = <<>> /\ entities = <<>>
    /\ activities = {} /\ relations = {}
    /\ quarantine = [b \in Ingesters |-> <<>>]
    /\ ing = [b \in Ingesters |-> Fresh]
    /\ reader = NoReader
    /\ crashes = 0

Next ==
    \/ \E b \in Ingesters : ReadDigest(b) \/ Insert(b) \/ Crash(b)
    \/ \E q \in Readers : Open(q)
    \/ Page
    \/ Close

Spec == Init /\ [][Next]_vars

-----------------------------------------------------------------------------
(* Types of the tables and of what an ingester and a client hold. *)
Counter == 0 .. Max({Len(Batch[b]) : b \in Ingesters})

TypeOK ==
    /\ \A k \in DOMAIN raw : Key(raw[k]) = k
    /\ \A e \in DOMAIN entities : entities[e].since \in Nat
    /\ \A b \in Ingesters :
          /\ \A id \in DOMAIN quarantine[b] : quarantine[b][id].id = id
          /\ ing[b].pc \in {"read", "insert"}
          /\ ing[b].pos \in 1 .. Len(Batch[b]) + 1
          /\ {ing[b].imported, ing[b].duplicates, ing[b].failed} \subseteq Counter
    /\ reader.pc \in {"idle", "page", "done"}
    /\ reader.pc # "idle" => reader.q \in Readers
    /\ crashes \in 0 .. MaxCrashes

(* The four tables tell one story: every raw record is there with all of its *)
(* activities, entities and relations and nothing else is, so that what a    *)
(* relation rests on can be shown down to the record                         *)
(* (put_record_with_activities is one transaction, activity_store.py).       *)
StoreConsistent ==
    LET stored == {raw[k] : k \in DOMAIN raw}
    IN /\ activities = UNION {Parse(x) : x \in stored}
       /\ relations = UNION {Related(a) : a \in activities}
       /\ DOMAIN entities = UNION {Identified(a) : a \in activities}
       /\ \A e \in DOMAIN entities :
             entities[e].aliases = {a.source : a \in {c \in activities : e \in Identified(c)}}
       /\ \A r \in ShownRelations :
             Cardinality({a \in activities : a.id = r.activity /\ <<a.source, a.record>> \in DOMAIN raw}) = 1

(* When a batch has been ingested its report adds up, and the content of     *)
(* every record is in the store, or its identifier in quarantine with the    *)
(* content that was refused last (ingest_payloads, ingestion.py).            *)
NothingLost ==
    \A b \in Ingesters :
      ing[b].pos > Len(Batch[b]) =>
        /\ ing[b].imported + ing[b].duplicates + ing[b].failed = Len(Batch[b])
        /\ \A i \in 1..Len(Batch[b]) :
             LET x == Batch[b][i]
             IN \/ x.usable /\ Key(x) \in DOMAIN raw /\ raw[Key(x)] = x
                \/ x.id \in DOMAIN quarantine[b]

(* History is only added to: no stored record, activity or relation changes  *)
(* or goes, an entity keeps its aliases and the start it was first given     *)
(* (put_entity and put_relation write with INSERT OR REPLACE).               *)
HistoryKept ==
    [][/\ \A k \in DOMAIN raw : k \in DOMAIN raw' /\ raw'[k] = raw[k]
       /\ activities \subseteq activities' /\ relations \subseteq relations'
       /\ \A e \in DOMAIN entities :
             /\ e \in DOMAIN entities'
             /\ entities[e].aliases \subseteq entities'[e].aliases
             /\ entities[e].since # 0 => entities'[e].since = entities[e].since]_vars

(* A client that follows the cursors to the end gets everything that matched *)
(* when it began, whatever is ingested meanwhile; the keyset cursor of a     *)
(* typed query also never repeats a row (activity_query.py:145-165,          *)
(* investigation_data.py:95-120).                                            *)
PagesComplete ==
    /\ reader.pc = "done" => reader.known \subseteq ToSet(reader.seen)
    /\ reader.pc # "idle" /\ reader.q.mode = "typed" =>
         \A i, j \in 1..Len(reader.seen) : i < j => Before(reader.seen[i], reader.seen[j])

(* Whatever host a query names, and when it names none, no activity of a     *)
(* host outside the authorized scope or of a source outside the profile is   *)
(* ever on a page.  A typed query keeps to the authorized window wherever    *)
(* record and window are written in UTC: it compares their texts             *)
(* (activity_query.py:110-143).  A timeline keeps to its window whatever the *)
(* offsets (investigation_data.py:95-114).                                   *)
PagesInScope ==
    reader.pc # "idle" =>
      \A i \in 1..Len(reader.seen) :
        LET a == reader.seen[i]
            w == reader.q.window
        IN /\ a.source \in Visible
           /\ reader.q.mode = "typed" /\ a.type # "asset" /\ ScopeHosts # {} => a.host \in ScopeHosts
           /\ reader.q.mode = "typed" /\ InUTC(a) /\ InUTC(w[1]) /\ InUTC(w[2]) =>
                ScopeWindow[1].time <= a.time /\ a.time <= ScopeWindow[2].time
           /\ reader.q.mode # "typed" => w[1].time <= a.time /\ a.time <= w[2].time

(* A typed query shows nothing from outside the authorized window, whatever  *)
(* offset a record was written with (_query, activity_query.py:132-137).     *)
\* The code does not keep this; no run checks it.
TypedPagesInWindow ==
    reader.pc # "idle" /\ reader.q.mode = "typed" =>
      \A i \in 1..Len(reader.seen) :
        ScopeWindow[1].time <= reader.seen[i].time /\ reader.seen[i].time <= ScopeWindow[2].time
=============================================================================
