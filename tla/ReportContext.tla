---------------------------- MODULE ReportContext -----------------------------
(***************************************************************************)
(* What the report composer and the recall tool see of one run: the        *)
(* gateway's ledger, which keeps every result, projected through the       *)
(* archive (report_context), and the archive itself (build_recall_tools).  *)
(*                                                                         *)
(* Every round calls one data tool, or none; its number stands for the     *)
(* query id and the trace of that call.  Calls that failed are not in the  *)
(* ledger of this runtime (InvestigationToolGateway.invoke raises first).  *)
(* The runtime gives the gateway no tool_call_id, so the traces have none. *)
(***************************************************************************)
EXTENDS ContextArchive

CONSTANTS
    Refs,         \* activities and relations
    Ran,          \* Ran[r]: the data tool of round r, its kind and what its result names
    MaxArchives,  \* recall: handles per call
    MaxIds        \* recall: identifiers per call

Kinds == {"none", "query", "entity", "metric", "raw"}

\* A result names activities (for an exploration, the timeline); an exploration also names
\* relations: resolved ones, candidates, and clues to other hosts.
Result == [tool : STRING, kind : Kinds, refs : SUBSET Refs,
           resolved : SUBSET Refs, candidate : SUBSET Refs, clues : SUBSET Refs]

ASSUME ReportAssumption ==
    /\ Ran \in [Rounds -> Result]
    /\ \A r \in Rounds : Ran[r].kind # "entity" =>
          Ran[r].resolved \cup Ran[r].candidate \cup Ran[r].clues = {}

ASSUME RecallAssumption == {MaxArchives, MaxIds} \subseteq Nat \ {0}

\* The ledger: the rounds so far whose tool has given a result of the kind.
Ledger(kind) == {r \in 1..round : Ran[r].kind = kind}
Traced       == {r \in 1..round : Ran[r].kind # "none"}
-------------------------------------------------------------------------------
\* _collect_ids: the identifiers a round's payload carries as activity_id and as relation_id;
\* raw records and metrics name activities under other keys.
Activities(r) == IF Ran[r].kind \in {"query", "entity"} THEN Ran[r].refs ELSE {}
Relations(r)  == Ran[r].resolved \cup Ran[r].candidate \cup Ran[r].clues

\* _returned_count: a metric has none.
HasCount(r) == Ran[r].kind \in {"query", "entity", "raw"}

\* The rounds the blocks hold; a block another one has replaced is not among them.
ArchivedRounds == UNION Range(blocks)

\* Mutant: the coverage is read from the address index.
CoveredQueries_Indexed == {r \in index : Ran[r].kind = "query"}

\* _ArchiveCoverage: query_ids, activity_ids, relation_ids, and the archived calls of a tool,
\* counted once for every block that holds them.
CoveredQueries    == {r \in ArchivedRounds : Ran[r].kind = "query"}
CoveredActivities == UNION {Activities(r) : r \in ArchivedRounds}
CoveredRelations  == UNION {Relations(r) : r \in ArchivedRounds}
NameQueue(t)   == Cardinality({kr \in (DOMAIN blocks) \X Rounds :
                                 kr[2] \in blocks[kr[1]] /\ Ran[kr[2]].tool = t /\ HasCount(kr[2])})

ActivityRefsAreCovered(r) == Ran[r].refs # {} /\ Ran[r].refs \subseteq CoveredActivities

\* A clue is not among what has to be covered.
EntityResultIsCovered(r) ==
    LET relations == Ran[r].resolved \cup Ran[r].candidate
    IN  /\ relations \cup Ran[r].refs # {}
        /\ relations \subseteq CoveredRelations
        /\ Ran[r].refs \subseteq CoveredActivities

\* trace_is_archived without a tool_call_id: the first calls of a tool are the archived ones.
TraceIsArchived(r) ==
    Cardinality({q \in Traced : q <= r /\ Ran[q].tool = Ran[r].tool}) <= NameQueue(Ran[r].tool)

\* report_context: the cards, and what of the ledger is given in full.
CardQueries     == {r \in ArchivedRounds : Ran[r].kind # "none"}
TailQueries     == Ledger("query") \ CoveredQueries
TailResults     == TailQueries
                   \cup {r \in Ledger("entity") : ~EntityResultIsCovered(r)}
                   \cup {r \in Ledger("metric") \cup Ledger("raw") : ~ActivityRefsAreCovered(r)}
TailTraces      == {r \in Traced : ~TraceIsArchived(r)}

\* evidence_catalog: the authorized activities, which only queries and explorations extend
\* (_record_result), and the resolved relations.
CitableActivities == UNION {Activities(r) : r \in Ledger("query") \cup Ledger("entity")}
CitableRelations  == UNION {Ran[r].resolved : r \in Ledger("entity")}
EvidenceCatalog   == CitableActivities \cup CitableRelations
-------------------------------------------------------------------------------
\* recall(ids = ...): at most MaxIds addresses, what is not found is said.
RecallIds(ids) ==
    IF ids = {} \/ Cardinality(ids) > MaxIds
    THEN [error |-> TRUE, records |-> {}, missing |-> {}]
    ELSE [error |-> FALSE, records |-> ids \cap index, missing |-> ids \ index]

\* recall(archives = ...): the rounds of at most MaxArchives blocks.
RecallArchives(handles) ==
    IF handles = {} \/ Cardinality(handles) > MaxArchives
    THEN [error |-> TRUE, rounds |-> {}, missing |-> {}]
    ELSE [error   |-> FALSE,
          rounds  |-> UNION {blocks[k] : k \in handles \cap DOMAIN blocks},
          missing |-> handles \ DOMAIN blocks]
-------------------------------------------------------------------------------
\* Whatever the run found is still within reach.  The model: a result is in the
\* conversation, was summarized, or recall by address finds it, also when two calls of a
\* step drew one handle and a block replaced the other (MemoryStore._index).  The report:
\* every query is given in full or listed by a card that exists, so a replaced block must
\* not count as covered (_ArchiveCoverage reads the blocks, not the index); and of what a
\* card lists the composer may cite all but relations that were candidates or clues in every
\* exploration so far.
NothingOutOfReach ==
    /\ \A r \in 1..round : r \in LiveRounds \cup lost \/ RecallIds({r}).records = {r}
    /\ Ledger("query") \subseteq TailQueries \cup CardQueries
    /\ \A x \in (CoveredActivities \cup CoveredRelations) \ EvidenceCatalog :
          \E r \in Ledger("entity") : x \in (Ran[r].candidate \cup Ran[r].clues) \ Ran[r].resolved

\* "evidence_catalog lists every citable activity/evidence/relation ID" (reporting.py): the
\* validation accepts a candidate relation as a reference, the catalog does not list it.
\* The code does not keep this; no run checks it.
CatalogIsComplete == \A r \in Ledger("entity") : Ran[r].candidate \subseteq EvidenceCatalog

\* "Not-yet-archived tail: full-fidelity ledger entries" (reporting.py): the composer is
\* given the result of every call that is in no archive.
\* The code does not keep this; no run checks it.
TailIsComplete == phase = "over" => Traced \ ArchivedRounds \subseteq TailResults
===============================================================================
