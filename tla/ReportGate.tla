----------------------------- MODULE ReportGate -----------------------------
(* How a report leaves the judgment component: one or two model pipelines,  *)
(* grounding validation, bounded rejudgment, the evidence floor and the     *)
(* deterministic fallback (judgment/application).  The ledger of the run is *)
(* finished when the pipeline starts; it is the constants.                  *)
EXTENDS Naturals, FiniteSets

CONSTANTS
    Activities,     \* activities in the query results
    Timeline,       \* activities known from an entity's timeline only
    Registered,     \* authorized_activity_refs
    Evidence,       \* evidence references of the query results
    ActivityOf,     \* the activity an evidence reference points at
    Capability,     \* what an activity shows: a set of capabilities
    Entities, Resolved, Candidates,   \* identities and relations of entity results
    Queries,        \* identifiers of the executed queries
    Clues,          \* out-of-scope relations and their other endpoints
    Threats,        \* the threat types a model answers with
    Cites, Claims,  \* the lists of references a model answers with
    MaxRejudgments, ParseLimit, TransportLimit

(* Required: REQUIRED_CAPABILITIES of the evidence gate. *)
Required ==
    [backdoor_c2       |-> {"execution", "network"},
     data_exfiltration |-> {"file_change", "network"},
     ransomware        |-> {"file_change"},
     other             |-> {},
     unknown           |-> {}]

ASSUME LedgerAssumption ==
    /\ Registered \subseteq Activities \cup Timeline
    /\ ActivityOf \in [Evidence -> Activities]
    /\ DOMAIN Capability = Activities \cup Timeline
    /\ Threats \subseteq DOMAIN Required
ASSUME LimitAssumption ==
    /\ MaxRejudgments \in Nat
    /\ ParseLimit \in Nat \ {0}
    /\ TransportLimit \in Nat \ {0}

VARIABLES
    stage,      \* where the pipeline is
    llm,        \* counters of the model call under way
    draft,      \* the draft, when validation found nothing in it
    issues,     \* codes of the last validation
    attempts,   \* rejudgments of this pipeline
    report      \* the published report

gateVars == <<stage, llm, draft, issues, attempts, report>>

Levels == {"confirmed_malicious", "suspicious", "insufficient_evidence"}
Sections == {"key_evidence", "counter_evidence"}
None == [status |-> "none"]
NoCall == [parse |-> 0, transport |-> 0]

-----------------------------------------------------------------------------
(* What the ledger contains. *)
Authorized ==
    Registered \cup Activities \cup Evidence \cup Entities \cup Resolved \cup Candidates
Citable == Authorized \cup Queries
Catalog == Registered \cup Evidence \cup Resolved \cup Candidates \cup Entities \cup Queries

(* The capabilities of the activities that refs lead to. *)
Cited(refs) ==
    UNION ({Capability[a] : a \in refs \cap (Activities \cup Timeline)}
           \cup {Capability[ActivityOf[e]] : e \in refs \cap Evidence})

-----------------------------------------------------------------------------
(* Grounding validation.  Host, time and query boundaries of a draft are     *)
(* "scoped" and "executed": whether every one of them is inside.  An issue   *)
(* names its place, the list of references there and the bad ones of them.   *)
Issue(code, place, refs, bad) ==
    [code |-> code, place |-> place, refs |-> refs, bad |-> bad]

When(condition, found) == IF condition THEN {found} ELSE {}

RefIssue(place, refs, universe) ==
    LET bad == refs \ universe
    IN When(bad # {},
            Issue(IF bad \cap Clues # {} THEN "evidence_ref_out_of_scope"
                  ELSE "unknown_evidence_ref", place, refs, bad))

CitedRefIssues(d) ==
    RefIssue("verdict", d.verdict, Authorized)
    \cup RefIssue("contra", d.contra, Authorized)
    \cup RefIssue("cited", d.cited, Authorized)
    \cup UNION {RefIssue("unit", u.refs, Citable) : u \in d.units}

SupportIssues(d) ==
    When(d.level # "insufficient_evidence" /\ d.verdict = {},
         Issue("verdict_without_support", "verdict", {}, {}))
    \cup {Issue("statement_without_support", "unit", u.refs, {}) :
            u \in {v \in d.units : v.refs \cap Citable = {}}}

BoundaryIssues(d) ==
    When(~d.executed, Issue("query_boundary_not_executed", "queries", {}, {}))
    \cup When(~d.scoped, Issue("assertion_out_of_scope", "scope", {}, {}))

RelationIssues(d) ==
    When(d.confirmed \cap Candidates # {},
         Issue("relation_not_confirmed", "confirmed", d.confirmed, d.confirmed \cap Candidates))
    \cup When(~(d.confirmed \subseteq Resolved),
              Issue("unknown_evidence_ref", "confirmed", d.confirmed, d.confirmed \ Resolved))

\* Mutant: a statement without a reference is not an issue.
Issues_NoSupport(d) == CitedRefIssues(d) \cup BoundaryIssues(d) \cup RelationIssues(d)

Issues(d) == CitedRefIssues(d) \cup SupportIssues(d) \cup BoundaryIssues(d) \cup RelationIssues(d)
Codes(found) == {i.code : i \in found}

-----------------------------------------------------------------------------
(* The evidence floor: a confirmed verdict without it becomes suspicious. *)
\* Mutant: what the ledger shows counts, cited or not.
GateVerdict_WholeLedger(d) ==
    IF d.level = "confirmed_malicious" /\ ~(Required[d.threat] \subseteq Cited(Authorized))
    THEN [d EXCEPT !.level = "suspicious"]
    ELSE d

GateVerdict(d) ==
    IF d.level = "confirmed_malicious" /\ ~(Required[d.threat] \subseteq Cited(d.verdict))
    THEN [d EXCEPT !.level = "suspicious"]
    ELSE d

(* What a model may answer: a judgment for the assembled pipeline, a whole   *)
(* draft for the legacy one.                                                 *)
Units == {{}} \cup {{[section |-> s, refs |-> c]} : s \in Sections, c \in Cites}

Judgment ==
    [level : Levels, threat : Threats, verdict : Cites, contra : Claims,
     units : Units, confirmed : Claims]

Draft ==
    [level : Levels, threat : Threats, verdict : Cites, contra : Claims,
     cited : Claims, units : Units, executed : BOOLEAN, scoped : BOOLEAN,
     confirmed : Claims]

(* assemble_report_draft: pointers are resolved against the catalog, what    *)
(* does not resolve is dropped, and every mechanical field comes from the    *)
(* ledger, whose activities are in scope (AgentTools!LedgerInScope).         *)
Assemble(j) ==
    LET units   == {[u EXCEPT !.refs = @ \cap Catalog] : u \in j.units}
        verdict == j.verdict \cap Catalog \cap Authorized
        basis   == UNION {u.refs : u \in {v \in units : v.section # "counter_evidence"}}
    IN [level |-> j.level, threat |-> j.threat,
        verdict   |-> verdict,
        contra    |-> j.contra \cap Catalog \cap Authorized,
        cited     |-> (basis \cap Authorized) \cup verdict,
        units     |-> units,
        executed  |-> TRUE,
        scoped    |-> TRUE,
        confirmed |-> (j.confirmed \cap Catalog) \ Candidates]

(* apply_assembly_backstops: refill, clamp and strip where an issue points. *)
Strip(found, place, refs) ==
    LET here == {i \in found : /\ i.place = place /\ i.refs = refs
                               /\ i.code \in {"unknown_evidence_ref", "evidence_ref_out_of_scope"}}
    IN IF here = {} THEN refs ELSE refs \ (Clues \cup UNION {i.bad : i \in here})

Backstop(d, found) ==
    LET unmixed(refs) ==
            IF "relation_not_confirmed" \in Codes(found) THEN refs \ Candidates ELSE refs
    IN [d EXCEPT
        !.executed  = @ \/ "query_boundary_not_executed" \in Codes(found),
        !.scoped    = @ \/ "assertion_out_of_scope" \in Codes(found),
        !.verdict   = Strip(found, "verdict", @),
        !.contra    = Strip(found, "contra", @),
        !.cited     = Strip(found, "cited", @),
        !.confirmed = unmixed(Strip(found, "confirmed", @)),
        !.units     = {[u EXCEPT !.refs = Strip(found, "unit", @)] : u \in d.units}]

Assembled(j) ==
    LET d == Assemble(j) IN IF Issues(d) = {} THEN d ELSE Backstop(d, Issues(d))

-----------------------------------------------------------------------------
(* Model calls (shared/llm.py).  A retry after a transport failure counts as *)
(* an attempt of the parse budget too.                                       *)
ModelStages == {"synthesize", "rejudge", "compose", "redraft"}

RetryParse ==
    /\ llm.parse + 1 < ParseLimit
    /\ llm' = [llm EXCEPT !.parse = @ + 1]

RetryTransport ==
    /\ llm.transport + 1 < TransportLimit
    /\ llm' = [parse |-> llm.parse + 1, transport |-> llm.transport + 1]

ModelRetries ==
    /\ stage \in ModelStages
    /\ RetryParse \/ RetryTransport
    /\ UNCHANGED <<stage, draft, issues, attempts, report>>

(* The call raises: a budget is used up, or the error is fatal.  A judgment  *)
(* call degrades to the legacy pipeline, a rejudgment to the fallback.       *)
ModelRaises ==
    /\ stage \in ModelStages
    /\ llm' = NoCall
    /\ stage' = [synthesize |-> "compose", rejudge |-> "gate",
                 compose |-> "failed", redraft |-> "gate"][stage]
    /\ attempts' = IF stage \in {"rejudge", "redraft"} THEN attempts + 1 ELSE attempts
    /\ UNCHANGED <<draft, issues, report>>

(* What validation leaves of a draft, for every answer of a model. *)
Validated(d) ==
    LET codes == Codes(Issues(d))
    IN [codes |-> codes, draft |-> IF codes = {} THEN d ELSE None]

JudgmentOutcomes == {Validated(Assembled(j)) : j \in Judgment}
DraftOutcomes == {Validated(d) : d \in Draft}

(* On to the gate, or to another rejudgment: a draft with issues is read     *)
(* again by prompts only.                                                    *)
Settle(outcome, again) ==
    /\ issues' = outcome.codes
    /\ draft' = outcome.draft
    /\ stage' = IF outcome.codes = {} \/ attempts' >= MaxRejudgments THEN "gate" ELSE again

ModelJudges ==
    /\ stage \in {"synthesize", "rejudge"}
    /\ attempts' = IF stage = "rejudge" THEN attempts + 1 ELSE attempts
    /\ \E outcome \in JudgmentOutcomes : Settle(outcome, "rejudge")
    /\ llm' = NoCall
    /\ UNCHANGED report

ModelDrafts ==
    /\ stage \in {"compose", "redraft"}
    /\ attempts' = IF stage = "redraft" THEN attempts + 1 ELSE attempts
    /\ \E outcome \in DraftOutcomes : Settle(outcome, "redraft")
    /\ llm' = NoCall
    /\ UNCHANGED report

-----------------------------------------------------------------------------
(* DeterministicFallbackBuilder: nothing of the failed draft is copied. *)
FallbackDraft ==
    [level |-> "insufficient_evidence", threat |-> "unknown", verdict |-> {}, contra |-> {},
     cited |-> {}, units |-> {}, executed |-> TRUE, scoped |-> TRUE, confirmed |-> {}]

Publish(status, d) == report' = [status |-> status, body |-> d]

(* The knowledge baseline runs before the report whatever comes of it; the   *)
(* composer decides which pipeline follows.                                  *)
ConsultBaseline ==
    /\ stage = "baseline"
    /\ stage' \in {"synthesize", "compose"}
    /\ UNCHANGED <<llm, draft, issues, attempts, report>>

(* The locals of the pipeline end with it. *)
PublishReport ==
    /\ stage = "gate"
    /\ stage' = "published"
    /\ LET gated == GateVerdict(draft)
           left  == IF issues = {} THEN Codes(Issues(gated)) ELSE issues
       IN IF left = {} THEN Publish("grounded", gated) ELSE Publish("fallback", FallbackDraft)
    /\ draft' = None
    /\ issues' = {}
    /\ attempts' = 0
    /\ UNCHANGED llm

GateInit ==
    /\ stage = "baseline"
    /\ llm = NoCall
    /\ draft = None
    /\ issues = {}
    /\ attempts = 0
    /\ report = None

GateNext ==
    \/ ConsultBaseline
    \/ ModelRetries
    \/ ModelRaises
    \/ ModelJudges
    \/ ModelDrafts
    \/ PublishReport

-----------------------------------------------------------------------------
GateTypeOK ==
    /\ stage \in ModelStages \cup {"baseline", "gate", "published", "failed"}
    /\ llm.parse \in 0 .. ParseLimit + TransportLimit
    /\ llm.transport \in 0 .. TransportLimit - 1
    /\ attempts \in 0 .. MaxRejudgments
    /\ report.status \in {"none", "grounded", "fallback"}

(* A grounded report asserts nothing the run cannot show: whichever pipeline *)
(* wrote it, after any number of rejudgments and backstops, each statement   *)
(* and verdict rests on a reference the ledger holds, no reference is merely *)
(* a clue about another host, and no candidate relation is confirmed.        *)
GroundedIsSupported ==
    report.status = "grounded" /\ report.body # None =>
        LET d == report.body
        IN /\ d.verdict \cup d.contra \cup d.cited \subseteq Authorized
           /\ \A u \in d.units : u.refs # {} /\ u.refs \subseteq Citable
           /\ d.level \in {"confirmed_malicious", "suspicious"} => d.verdict # {}
           /\ d.confirmed \subseteq Resolved \ Candidates
           /\ d.executed /\ d.scoped

(* A published verdict of confirmed malice cites, itself, activities that    *)
(* show what its threat type needs: data that is in the ledger but not cited *)
(* does not help it over the floor.                                          *)
ConfirmedHasFloor ==
    report.status # "none" /\ report.body # None /\ report.body.level = "confirmed_malicious" =>
        \A c \in Required[report.body.threat] :
            \E ref \in report.body.verdict :
                \/ ref \in DOMAIN Capability /\ c \in Capability[ref]
                \/ ref \in Evidence /\ c \in Capability[ActivityOf[ref]]
=============================================================================
