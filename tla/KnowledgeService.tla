--------------------------- MODULE KnowledgeService ---------------------------
(***************************************************************************)
(* One knowledge consultation, from the scene and the intent to the merged *)
(* guidance: SecurityKnowledgeService over RoutingSupplier, which gives    *)
(* attack_technique to AttackCorpusSupplier and the other sources to the   *)
(* default ReferenceKnowledgeAdapter; or over one supplier without a       *)
(* router ("bare").                                                        *)
(*                                                                         *)
(* The corpora are data: an entry of the reference corpus has its match    *)
(* count and score for the query, the relevance the score stands for and   *)
(* the tenant it is restricted to; a record of the ATT&CK corpus its hits, *)
(* its number of tokens and whether the query names it.  A supplier works, *)
(* raises, or leaves out its last outcome.                                 *)
(***************************************************************************)
EXTENDS Integers, SequencesExt

CONSTANTS Tenants, Anyone, TopK

Rank     == [high |-> 0, medium |-> 1, low |-> 2]
Failures == {"permission_denied", "timeout", "error"}
Forced   == Failures \cup {"none", "empty", "not_configured"}
Faults   == {"none", "raises", "short"}

Entry  == [id : STRING, match : Nat, score : Nat, relevance : DOMAIN Rank,
           tenant : Tenants \cup {Anyone}]
Record == [id : STRING, words : Nat, bigrams : Nat, size : Nat, named : BOOLEAN]

\* _SCENE_INTENT_SOURCES
SourcesOf(scene, intent) ==
    CASE scene = "investigation" /\ intent = "guidance"   -> <<"experience", "attack">>
      [] scene = "investigation" /\ intent = "technique"  -> <<"attack">>
      [] scene = "investigation" /\ intent = "experience" -> <<"experience">>
      [] scene = "investigation" /\ intent = "telemetry"  -> <<"manual">>
      [] scene = "response" /\ intent = "policy"          -> <<"sop", "responder">>
      [] OTHER -> <<>>

Outcome(source, status, items) == [source |-> source, status |-> status, items |-> items]
Found(source, items) == Outcome(source, IF items = <<>> THEN "empty" ELSE "available", items)
Errors(sources)      == [i \in DOMAIN sources |-> Outcome(sources[i], "error", <<>>)]
Top(s)               == SubSeq(s, 1, IF Len(s) < TopK THEN Len(s) ELSE TopK)
-------------------------------------------------------------------------------
\* Mutant: the best entries are taken first, and filtered for the tenant afterwards.
ReferenceItems_FilteredLate(entries, tenant) ==
    SelectSeq(Top(SetToSortSeq(entries, LAMBDA a, b : \/ a.match > b.match
                                                      \/ a.match = b.match /\ a.score > b.score)),
              LAMBDA e : e.tenant \in {Anyone, tenant})

\* The access filter comes before the ranking and the cut.
ReferenceItems(entries, tenant) ==
    Top(SetToSortSeq({e \in entries : e.tenant \in {Anyone, tenant}},
                     LAMBDA a, b : \/ a.match > b.match
                                   \/ a.match = b.match /\ a.score > b.score))

ReferenceOutcome(source, entries, forced, tenant) ==
    IF forced # "none" THEN Outcome(source, forced, <<>>)
    ELSE IF entries = {} THEN Outcome(source, "not_configured", <<>>)
    ELSE Found(source, [i \in DOMAIN ReferenceItems(entries, tenant) |->
                          LET e == ReferenceItems(entries, tenant)[i]
                          IN  [id |-> e.id, relevance |-> e.relevance, tenant |-> e.tenant]])

\* _weighted_overlap in tenths: a single bigram is noise.
Overlap(r) == IF r.words = 0 /\ r.bigrams < 2 THEN 0 ELSE 10 * r.words + 6 * r.bigrams

\* A score is Overlap / 10 over the root of the size, and 1 for a record the query names;
\* compared by squares with 0.25, with 0.45 and with each other.
Weight(r) == IF r.named THEN 10 ELSE Overlap(r)
Width(r)  == IF r.named THEN 1 ELSE r.size

AtLeastMedium(r) == 4 * Weight(r) * Weight(r) >= 25 * Width(r)
AtLeastHigh(r)   == 4 * Weight(r) * Weight(r) >= 81 * Width(r)
Better(a, b)     == Weight(a) * Weight(a) * Width(b) > Weight(b) * Weight(b) * Width(a)

CorpusOutcome(source, records) ==
    LET ranked == SetToSortSeq({r \in records : AtLeastMedium(r)}, Better)
    IN  IF source # "attack" \/ records = {} THEN Outcome(source, "not_configured", <<>>)
        ELSE Found(source, [i \in DOMAIN Top(ranked) |->
                              [id |-> ranked[i].id, tenant |-> Anyone,
                               relevance |-> IF AtLeastHigh(ranked[i]) THEN "high" ELSE "medium"]])
-------------------------------------------------------------------------------
\* world: router, corpus (records), entries (per source), forced (per source), the faults of
\* the ATT&CK and of the default supplier, tenant.
Owner(world, source) == IF world.router /\ source = "attack" THEN "corpus" ELSE "reference"

\* retrieve_sources of a supplier: its outcomes, or {} when it raises.
Retrieve(world, owner, sources) ==
    LET all == [i \in DOMAIN sources |->
                  IF owner = "corpus" THEN CorpusOutcome(sources[i], world.corpus)
                  ELSE ReferenceOutcome(sources[i], world.entries[sources[i]],
                                        world.forced[sources[i]], world.tenant)]
    IN  CASE world.faults[owner] = "none"   -> {all}
          [] world.faults[owner] = "short"  -> {Front(all)}
          [] world.faults[owner] = "raises" -> {}

Owned(world, owner, sources) == SelectSeq(sources, LAMBDA s : Owner(world, s) = owner)

\* RoutingSupplier.retrieve_sources: a supplier that raises or miscounts is an error of its
\* own sources; the outcomes are put back in the order of the request.
Settled(answers, own) ==
    IF \E r \in answers : Len(r) = Len(own) THEN CHOOSE r \in answers : TRUE ELSE Errors(own)

Routed(world, sources) ==
    LET Results(owner) == Settled(Retrieve(world, owner, Owned(world, owner, sources)),
                                  Owned(world, owner, sources))
    IN  [i \in DOMAIN sources |->
            LET owner == Owner(world, sources[i])
                place == CHOOSE j \in DOMAIN Owned(world, owner, sources) :
                             Owned(world, owner, sources)[j] = sources[i]
            IN  [Results(owner)[place] EXCEPT !.source = sources[i]]]

\* _retrieve: an adapter that raises is an error of every source, a source it does not
\* account for an error of its own.
Accounted(answers, sources) ==
    IF answers = {} THEN Errors(sources)
    ELSE [i \in DOMAIN sources |->
            LET own == UNION {{o \in ToSet(answer) : o.source = sources[i]} : answer \in answers}
            IN  IF own = {} THEN Outcome(sources[i], "error", <<>>) ELSE CHOOSE o \in own : TRUE]

Outcomes(world, sources) ==
    Accounted(IF world.router THEN {Routed(world, sources)} ELSE Retrieve(world, "reference", sources),
              sources)

\* _merge_items: by relevance, then by source, then by the supplier's own order.
MergeItems(outcomes) ==
    LET places == {<<i, j>> \in (DOMAIN outcomes) \X (1..TopK) :
                      outcomes[i].status = "available" /\ j \in DOMAIN outcomes[i].items}
        At(p)  == outcomes[p[1]].items[p[2]]
        Before(p, q) == \/ Rank[At(p).relevance] < Rank[At(q).relevance]
                        \/ /\ At(p).relevance = At(q).relevance
                           /\ p[1] < q[1] \/ (p[1] = q[1] /\ p[2] < q[2])
        order  == SetToSortSeq(places, Before)
    IN  [k \in DOMAIN order |-> [item |-> At(order[k]), source |-> outcomes[order[k][1]].source]]

\* Mutant: any item makes the result available.
AggregateStatus_ItemsFirst(outcomes) ==
    LET statuses == {outcomes[i].status : i \in DOMAIN outcomes}
    IN  IF "available" \in statuses THEN "available"
        ELSE IF statuses \cap Failures # {}
        THEN IF Cardinality(statuses) = 1 THEN CHOOSE s \in statuses : TRUE ELSE "degraded"
        ELSE IF "not_configured" \notin statuses THEN "empty"
        ELSE IF statuses = {"not_configured"} THEN "not_configured" ELSE "degraded"

\* _aggregate_status: failures first, then missing sources, and only then what was found.
AggregateStatus(outcomes) ==
    LET statuses == {outcomes[i].status : i \in DOMAIN outcomes}
    IN  IF statuses \cap Failures # {}
        THEN IF Cardinality(statuses) = 1 THEN CHOOSE s \in statuses : TRUE ELSE "degraded"
        ELSE IF statuses = {"not_configured"} THEN "not_configured"
        ELSE IF "not_configured" \in statuses THEN "degraded"
        ELSE IF \E i \in DOMAIN outcomes : outcomes[i].items # <<>> THEN "available" ELSE "empty"

\* consult: an intent without sources in its scene is refused.
Merged(outcomes) == [status |-> AggregateStatus(outcomes), items |-> MergeItems(outcomes)]

Consult(world, scene, intent) ==
    IF SourcesOf(scene, intent) = <<>> THEN [status |-> "unsupported", items |-> <<>>]
    ELSE Merged(Outcomes(world, SourcesOf(scene, intent)))

\* run_knowledge_baseline: guidance and the record in the ledger; a refusal is recorded as
\* an error and never stops the investigation.
Recorded(result) ==
    IF result.status = "unsupported" THEN [status |-> "error", guidance |-> <<>>]
    ELSE [status |-> result.status, guidance |-> result.items]

Baseline(world, intent) == Recorded(Consult(world, "investigation", intent))
-------------------------------------------------------------------------------
\* "a failure or a missing capability is never disguised as no relevant knowledge"
\* (capability.py, _aggregate_status) and "one supplier breaking degrades only its own
\* categories" (routing.py), end to end: available and empty are said only if every source
\* of the intent was configured and answered, whichever supplier owns it; what a healthy
\* supplier found is in the guidance once, most relevant first, whatever happened to the
\* other; an entry of another tenant is in no result and takes no place in one.
GapsAreVisibleIn(result, world, sources) ==
    LET Has(s)  == IF Owner(world, s) = "corpus" THEN world.corpus # {}
                   ELSE world.entries[s] # {}
        \* What the source holds for this query, found by looking at each entry alone.
        Holds(s) == IF Owner(world, s) = "corpus"
                    THEN {r.id : r \in {r \in world.corpus : AtLeastMedium(r)}}
                    ELSE {e.id : e \in {e \in world.entries[s] :
                                          e.tenant \in {Anyone, world.tenant}}}
        Healthy(s) == /\ Has(s)
                      /\ world.faults[Owner(world, s)] = "none"
                      /\ Owner(world, s) = "reference" => world.forced[s] = "none"
        Given(s) == {result.guidance[k].item.id : k \in {k \in DOMAIN result.guidance :
                                                          result.guidance[k].source = s}}
    IN  /\ result.status \in {"available", "empty"} =>
              \A s \in ToSet(sources) :
                 Healthy(s) \/ (Owner(world, s) = "reference" /\ world.forced[s] = "empty")
        /\ result.status = "empty" => result.guidance = <<>>
        /\ \A s \in ToSet(sources) : Healthy(s) =>
              /\ Given(s) \subseteq Holds(s)
              /\ Cardinality(Given(s)) = IF Cardinality(Holds(s)) < TopK
                                         THEN Cardinality(Holds(s)) ELSE TopK
        /\ \A j, k \in DOMAIN result.guidance : j < k =>
              /\ Rank[result.guidance[j].item.relevance] <= Rank[result.guidance[k].item.relevance]
              /\ result.guidance[j] # result.guidance[k]

\* The same of a consultation.
GapsAreVisible(world, intent) ==
    GapsAreVisibleIn(Baseline(world, intent), world, SourcesOf("investigation", intent))
===============================================================================
