------------------------------ MODULE ToolGateway ------------------------------
(***************************************************************************)
(* One call of InvestigationToolGateway, as a function of its arguments,   *)
(* of the run's ledger and of what the data layer holds: authorization by  *)
(* SingleHostBoundaryPolicy, the tool, validation of the result, and what  *)
(* the ledger is extended by.  (AgentTools has the calls as steps that     *)
(* interleave; here one call is complete in its detail.)                   *)
(*                                                                         *)
(* The scope is the host Local in the time from Opens to Closes.  A name   *)
(* that carries a host ("host:h", "process:h:12") is that host; one that   *)
(* carries none (a package, an external endpoint) is Shared.               *)
(***************************************************************************)
EXTENDS Integers, FiniteSets

CONSTANTS Hosts, Local, Shared, Opens, Closes

Unset  == -1   \* an optional argument the model leaves out, or fills with "null"
Within == Opens..Closes

\* An endpoint of a relation: its own name, and if the data layer resolves it to an
\* identity, that identity's host attribute and the hosts its aliases carry.
Endpoint == [ref : Hosts \cup {Shared}, resolved : BOOLEAN,
             attribute : Hosts \cup {Shared}, aliases : SUBSET Hosts]

\* authorized: the entities and activities of the ledger.
Call == [tool : {"query", "explore", "raw", "metrics"}, domain : BOOLEAN,
         hosts : SUBSET Hosts, start : {Unset} \cup Nat, end : {Unset} \cup Nat,
         refs : SUBSET STRING]
-------------------------------------------------------------------------------
InWindow(call) ==
    /\ call.start # Unset => call.start >= Opens
    /\ call.end # Unset => call.end <= Closes

\* authorize_call: the first check that fails gives the code; the reference of explore and
\* the references of the reference tools must be authorized, a query has none.
Authorize(call, authorized) ==
    IF call.tool = "query" /\ ~call.domain THEN "domain_out_of_scope"
    ELSE IF ~(call.hosts \subseteq {Local}) THEN "host_out_of_scope"
    ELSE IF ~InWindow(call) THEN "time_out_of_scope"
    ELSE IF call.tool # "query" /\ ~(call.refs \subseteq authorized)
    THEN IF call.tool = "explore" THEN "entity_not_authorized" ELSE "reference_not_authorized"
    ELSE "ok"

\* Mutant: only the host attribute counts.
EndpointHost_AttributeOnly(e) == IF e.resolved THEN e.attribute ELSE Shared

\* _endpoint_host: of an identity the attribute, else Local if an alias carries it; of an
\* unresolved name the host it carries.
EndpointHost(e) ==
    IF ~e.resolved THEN e.ref
    ELSE IF e.attribute # Shared THEN e.attribute
    ELSE IF Local \in e.aliases THEN Local ELSE Shared

\* _split_relations_by_host: what of the relations is given in full; of the others the
\* model learns the identifiers only.
InFull(relations) == {e \in relations : EndpointHost(e) \in {Local, Shared}}
Clues(relations)  == relations \ InFull(relations)

Larger(a, b)  == IF a > b THEN a ELSE b
Smaller(a, b) == IF a < b THEN a ELSE b

\* list_entity_timeline, asked for the scope's host and the narrower of both windows.
Timeline(call, stored) ==
    {a \in stored : /\ a.host \in {Local, Shared}
                    /\ a.at >= IF call.start = Unset THEN Opens ELSE Larger(Opens, call.start)
                    /\ a.at <= IF call.end = Unset THEN Closes ELSE Smaller(Closes, call.end)}

\* Mutant: activities without a host are accepted unseen.
ActivitiesValid_SharedSkipped(activities) ==
    \A a \in activities : a.host # Shared => a.host = Local /\ a.at \in Within

\* _check_activities: one activity outside the scope voids the result.
ActivitiesValid(activities) ==
    \A a \in activities : a.host \in {Local, Shared} /\ a.at \in Within

\* invoke: the answer of the data layer is external for a query (any activities), computed
\* for explore; raw records and metrics are about the references asked for.
Invoke(call, authorized, answer, relations) ==
    LET code     == Authorize(call, authorized)
        activities == IF call.tool = "query" THEN answer
                      ELSE IF call.tool = "explore" THEN Timeline(call, answer) ELSE {}
        denied   == [code |-> code, activities |-> {}, relations |-> {}, clues |-> {}]
    IN  IF code # "ok" THEN denied
        ELSE IF ~ActivitiesValid(activities) THEN [denied EXCEPT !.code = "result_out_of_scope"]
        ELSE [code |-> "ok", activities |-> activities,
              relations |-> IF call.tool = "explore" THEN InFull(relations) ELSE {},
              clues     |-> IF call.tool = "explore" THEN Clues(relations) ELSE {}]
-------------------------------------------------------------------------------
\* The data layer leaves no doubt about an endpoint: its name and every alias carry the
\* host the attribute says, where there is one.
Attributed(e) == e.resolved => e.attribute = e.ref /\ e.aliases \subseteq {e.ref}

\* What the ledger is extended by is in the scope, whatever the data layer answers and
\* whichever of the optional arguments are left out: activities of the host and the time,
\* relations with no attributed endpoint elsewhere (boundary_policy.py, "anything it cannot
\* prove is denied").  And no more is withheld than that: relations of the host itself are
\* never reduced to a clue, and a call inside the scope with authorized references fails
\* on account of its result only.
GatewayKeepsScope(call, authorized, answer, relations) ==
    LET result == Invoke(call, authorized, answer, relations)
    IN  /\ \A a \in result.activities : a.host \in {Local, Shared} /\ a.at \in Within
        /\ \A e \in result.relations : Attributed(e) => e.ref \in {Local, Shared}
        /\ \A e \in result.clues : Attributed(e) => e.ref # Local
        /\ (/\ call.domain \/ call.tool # "query"
            /\ call.hosts \subseteq {Local} /\ InWindow(call)
            /\ call.refs \subseteq authorized)
           => result.code \in {"ok", "result_out_of_scope"}
===============================================================================
