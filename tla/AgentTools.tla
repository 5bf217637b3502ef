----------------------------- MODULE AgentTools -------------------------------
(***************************************************************************)
(* The tool calls of one investigation: create_agent with the middleware   *)
(* stack SafetyNet, Budget, ..., Boundary around InvestigationToolGateway. *)
(* A model call names tool calls; each runs in a thread of its own, all    *)
(* against the budget counters the step started with and one shared,       *)
(* unlocked InvestigationToolLedger.  When the model calls no more tools,  *)
(* or the model-call budget is exhausted, the report is written from that  *)
(* ledger.                                                                 *)
(*                                                                         *)
(* A reference stands for an activity, or a relation, and the entities it  *)
(* names: the ledger's sets of authorized activities and entities, which   *)
(* are extended alike, are one set here.  The model and the evidence       *)
(* source are external: the model may cite any reference, the source may   *)
(* answer with any.                                                        *)
(***************************************************************************)
EXTENDS Naturals

CONSTANTS
    Calls,          \* tool calls one model answer may contain
    Refs,           \* references
    Known,          \* authorized before the first call: the alert's own entities
    Foreign,        \* activities of another host or time, outside the scope
    MaxModelCalls,  \* budget: max_iterations
    MaxToolCalls    \* budget: max_tool_calls

ASSUME RefsAssumption ==
    /\ Known \subseteq Refs
    /\ Foreign \subseteq Refs
    /\ Known \cap Foreign = {}

ASSUME BudgetAssumption == MaxModelCalls \in Nat /\ MaxToolCalls \in Nat

VARIABLES
    phase,       \* where the run node is
    modelCalls,  \* budget_model_calls
    toolCalls,   \* budget_tool_calls
    authorized,  \* ledger.authorized_entity_refs and authorized_activity_refs
    returned,    \* references in the results the ledger holds
    used,        \* references the calls behind these results had asked for
    traces,      \* Len(ledger.traces)
    call         \* call[c]: tool call c of the current step

budget == <<modelCalls, toolCalls>>
ledger == <<authorized, returned, used, traces>>
vars   == <<phase, modelCalls, toolCalls, authorized, returned, used, traces, call>>

Phase  == {"model", "tools", "report", "done", "failed"}
CallPc == {"idle", "budget", "gateway", "query", "record", "end"}
Call   == [pc : CallPc, want : SUBSET Refs, got : SUBSET Refs, base : SUBSET Refs,
           counted : BOOLEAN]

NoCall == [pc |-> "idle", want |-> {}, got |-> {}, base |-> {}, counted |-> FALSE]

At(c, pc)     == phase = "tools" /\ call[c].pc = pc
Become(c, s)  == call' = [call EXCEPT ![c] = s]
\* The call is over; the budget middleware counts it unless an exception passed through it.
End(c, counted) == Become(c, [NoCall EXCEPT !.pc = "end", !.counted = counted])

\* What a call asks for: nothing (a query of a domain) or one reference.
Wanted == {{}} \cup {{r} : r \in Refs}
-------------------------------------------------------------------------------
Init ==
    /\ phase = "model"
    /\ modelCalls = 0
    /\ toolCalls = 0
    /\ authorized = Known
    /\ returned = {}
    /\ used = {}
    /\ traces = 0
    /\ call = [c \in Calls |-> NoCall]

\* The model answers with the tool calls C and the reference each asks for.
ModelCall ==
    /\ phase = "model"
    /\ modelCalls < MaxModelCalls
    /\ \E C \in SUBSET Calls :
          /\ C # {}
          /\ \E want \in [C -> Wanted] :
                call' = [c \in Calls |->
                           IF c \in C THEN [NoCall EXCEPT !.pc = "budget", !.want = want[c]]
                                      ELSE NoCall]
    /\ modelCalls' = modelCalls + 1
    /\ phase' = "tools"
    /\ UNCHANGED <<toolCalls, ledger>>

\* The model answers without tool calls: the agent is done investigating.
ModelConcludes ==
    /\ phase = "model"
    /\ modelCalls < MaxModelCalls
    /\ modelCalls' = modelCalls + 1
    /\ phase' = "report"
    /\ UNCHANGED <<toolCalls, ledger, call>>

\* Mutant: a degraded run asks the model again.
ModelExhausted_Retried ==
    /\ phase = "model"
    /\ modelCalls >= MaxModelCalls
    /\ phase' = "model"
    /\ UNCHANGED <<budget, ledger, call>>

\* BudgetExhausted leaves the agent; the report is written from what there is.
ModelExhausted ==
    /\ phase = "model"
    /\ modelCalls >= MaxModelCalls
    /\ phase' = "report"
    /\ UNCHANGED <<budget, ledger, call>>

\* Any other exception of the model leaves the run node.
ModelRaises ==
    /\ phase = "model"
    /\ modelCalls < MaxModelCalls
    /\ phase' = "failed"
    /\ UNCHANGED <<budget, ledger, call>>
-------------------------------------------------------------------------------
\* Mutant: one call too many.
ToolCallAllowed_OffByOne == toolCalls <= MaxToolCalls

\* LimitsBudgetPolicy.allow_tool_call over the counter the step started with.
ToolCallAllowed == toolCalls < MaxToolCalls

\* Mutant: the tools that take a reference are missing from the policy's tables.
Authorized_NoReferences(c) == call[c].want \subseteq Refs

\* authorize_call, as far as it reads the ledger.
Authorized(c) == call[c].want \subseteq authorized

BudgetDenies(c) ==
    /\ At(c, "budget")
    /\ ~ToolCallAllowed
    /\ End(c, FALSE)
    /\ UNCHANGED <<phase, budget, ledger>>

\* The boundary middleware, before the tool: a refusal is an answer and counts.
BoundaryAuthorizes(c) ==
    /\ At(c, "budget")
    /\ ToolCallAllowed
    /\ IF Authorized(c)
       THEN Become(c, [call[c] EXCEPT !.pc = "gateway"])
       ELSE End(c, TRUE)
    /\ UNCHANGED <<phase, budget, ledger>>

\* The gateway authorizes against the ledger once more; its refusal is an exception
\* that only the safety net turns into an answer.
GatewayAuthorizes(c) ==
    /\ At(c, "gateway")
    /\ IF Authorized(c)
       THEN Become(c, [call[c] EXCEPT !.pc = "query"])
       ELSE End(c, FALSE)
    /\ UNCHANGED <<phase, budget, ledger>>

\* DataAccessError, ValueError or KeyError: an answer the model can react to.  So are
\* the answers of the tools that do not query evidence (knowledge, recall).
QueryFails(c) ==
    /\ At(c, "query")
    /\ End(c, TRUE)
    /\ UNCHANGED <<phase, budget, ledger>>

\* Mutant: the result goes into the ledger before it is validated.
QueryAnswers_RecordedFirst(c) ==
    /\ At(c, "query")
    /\ \E got \in SUBSET Refs :
          /\ Become(c, [call[c] EXCEPT !.pc = "record", !.got = got, !.base = authorized])
          /\ returned' = returned \cup got
          /\ used' = used \cup call[c].want
    /\ UNCHANGED <<phase, budget, authorized, traces>>

\* A result inside the scope is appended to the ledger; the authorized references are
\* read, to be written back with the new ones.
QueryAnswers(c) ==
    /\ At(c, "query")
    /\ \E got \in SUBSET (Refs \ Foreign) :
          /\ Become(c, [call[c] EXCEPT !.pc = "record", !.got = got, !.base = authorized])
          /\ returned' = returned \cup got
          /\ used' = used \cup call[c].want
    /\ UNCHANGED <<phase, budget, authorized, traces>>

\* validate_result refuses a result with an activity outside the scope.
QueryLeavesScope(c) ==
    /\ At(c, "query")
    /\ Foreign # {}
    /\ End(c, FALSE)
    /\ UNCHANGED <<phase, budget, ledger>>

\* The authorized references are written, the trace is appended, the event is sent; when
\* the event raises, the safety net calls the call void.
RecordResult(c) ==
    /\ At(c, "record")
    /\ authorized' = call[c].base \cup call[c].got
    /\ traces' = traces + 1
    /\ \E counted \in BOOLEAN : End(c, counted)
    /\ UNCHANGED <<phase, budget, returned, used>>

\* All tool calls of the step have answered: their counter updates merge to the maximum.
StepEnds ==
    /\ phase = "tools"
    /\ \A c \in Calls : call[c].pc \in {"idle", "end"}
    /\ toolCalls' = IF \E c \in Calls : call[c].counted THEN toolCalls + 1 ELSE toolCalls
    /\ phase' = "model"
    /\ call' = [c \in Calls |-> NoCall]
    /\ UNCHANGED <<modelCalls, ledger>>

\* publish_investigation_report over the ledger of the run; it may raise.
Report ==
    /\ phase = "report"
    /\ phase' \in {"done", "failed"}
    /\ UNCHANGED <<budget, ledger, call>>

Ended == phase \in {"done", "failed"} /\ UNCHANGED vars

ToolStep(c) ==
    \/ BudgetDenies(c)
    \/ BoundaryAuthorizes(c)
    \/ GatewayAuthorizes(c)
    \/ QueryFails(c)
    \/ QueryAnswers(c)
    \/ QueryLeavesScope(c)
    \/ RecordResult(c)

AgentStep ==
    \/ ModelCall
    \/ ModelConcludes
    \/ ModelExhausted
    \/ ModelRaises
    \/ StepEnds
    \/ Report

Next ==
    \/ AgentStep
    \/ \E c \in Calls : ToolStep(c)
    \/ Ended

Spec == Init /\ [][Next]_vars

\* The model, the tools and the source answer or raise: their clients have timeouts.
FairSpec == Spec /\ WF_vars(AgentStep) /\ \A c \in Calls : WF_vars(ToolStep(c))
-------------------------------------------------------------------------------
TypeOK ==
    /\ phase \in Phase
    /\ modelCalls \in 0..MaxModelCalls
    /\ toolCalls \in 0..MaxToolCalls
    /\ authorized \subseteq Refs
    /\ returned \subseteq Refs
    /\ used \subseteq Refs
    /\ traces \in Nat
    /\ call \in [Calls -> Call]

\* No activity of another host or time enters the ledger or authorizes a later call,
\* whatever the model cites, the source answers and however the parallel calls interleave
\* (validate_result before _record_result, the authorized sets read and written apart).
LedgerInScope == (authorized \cup returned) \cap Foreign = {}

\* What the results in the ledger were asked for with is of the alert or of a result: the model cannot walk to an entity no query of this run has shown
\* (authorize_call on explore_entity, get_raw_records, calculate_activity_metrics).
UseWasReturned == used \subseteq Known \cup returned

\* Once the counter has reached the limit no tool call reaches the data any more: the
\* ledger the report is written from stays as it is (wrap_tool_call of the budget).
ExhaustedFreezesLedger == [][toolCalls >= MaxToolCalls => UNCHANGED ledger]_vars

\* Every investigation comes to a report or to a failure, whatever the model keeps
\* asking for: the model-call budget ends the loop and the degraded exit is not retried.
InvestigationEnds == <>(phase \in {"done", "failed"})

\* "max() reconstructs the sequential semantics without double counting"
\* (_parallel_max): at most max_tool_calls calls get through to the data.
\* The code does not keep this; no run checks it.
CallsWithinBudget == traces <= MaxToolCalls
===============================================================================
