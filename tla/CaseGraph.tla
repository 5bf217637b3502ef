------------------------------ MODULE CaseGraph ------------------------------
(* The case graph after the investigation: the report (ReportGate), then the *)
(* response advisory - context, proposal, repair of a broken draft, policy   *)
(* validation, plan - and the decision of an approver                        *)
(* (case_management/application/graph.py, response_advisory).                *)
EXTENDS ReportGate

CONSTANTS
    ActionCites,    \* the lists of references an action may cite
    MaxRounds,      \* max_iterations of the response graph
    MaxRepairs,     \* max_repair_rounds of the planner
    MaxWrites       \* whole proposals per planner call

ASSUME ResponseAssumption == {MaxRounds, MaxRepairs, MaxWrites} \subseteq Nat \ {0}

VARIABLES
    basis,      \* references the judgment result offers
    node,       \* node of the case graph or of the response graph
    round,      \* iterations of the response graph
    writes,     \* unusable whole proposals in this planner call
    repairs,    \* rounds of edits on the broken draft
    proposal,   \* the proposal under validation
    errors,     \* errors of the last validation
    plan,       \* the response plan
    decision    \* what the approver decided

adviceVars == <<basis, node, round, writes, repairs, proposal, errors, plan, decision>>
vars == <<gateVars, adviceVars>>

(* An action as far as the policy looks at it.  Its type is one of the       *)
(* review actions a fallback permits, or any other.                          *)
Action ==
    [type : {"review", "impact"}, refs : ActionCites, careful : BOOLEAN,
     approval : BOOLEAN, rollback : BOOLEAN]

Proposal ==
    [actions : {{}} \cup {{a} : a \in Action}, duplicate : BOOLEAN]
Plan ==
    [status : {"recommended", "approval_required", "insufficient_context", "rejected"},
     actions : {{}} \cup {{a} : a \in Action}]
NoPlan == [status |-> "none", actions |-> {}]

-----------------------------------------------------------------------------
(* validate_response_proposal: the references a judgment result offers are   *)
(* the evidence of the ledger and what the verdict itself cites.             *)
JudgmentRefs(d) == Evidence \cup d.verdict \cup d.contra

ActionErrors(a) ==
    When(~(a.refs \subseteq basis), "unknown_refs")
    \cup When(a.refs = {}, "no_basis")
    \cup When(~a.careful, "no_preconditions")
    \cup When(report.status = "fallback" /\ a.type # "review", "fallback_permits_review")
    \cup When(a.approval /\ ~a.rollback, "no_rollback")

PolicyErrors(p) ==
    When(p.actions = {}, "no_actions")
    \cup When(p.duplicate, "duplicate_id")
    \cup UNION {ActionErrors(a) : a \in p.actions}

(* The judgment result goes to the response graph; the report itself is not  *)
(* looked at again.  Its context and its knowledge come with it; knowledge   *)
(* that fails is left out, a context that does not load fails the case.      *)
LoadContext ==
    /\ node = "judgment"
    /\ stage = "published"
    /\ node' = "propose"
    /\ basis' = JudgmentRefs(report.body)
    /\ report' = [report EXCEPT !.body = None]
    /\ UNCHANGED <<stage, llm, draft, issues, attempts>>
    /\ UNCHANGED <<round, writes, repairs, proposal, errors, plan, decision>>

ContextFails ==
    /\ node = "judgment"
    /\ stage = "published"
    /\ node' = "failed"
    /\ UNCHANGED <<gateVars, basis, round, writes, repairs, proposal, errors, plan, decision>>

\* Mutant: an iteration of the response graph is not counted.
Proposed_NoCount(p) ==
    /\ proposal' = p
    /\ writes' = 0
    /\ repairs' = 0
    /\ node' = "validate"
    /\ UNCHANGED <<gateVars, basis, round, errors, plan, decision>>

Proposed(p) ==
    /\ proposal' = p
    /\ round' = round + 1
    /\ writes' = 0
    /\ repairs' = 0
    /\ node' = "validate"
    /\ UNCHANGED <<gateVars, basis, errors, plan, decision>>

PlannerFailed ==
    /\ proposal' = None
    /\ errors' = {"planner_failed"}
    /\ round' = round + 1
    /\ writes' = 0
    /\ repairs' = 0
    /\ node' = "finalize"
    /\ UNCHANGED <<gateVars, basis, plan, decision>>

PlannerAnswers ==
    /\ node \in {"propose", "repair"}
    /\ \E p \in Proposal : Proposed(p)

(* The answer carries no draft: written once more, with the error. *)
PlannerWritesAgain ==
    /\ node = "propose"
    /\ writes + 1 < MaxWrites
    /\ writes' = writes + 1
    /\ UNCHANGED <<gateVars, basis, node, round, repairs, proposal, errors, plan, decision>>

(* The answer is a draft that misses its schema: it is edited from now on. *)
PlannerLeavesDraft ==
    /\ node = "propose"
    /\ node' = "repair"
    /\ UNCHANGED <<gateVars, basis, round, writes, repairs, proposal, errors, plan, decision>>

DraftStillBroken ==
    /\ node = "repair"
    /\ repairs + 1 < MaxRepairs
    /\ repairs' = repairs + 1
    /\ UNCHANGED <<gateVars, basis, node, round, writes, proposal, errors, plan, decision>>

PlannerRaises ==
    /\ node \in {"propose", "repair"}
    /\ PlannerFailed

ValidatePlan ==
    /\ node = "validate"
    /\ errors' = PolicyErrors(proposal)
    /\ node' = IF errors' # {} /\ round < MaxRounds THEN "propose" ELSE "finalize"
    /\ UNCHANGED <<gateVars, basis, round, writes, repairs, proposal, plan, decision>>

(* One error empties the plan; one action that needs approval parks it. *)
\* Mutant: what asks for approval is the type of an action, not its flag.
FinalizePlan_ByType ==
    /\ node = "finalize"
    /\ plan' =
         IF errors # {} THEN [status |-> "insufficient_context", actions |-> {}]
         ELSE [status  |-> IF \E a \in proposal.actions : a.type = "impact"
                           THEN "approval_required" ELSE "recommended",
               actions |-> proposal.actions]
    /\ node' = IF plan'.status = "approval_required" THEN "approve" ELSE "done"
    /\ proposal' = None
    /\ UNCHANGED <<gateVars, basis, round, writes, repairs, errors, decision>>

FinalizePlan ==
    /\ node = "finalize"
    /\ plan' =
         IF errors # {} THEN [status |-> "insufficient_context", actions |-> {}]
         ELSE [status  |-> IF \E a \in proposal.actions : a.approval
                           THEN "approval_required" ELSE "recommended",
               actions |-> proposal.actions]
    /\ node' = IF plan'.status = "approval_required" THEN "approve" ELSE "done"
    /\ proposal' = None
    /\ UNCHANGED <<gateVars, basis, round, writes, repairs, errors, decision>>

(* The approver decides, on the plan or on an edited one of the same schema. *)
Approve(verdict) ==
    /\ node = "approve"
    /\ decision' = verdict
    /\ \/ plan' = plan
       \/ plan' \in Plan
    /\ node' = "done"
    /\ UNCHANGED <<gateVars, basis, round, writes, repairs, proposal, errors>>

-----------------------------------------------------------------------------
Init ==
    /\ GateInit
    /\ basis = {}
    /\ node = "judgment"
    /\ round = 0
    /\ writes = 0
    /\ repairs = 0
    /\ proposal = None
    /\ errors = {}
    /\ plan = NoPlan
    /\ decision = "none"

(* The subgraphs run one after the other on the thread of the run. *)
Advise ==
    \/ LoadContext
    \/ ContextFails
    \/ PlannerAnswers
    \/ PlannerWritesAgain
    \/ PlannerLeavesDraft
    \/ DraftStillBroken
    \/ PlannerRaises
    \/ ValidatePlan
    \/ FinalizePlan

Over == node \in {"done", "failed"} \/ stage = "failed"

Next ==
    \/ GateNext /\ UNCHANGED adviceVars
    \/ Advise
    \/ \E verdict \in {"approved", "denied"} : Approve(verdict)
    \/ Over /\ UNCHANGED vars

Spec == Init /\ [][Next]_vars

(* The model clients time out and raise, so the graph goes on; nobody has to *)
(* decide.                                                                   *)
FairSpec ==
    /\ Spec
    /\ WF_vars(GateNext /\ UNCHANGED adviceVars)
    /\ WF_vars(Advise)

-----------------------------------------------------------------------------
(* Types of the report pipeline and of the advisory: the counters stay       *)
(* within their budgets.                                                     *)
TypeOK ==
    /\ GateTypeOK
    /\ basis \subseteq Evidence \cup Authorized
    /\ node \in {"judgment", "propose", "repair", "validate", "finalize", "approve", "done", "failed"}
    /\ round \in 0 .. MaxRounds
    /\ writes \in 0 .. MaxWrites - 1
    /\ repairs \in 0 .. MaxRepairs - 1
    /\ proposal = None \/ proposal \in Proposal
    /\ plan = NoPlan \/ plan \in Plan
    /\ decision \in {"none", "approved", "denied"}

(* No plan that asks for a risky action is closed without an approver.       *)
ApprovalNotSkipped ==
    node = "done" /\ decision = "none" => \A a \in plan.actions : ~a.approval

(* A case comes to a plan, or to its approver, or it fails as a whole,       *)
(* however often models and planners break, time out and are rejudged.       *)
CaseConcludes == <>(node \in {"approve", "done", "failed"} \/ stage = "failed")

(* "An editor's plan must satisfy the same contract as the planner's own     *)
(* output" (graph.py:250): the policy of a fallback report included.         *)
\* The code does not keep this; no run checks it.
EditedPlanKeepsPolicy ==
    node = "done" /\ report.status = "fallback" => \A a \in plan.actions : a.type = "review"
=============================================================================
