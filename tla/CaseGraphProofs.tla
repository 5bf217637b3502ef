---------------------------- MODULE CaseGraphProofs ----------------------------
(***************************************************************************)
(* Proofs about the report pipeline and the advisory, for every ledger,    *)
(* every set of model answers and every retry limit: what a published      *)
(* report rests on, and that risky plans reach an approver.                *)
(***************************************************************************)
EXTENDS CaseGraph, TLAPS

\* What passed validation has a level, so that the evidence floor can lower it.
Leveled(d) == d = None \/ "level" \in DOMAIN d

\* A report is published whole.
Reported == report = None \/ \E s, d : report = [status |-> s, body |-> d]

IInv ==
    /\ Leveled(draft)
    /\ Reported
    /\ GroundedIsSupported
    /\ ConfirmedHasFloor
    /\ ApprovalNotSkipped

-----------------------------------------------------------------------------
\* A draft without issues is supported (validate_grounding).
LEMMA NoIssues ==
  ASSUME NEW d, Issues(d) = {}
  PROVE  /\ d.verdict \cup d.contra \cup d.cited \subseteq Authorized
         /\ \A u \in d.units : u.refs # {} /\ u.refs \subseteq Citable
         /\ d.level \in {"confirmed_malicious", "suspicious"} => d.verdict # {}
         /\ d.confirmed \subseteq Resolved \ Candidates
         /\ d.executed /\ d.scoped
<1>1. CitedRefIssues(d) = {} /\ SupportIssues(d) = {} /\ BoundaryIssues(d) = {}
      /\ RelationIssues(d) = {}
  BY DEF Issues
<1>2. \A place, refs, universe : RefIssue(place, refs, universe) = {} => refs \subseteq universe
  BY DEF RefIssue, When
<1>3. /\ RefIssue("verdict", d.verdict, Authorized) = {}
      /\ RefIssue("contra", d.contra, Authorized) = {}
      /\ RefIssue("cited", d.cited, Authorized) = {}
      /\ \A u \in d.units : RefIssue("unit", u.refs, Citable) = {}
  BY <1>1 DEF CitedRefIssues
<1>4. d.verdict \subseteq Authorized /\ d.contra \subseteq Authorized /\ d.cited \subseteq Authorized
      /\ \A u \in d.units : u.refs \subseteq Citable
  BY <1>2, <1>3
<1>5. \A u \in d.units : u.refs \cap Citable # {}
  BY <1>1 DEF SupportIssues
<1>6. d.level # "insufficient_evidence" => d.verdict # {}
  BY <1>1 DEF SupportIssues, When
<1>7. d.executed /\ d.scoped
  BY <1>1 DEF BoundaryIssues, When
<1>8. d.confirmed \cap Candidates = {} /\ d.confirmed \subseteq Resolved
  BY <1>1 DEF RelationIssues, When
<1> QED
  BY <1>4, <1>5, <1>6, <1>7, <1>8

\* What the evidence floor leaves confirmed cites what its threat type requires
\* (apply_evidence_gate).
LEMMA GateFloor ==
  ASSUME NEW d, "level" \in DOMAIN d, GateVerdict(d).level = "confirmed_malicious"
  PROVE  /\ GateVerdict(d) = d
         /\ \A c \in Required[d.threat] :
              \E ref \in d.verdict :
                 \/ ref \in DOMAIN Capability /\ c \in Capability[ref]
                 \/ ref \in Evidence /\ c \in Capability[ActivityOf[ref]]
<1>1. [d EXCEPT !.level = "suspicious"].level = "suspicious"
  OBVIOUS
<1>2. GateVerdict(d) = d /\ Required[d.threat] \subseteq Cited(d.verdict)
  BY <1>1 DEF GateVerdict
<1>3. DOMAIN Capability = Activities \cup Timeline
  BY LedgerAssumption
<1> QED
  BY <1>2, <1>3 DEF Cited

\* Both pipelines leave a draft with a level.
LEMMA OutcomesLeveled == \A outcome \in JudgmentOutcomes \cup DraftOutcomes : Leveled(outcome.draft)
<1>1. \A d : "level" \in DOMAIN d => Leveled(Validated(d).draft)
  BY DEF Validated, Leveled
<1>2. \A d \in Draft : "level" \in DOMAIN d
  BY DEF Draft
<1>3. \A j : "level" \in DOMAIN Assemble(j)
  BY DEF Assemble
<1>4. \A d, found : "level" \in DOMAIN d => "level" \in DOMAIN Backstop(d, found)
  BY DEF Backstop
<1>5. \A j : "level" \in DOMAIN Assembled(j)
  BY <1>3, <1>4 DEF Assembled
<1> QED
  BY <1>1, <1>2, <1>5 DEF JudgmentOutcomes, DraftOutcomes

LEMMA InitInv == Init => IInv
BY DEF Init, GateInit, IInv, Leveled, Reported, None, GroundedIsSupported, ConfirmedHasFloor, ApprovalNotSkipped

\* A step of the pipeline before the report is out.
LEMMA PipelineInv ==
  ASSUME IInv, GateNext, UNCHANGED adviceVars
  PROVE  IInv'
<1>1. ApprovalNotSkipped'
  BY DEF IInv, ApprovalNotSkipped, adviceVars
<1>2. CASE ConsultBaseline \/ ModelRetries \/ ModelRaises
  BY <1>1, <1>2 DEF ConsultBaseline, ModelRetries, ModelRaises, IInv, Leveled, Reported,
     GroundedIsSupported, ConfirmedHasFloor
<1>3. CASE ModelJudges \/ ModelDrafts
  <2>1. PICK outcome \in JudgmentOutcomes \cup DraftOutcomes :
            draft' = outcome.draft /\ report' = report
    BY <1>3 DEF ModelJudges, ModelDrafts, Settle
  <2>2. Leveled(draft')
    BY <2>1, OutcomesLeveled
  <2>3. Reported' /\ GroundedIsSupported' /\ ConfirmedHasFloor'
    BY <2>1 DEF IInv, Reported, GroundedIsSupported, ConfirmedHasFloor
  <2> QED
    BY <1>1, <2>2, <2>3 DEF IInv, Leveled
<1>4. CASE PublishReport
  <2> DEFINE gated == GateVerdict(draft)
             left == IF issues = {} THEN Codes(Issues(gated)) ELSE issues
  <2>1. draft' = None
    BY <1>4 DEF PublishReport
  <2>2. CASE left = {}
    <3>1. report' = [status |-> "grounded", body |-> gated]
      BY <1>4, <2>2 DEF PublishReport, Publish
    <3>2. Issues(gated) = {}
      BY <2>2 DEF Codes
    <3>3. GroundedIsSupported'
      <4> HIDE DEF gated
      <4>1. report'.body = gated
        BY <3>1
      <4> QED
        BY <4>1, <3>2, NoIssues DEF GroundedIsSupported
    <3>4. ConfirmedHasFloor'
      <4> SUFFICES ASSUME gated # None, gated.level = "confirmed_malicious"
                   PROVE  \A c \in Required[gated.threat] :
                             \E ref \in gated.verdict :
                                \/ ref \in DOMAIN Capability /\ c \in Capability[ref]
                                \/ ref \in Evidence /\ c \in Capability[ActivityOf[ref]]
        BY <3>1 DEF ConfirmedHasFloor
      <4>1. draft # None
        BY DEF GateVerdict, None
      <4>2. "level" \in DOMAIN draft
        BY <4>1 DEF IInv, Leveled
      <4> QED
        BY <4>2, GateFloor
    <3> QED
      BY <1>1, <2>1, <3>1, <3>3, <3>4 DEF IInv, Leveled, Reported
  <2>3. CASE left # {}
    <3>1. report' = [status |-> "fallback", body |-> FallbackDraft]
      BY <1>4, <2>3 DEF PublishReport, Publish
    <3>2. FallbackDraft.level = "insufficient_evidence"
      BY DEF FallbackDraft
    <3> QED
      BY <1>1, <2>1, <3>1, <3>2 DEF IInv, Leveled, Reported, GroundedIsSupported, ConfirmedHasFloor
  <2> QED
    BY <2>2, <2>3
<1> QED
  BY <1>2, <1>3, <1>4 DEF GateNext

\* The advisory leaves the report alone, or takes its body away with the judgment result.
LEMMA AdviceInv == ASSUME IInv, Advise PROVE IInv'
<1>1. Leveled(draft)' /\ Reported' /\ GroundedIsSupported' /\ ConfirmedHasFloor'
  <2>1. CASE LoadContext
    <3>1. draft' = draft /\ report' = [report EXCEPT !.body = None]
      BY <2>1 DEF LoadContext
    <3>2. CASE report = None
      <4>1. report' = report
        BY <3>1, <3>2 DEF None
      <4> QED
        BY <3>1, <4>1 DEF IInv, Leveled, Reported, GroundedIsSupported, ConfirmedHasFloor
    <3>3. CASE \E s, d : report = [status |-> s, body |-> d]
      <4>1. PICK s, d : report = [status |-> s, body |-> d]
        BY <3>3
      <4>2. report' = [status |-> s, body |-> None]
        BY <3>1, <4>1
      <4>3. report'.body = None
        BY <4>2
      <4> QED
        BY <3>1, <4>2, <4>3 DEF IInv, Leveled, Reported, GroundedIsSupported, ConfirmedHasFloor
    <3> QED
      BY <3>2, <3>3 DEF IInv, Reported
  <2>2. CASE ~LoadContext
    <3>1. UNCHANGED <<draft, report>>
      BY <2>2 DEF Advise, ContextFails, PlannerAnswers, Proposed, PlannerWritesAgain, PlannerLeavesDraft,
         DraftStillBroken, PlannerRaises, PlannerFailed, ValidatePlan, FinalizePlan, gateVars
    <3> QED
      BY <3>1 DEF IInv, Leveled, Reported, GroundedIsSupported, ConfirmedHasFloor
  <2> QED
    BY <2>1, <2>2
<1>2. ApprovalNotSkipped'
  <2>1. CASE FinalizePlan
    <3>1. CASE errors # {}
      <4>1. plan'.actions = {}
        BY <2>1, <3>1 DEF FinalizePlan
      <4> QED
        BY <4>1 DEF ApprovalNotSkipped
    <3>2. CASE errors = {}
      <4>1. /\ plan'.actions = proposal.actions
            /\ plan'.status = (IF \E a \in proposal.actions : a.approval
                               THEN "approval_required" ELSE "recommended")
            /\ node' = IF plan'.status = "approval_required" THEN "approve" ELSE "done"
        BY <2>1, <3>2 DEF FinalizePlan
      <4>2. CASE \E a \in proposal.actions : a.approval
        BY <4>1, <4>2 DEF ApprovalNotSkipped
      <4>3. CASE ~\E a \in proposal.actions : a.approval
        BY <4>1, <4>3 DEF ApprovalNotSkipped
      <4> QED
        BY <4>2, <4>3
    <3> QED
      BY <3>1, <3>2
  <2>2. CASE ~FinalizePlan
    <3>1. node' # "done"
      BY <2>2 DEF Advise, LoadContext, ContextFails, PlannerAnswers, Proposed, PlannerWritesAgain,
         PlannerLeavesDraft, DraftStillBroken, PlannerRaises, PlannerFailed, ValidatePlan
    <3> QED
      BY <3>1 DEF ApprovalNotSkipped
  <2> QED
    BY <2>1, <2>2
<1> QED
  BY <1>1, <1>2 DEF IInv

\* Every step keeps the invariant.
LEMMA NextInv == IInv /\ [Next]_vars => IInv'
<1> SUFFICES ASSUME IInv, [Next]_vars PROVE IInv'
  OBVIOUS
<1>1. CASE GateNext /\ UNCHANGED adviceVars
  BY <1>1, PipelineInv
<1>2. CASE Advise
  BY <1>2, AdviceInv
<1>3. CASE \E verdict \in {"approved", "denied"} : Approve(verdict)
  <2>1. UNCHANGED <<draft, report>> /\ decision' # "none"
    BY <1>3 DEF Approve, gateVars
  <2> QED
    BY <2>1 DEF IInv, Leveled, Reported, GroundedIsSupported, ConfirmedHasFloor, ApprovalNotSkipped
<1>4. CASE UNCHANGED vars
  BY <1>4 DEF vars, gateVars, adviceVars, IInv, Leveled, Reported, GroundedIsSupported,
     ConfirmedHasFloor, ApprovalNotSkipped
<1> QED
  BY <1>1, <1>2, <1>3, <1>4 DEF Next

LEMMA Invariant == Spec => []IInv
<1> QED
  BY InitInv, NextInv, PTL DEF Spec

\* A grounded report asserts nothing the run cannot show: every statement and verdict rests on
\* a reference of the ledger, whichever pipeline wrote it (validate_grounding,
\* assemble_report_draft, apply_assembly_backstops).
THEOREM ReportIsSupported == Spec => []GroundedIsSupported
BY Invariant, PTL DEF IInv

\* Malice is confirmed only on cited activities that show what the threat type needs
\* (evidence_gate.py).
THEOREM MaliceHasFloor == Spec => []ConfirmedHasFloor
BY Invariant, PTL DEF IInv

\* A plan that asks for a risky action is not closed without an approver (finalize_plan,
\* await_approval).
THEOREM RiskIsApproved == Spec => []ApprovalNotSkipped
BY Invariant, PTL DEF IInv
=============================================================================
