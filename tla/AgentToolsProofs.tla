-------------------------- MODULE AgentToolsProofs -----------------------------
(***************************************************************************)
(* Proofs about AgentTools, for every number of parallel calls, every set  *)
(* of references and every budget; and about ToolGateway, one call of it   *)
(* in its detail.                                                          *)
(***************************************************************************)
EXTENDS AgentTools, TLAPS

\* What the run has seen: the alert's own references and those of its results.
Seen == Known \cup returned

\* The ledger and what a call carries back to it stem from Seen.
LedgerSeen ==
    /\ authorized \subseteq Seen
    /\ used \subseteq Seen
    /\ returned \cap Foreign = {}

CallSeen(c) ==
    /\ call[c].base \subseteq Seen
    /\ call[c].got \subseteq returned
    /\ call[c].pc \in {"query", "record"} => call[c].want \subseteq Seen

\* A call behind the budget check, or counted by it, found the counter below the limit,
\* which does not move before the step ends.
CallAdmitted(c) ==
    call[c].pc \in {"gateway", "query", "record"} \/ call[c].counted => toolCalls < MaxToolCalls

CallInv == \A c \in Calls : CallSeen(c) /\ CallAdmitted(c)

IInv == TypeOK /\ LedgerSeen /\ CallInv

\* The first state: nothing returned, nothing called.
LEMMA InitInv == Init => IInv
BY RefsAssumption, BudgetAssumption
   DEF Init, IInv, TypeOK, LedgerSeen, CallInv, CallSeen, CallAdmitted, Seen, Phase, Call, CallPc, NoCall

\* The agent's own steps replace all calls or leave them alone.
LEMMA AgentStepInv == IInv /\ AgentStep => IInv'
<1> SUFFICES ASSUME IInv, AgentStep PROVE IInv'
  OBVIOUS
<1> USE BudgetAssumption DEF IInv, TypeOK, LedgerSeen, CallInv, Seen, Phase, budget, ledger
<1>1. CASE ModelCall
  <2>0. PICK C \in SUBSET Calls : \E want \in [C -> Wanted] :
            call' = [c \in Calls |-> IF c \in C THEN [NoCall EXCEPT !.pc = "budget", !.want = want[c]]
                                                ELSE NoCall]
    BY <1>1 DEF ModelCall
  <2>1. PICK want \in [C -> Wanted] :
            call' = [c \in Calls |-> IF c \in C THEN [NoCall EXCEPT !.pc = "budget", !.want = want[c]]
                                                ELSE NoCall]
    BY <2>0
  <2>2. \A c \in C : want[c] \subseteq Refs
    <3>1. \A w \in Wanted : w \subseteq Refs
      BY DEF Wanted
    <3> QED
      BY <2>1, <3>1
  <2>3. call' \in [Calls -> Call]
    BY <2>1, <2>2 DEF Call, CallPc, NoCall
  <2>4. CallInv'
    BY <2>1, <1>1 DEF ModelCall, CallSeen, CallAdmitted, NoCall
  <2>5. modelCalls' \in 0..MaxModelCalls
    <3>1. modelCalls < MaxModelCalls /\ modelCalls' = modelCalls + 1
      BY <1>1 DEF ModelCall
    <3> QED
      BY <3>1
  <2>6. phase' = "tools" /\ UNCHANGED <<toolCalls, authorized, returned, used, traces>>
    BY <1>1 DEF ModelCall
  <2> QED
    BY <2>3, <2>4, <2>5, <2>6
<1>2. CASE ModelConcludes \/ ModelExhausted \/ ModelRaises \/ Report
  <2>1. UNCHANGED <<toolCalls, authorized, returned, used, traces, call>>
    BY <1>2 DEF ModelConcludes, ModelExhausted, ModelRaises, Report
  <2>2. CallInv'
    BY <2>1 DEF CallSeen, CallAdmitted
  <2>3. modelCalls' \in 0..MaxModelCalls /\ phase' \in Phase
    BY <1>2 DEF ModelConcludes, ModelExhausted, ModelRaises, Report
  <2> QED
    BY <2>1, <2>2, <2>3
<1>3. CASE StepEnds
  <2>1. toolCalls' \in 0..MaxToolCalls
    BY <1>3 DEF StepEnds, CallAdmitted
  <2>2. call' \in [Calls -> Call]
    BY <1>3 DEF StepEnds, Call, CallPc, NoCall
  <2>3. CallInv'
    BY <1>3 DEF StepEnds, CallSeen, CallAdmitted, NoCall
  <2> QED
    BY <1>3, <2>1, <2>2, <2>3 DEF StepEnds
<1> QED
  BY <1>1, <1>2, <1>3 DEF AgentStep

\* A call that ends carries nothing and is counted only if the budget had let it through.
LEMMA EndInv ==
  ASSUME IInv, NEW c \in Calls, NEW counted \in BOOLEAN, End(c, counted),
         counted => toolCalls < MaxToolCalls,
         returned \subseteq returned', UNCHANGED toolCalls
  PROVE  call' \in [Calls -> Call] /\ CallInv'
<1>1. call' = [call EXCEPT ![c] = [NoCall EXCEPT !.pc = "end", !.counted = counted]]
  BY DEF End, Become
<1>2. call' \in [Calls -> Call]
  BY <1>1 DEF IInv, TypeOK, Call, CallPc, NoCall
<1>3. ASSUME NEW d \in Calls PROVE CallSeen(d)' /\ CallAdmitted(d)'
  BY <1>1 DEF IInv, TypeOK, CallInv, CallSeen, CallAdmitted, Seen, NoCall
<1> QED
  BY <1>2, <1>3 DEF CallInv

\* The steps of one tool call.
LEMMA ToolStepInv == ASSUME IInv, NEW c \in Calls, ToolStep(c) PROVE IInv'
<1> USE RefsAssumption, BudgetAssumption DEF budget, ledger
<1>0. call[c] \in Call /\ CallSeen(c) /\ CallAdmitted(c)
  BY DEF IInv, TypeOK, CallInv
<1>1. CASE BudgetDenies(c)
  <2>1. call' \in [Calls -> Call] /\ CallInv'
    BY <1>1, EndInv DEF BudgetDenies
  <2> QED
    BY <1>1, <2>1 DEF BudgetDenies, IInv, TypeOK, LedgerSeen, Seen
<1>2. CASE BoundaryAuthorizes(c)
  <2>1. CASE Authorized(c)
    <3>1. call' = [call EXCEPT ![c] = [call[c] EXCEPT !.pc = "gateway"]]
      BY <1>2, <2>1 DEF BoundaryAuthorizes, Become
    <3>2. call' \in [Calls -> Call]
      BY <3>1, <1>0 DEF IInv, TypeOK, Call, CallPc
    <3>3. toolCalls < MaxToolCalls /\ UNCHANGED <<phase, modelCalls, toolCalls, authorized, returned, used, traces>>
      BY <1>2 DEF BoundaryAuthorizes, ToolCallAllowed
    <3>4. ASSUME NEW d \in Calls PROVE CallSeen(d)' /\ CallAdmitted(d)'
      BY <3>1, <3>3, <1>0 DEF IInv, TypeOK, CallInv, CallSeen, CallAdmitted, Seen, Call
    <3> QED
      BY <3>2, <3>3, <3>4 DEF IInv, TypeOK, LedgerSeen, CallInv, Seen
  <2>2. CASE ~Authorized(c)
    <3>1. call' \in [Calls -> Call] /\ CallInv'
      BY <1>2, <2>2, EndInv DEF BoundaryAuthorizes, ToolCallAllowed
    <3> QED
      BY <1>2, <3>1 DEF BoundaryAuthorizes, IInv, TypeOK, LedgerSeen, Seen
  <2> QED
    BY <2>1, <2>2
<1>3. CASE GatewayAuthorizes(c)
  <2>1. CASE Authorized(c)
    <3>1. call' = [call EXCEPT ![c] = [call[c] EXCEPT !.pc = "query"]]
      BY <1>3, <2>1 DEF GatewayAuthorizes, Become
    <3>2. call' \in [Calls -> Call]
      BY <3>1, <1>0 DEF IInv, TypeOK, Call, CallPc
    <3>3. toolCalls < MaxToolCalls /\ UNCHANGED <<phase, modelCalls, toolCalls, authorized, returned, used, traces>>
      BY <1>3, <1>0 DEF GatewayAuthorizes, At, CallAdmitted
    <3>4. call[c].want \subseteq Seen
      BY <2>1 DEF Authorized, IInv, LedgerSeen
    <3>5. ASSUME NEW d \in Calls PROVE CallSeen(d)' /\ CallAdmitted(d)'
      BY <3>1, <3>3, <3>4, <1>0 DEF IInv, TypeOK, CallInv, CallSeen, CallAdmitted, Seen, Call
    <3> QED
      BY <3>2, <3>3, <3>5 DEF IInv, TypeOK, LedgerSeen, CallInv, Seen
  <2>2. CASE ~Authorized(c)
    <3>1. call' \in [Calls -> Call] /\ CallInv'
      BY <1>3, <2>2, EndInv DEF GatewayAuthorizes
    <3> QED
      BY <1>3, <3>1 DEF GatewayAuthorizes, IInv, TypeOK, LedgerSeen, Seen
  <2> QED
    BY <2>1, <2>2
<1>4. CASE QueryFails(c) \/ QueryLeavesScope(c)
  <2>1. PICK counted \in BOOLEAN : End(c, counted)
    BY <1>4 DEF QueryFails, QueryLeavesScope
  <2>2. UNCHANGED <<phase, modelCalls, toolCalls, authorized, returned, used, traces>>
    BY <1>4 DEF QueryFails, QueryLeavesScope
  <2>3. toolCalls < MaxToolCalls
    BY <1>4, <1>0 DEF QueryFails, QueryLeavesScope, At, CallAdmitted
  <2>4. call' \in [Calls -> Call] /\ CallInv'
    BY <2>1, <2>2, <2>3, EndInv
  <2> QED
    BY <2>2, <2>4 DEF IInv, TypeOK, LedgerSeen, Seen
<1>5. CASE QueryAnswers(c)
  <2>1. PICK got \in SUBSET (Refs \ Foreign) :
            /\ call' = [call EXCEPT ![c] = [call[c] EXCEPT !.pc = "record", !.got = got,
                                                           !.base = authorized]]
            /\ returned' = returned \cup got
            /\ used' = used \cup call[c].want
    BY <1>5 DEF QueryAnswers, Become
  <2>2. /\ call[c].pc = "query"
        /\ UNCHANGED <<phase, modelCalls, toolCalls, authorized, traces>>
    BY <1>5 DEF QueryAnswers, At
  <2>3. call[c].want \subseteq Seen /\ toolCalls < MaxToolCalls
    BY <2>2, <1>0 DEF CallSeen, CallAdmitted
  <2>4. call' \in [Calls -> Call]
    BY <2>1, <1>0 DEF IInv, TypeOK, Call, CallPc
  <2>5. LedgerSeen'
    BY <2>1, <2>2, <2>3 DEF IInv, LedgerSeen, Seen
  <2>6. ASSUME NEW d \in Calls PROVE CallSeen(d)' /\ CallAdmitted(d)'
    <3>1. CASE d = c
      <4>1. call'[c].base = authorized /\ call'[c].got = got /\ call'[c].want = call[c].want
        BY <2>1, <1>0 DEF IInv, TypeOK, Call
      <4> QED
        BY <3>1, <4>1, <2>1, <2>2, <2>3 DEF IInv, LedgerSeen, CallSeen, CallAdmitted, Seen
    <3>2. CASE d # c
      <4>1. call'[d] = call[d]
        BY <3>2, <2>1 DEF IInv, TypeOK
      <4> QED
        BY <4>1, <2>1, <2>2 DEF IInv, CallInv, CallSeen, CallAdmitted, Seen
    <3> QED
      BY <3>1, <3>2
  <2>7. returned' \subseteq Refs /\ used' \subseteq Refs
    BY <2>1, <1>0 DEF IInv, TypeOK, Call
  <2> QED
    BY <2>2, <2>4, <2>5, <2>6, <2>7 DEF IInv, TypeOK, CallInv
<1>6. CASE RecordResult(c)
  <2>1. PICK counted \in BOOLEAN : End(c, counted)
    BY <1>6 DEF RecordResult
  <2>2. /\ authorized' = call[c].base \cup call[c].got
        /\ traces' = traces + 1
        /\ UNCHANGED <<phase, modelCalls, toolCalls, returned, used>>
    BY <1>6 DEF RecordResult
  <2>3. toolCalls < MaxToolCalls
    BY <1>6, <1>0 DEF RecordResult, At, CallAdmitted
  <2>4. call' \in [Calls -> Call] /\ CallInv'
    BY <2>1, <2>2, <2>3, EndInv
  <2>5. LedgerSeen'
    BY <2>2, <1>0 DEF IInv, LedgerSeen, CallSeen, Seen
  <2>6. authorized' \subseteq Refs
    BY <2>2, <1>0 DEF Call
  <2> QED
    BY <2>2, <2>4, <2>5, <2>6 DEF IInv, TypeOK
<1> QED
  BY <1>1, <1>2, <1>3, <1>4, <1>5, <1>6 DEF ToolStep

LEMMA NextInv == IInv /\ [Next]_vars => IInv'
<1> SUFFICES ASSUME IInv, [Next]_vars PROVE IInv'
  OBVIOUS
<1>1. CASE UNCHANGED vars
  BY <1>1 DEF vars, IInv, TypeOK, LedgerSeen, CallInv, CallSeen, CallAdmitted, Seen
<1>2. CASE AgentStep
  BY <1>2, AgentStepInv
<1>3. CASE \E c \in Calls : ToolStep(c)
  BY <1>3, ToolStepInv
<1> QED
  BY <1>1, <1>2, <1>3 DEF Next, Ended

LEMMA SpecInv == Spec => []IInv
BY InitInv, NextInv, PTL DEF Spec

\* Every variable keeps its type; in particular the tool-call counter never passes the
\* limit, however many calls of a step are counted (_parallel_max, allow_tool_call).
THEOREM TypeCorrect == Spec => []TypeOK
<1>1. IInv => TypeOK
  BY DEF IInv
<1> QED
  BY <1>1, SpecInv, PTL

\* No activity outside the scope enters the ledger of a run (validate_result before
\* _record_result), although the authorized references are read and written apart.
THEOREM ScopeKept == Spec => []LedgerInScope
<1>1. IInv => LedgerInScope
  BY RefsAssumption DEF IInv, LedgerSeen, Seen, LedgerInScope
<1> QED
  BY <1>1, SpecInv, PTL

\* Every result in the ledger was asked for with references of the alert or of results
\* (authorize_call of the policy, in the middleware and in the gateway).
THEOREM UsesReturned == Spec => []UseWasReturned
<1>1. IInv => UseWasReturned
  BY DEF IInv, LedgerSeen, Seen, UseWasReturned
<1> QED
  BY <1>1, SpecInv, PTL

\* A run whose tool-call budget is used up leaves its ledger as it is (wrap_tool_call of
\* the budget middleware): a call admitted earlier in the step has ended with the step.
THEOREM ExhaustedKeepsLedger == Spec => ExhaustedFreezesLedger
<1>1. IInv /\ [Next]_vars => [toolCalls >= MaxToolCalls => UNCHANGED ledger]_vars
  <2> SUFFICES ASSUME IInv, Next, toolCalls >= MaxToolCalls PROVE UNCHANGED ledger
    BY DEF vars
  <2>1. ASSUME AgentStep \/ Ended PROVE UNCHANGED ledger
    BY <2>1 DEF AgentStep, ModelCall, ModelConcludes, ModelExhausted, ModelRaises, StepEnds,
                Report, Ended, vars, ledger
  <2>2. ASSUME NEW c \in Calls, ToolStep(c) PROVE UNCHANGED ledger
    <3>1. toolCalls \in Nat /\ ~(toolCalls < MaxToolCalls)
      BY BudgetAssumption DEF IInv, TypeOK
    <3>2. call[c].pc \notin {"gateway", "query", "record"}
      BY <3>1 DEF IInv, CallInv, CallAdmitted
    <3> QED
      BY <2>2, <3>2 DEF ToolStep, BudgetDenies, BoundaryAuthorizes, GatewayAuthorizes, QueryFails,
                        QueryAnswers, QueryLeavesScope, RecordResult, At, ledger
  <2> QED
    BY <2>1, <2>2 DEF Next
<1> QED
  BY <1>1, SpecInv, PTL DEF Spec, ExhaustedFreezesLedger
-----------------------------------------------------------------------------
\* One call of the gateway in its detail: the hosts, the scope's host, the mark of a name
\* without one, and the scope's time.
CONSTANTS Hosts, Local, Shared, Opens, Closes

Gateway == INSTANCE ToolGateway

\* _split_relations_by_host, for endpoints the data layer leaves no doubt about.
LEMMA EndpointSplit ==
  ASSUME NEW relations, NEW e \in relations, Gateway!Attributed(e)
  PROVE  /\ e \in Gateway!InFull(relations) => e.ref \in {Local, Shared}
         /\ e \in Gateway!Clues(relations) => e.ref # Local
<1>1. CASE ~e.resolved
  BY <1>1 DEF Gateway!InFull, Gateway!Clues, Gateway!EndpointHost
<1>2. CASE e.resolved
  <2>1. e.attribute = e.ref
    BY <1>2 DEF Gateway!Attributed
  <2>2. Gateway!EndpointHost(e) = IF e.ref # Shared THEN e.ref
                                  ELSE IF Local \in e.aliases THEN Local ELSE Shared
    BY <1>2, <2>1 DEF Gateway!EndpointHost
  <2> QED
    BY <2>2 DEF Gateway!InFull, Gateway!Clues
<1> QED
  BY <1>1, <1>2

\* Whatever a call asks for, whatever is authorized and whatever the data layer answers: the
\* ledger is extended by nothing outside the scope, and a call inside it is only ever
\* refused on account of its result (invoke, authorize_call, validate_result).
THEOREM CallsKeepScope ==
  ASSUME NEW asked, NEW granted, NEW answer, NEW relations
  PROVE  Gateway!GatewayKeepsScope(asked, granted, answer, relations)
<1> DEFINE code       == Gateway!Authorize(asked, granted)
           activities == IF asked.tool = "query" THEN answer
                         ELSE IF asked.tool = "explore" THEN Gateway!Timeline(asked, answer) ELSE {}
           result     == Gateway!Invoke(asked, granted, answer, relations)
<1>1. CASE code # "ok"
  <2>1. result = [code |-> code, activities |-> {}, relations |-> {}, clues |-> {}]
    BY <1>1 DEF Gateway!Invoke
  <2>2. ~(/\ asked.domain \/ asked.tool # "query"
          /\ asked.hosts \subseteq {Local} /\ Gateway!InWindow(asked)
          /\ asked.refs \subseteq granted)
    BY <1>1 DEF Gateway!Authorize
  <2> HIDE DEF result, code
  <2> QED
    BY <2>1, <2>2 DEF Gateway!GatewayKeepsScope, result
<1>2. CASE code = "ok" /\ ~Gateway!ActivitiesValid(activities)
  <2>1. result = [code |-> "result_out_of_scope", activities |-> {}, relations |-> {}, clues |-> {}]
    BY <1>2 DEF Gateway!Invoke
  <2> HIDE DEF result
  <2> QED
    BY <2>1 DEF Gateway!GatewayKeepsScope, result
<1>3. CASE code = "ok" /\ Gateway!ActivitiesValid(activities)
  <2>1. /\ result.code = "ok" /\ result.activities = activities
        /\ result.relations \subseteq Gateway!InFull(relations)
        /\ result.clues \subseteq Gateway!Clues(relations)
    BY <1>3 DEF Gateway!Invoke
  <2>2. \A a \in activities : a.host \in {Local, Shared} /\ a.at \in Gateway!Within
    BY <1>3 DEF Gateway!ActivitiesValid
  <2>3. \A e \in result.relations : Gateway!Attributed(e) => e.ref \in {Local, Shared}
    <3>1. Gateway!InFull(relations) \subseteq relations
      BY DEF Gateway!InFull
    <3> QED
      BY <2>1, <3>1, EndpointSplit
  <2>4. \A e \in result.clues : Gateway!Attributed(e) => e.ref # Local
    <3>1. Gateway!Clues(relations) \subseteq relations
      BY DEF Gateway!Clues
    <3> QED
      BY <2>1, <3>1, EndpointSplit
  <2> HIDE DEF result, activities
  <2> QED
    BY <2>1, <2>2, <2>3, <2>4 DEF Gateway!GatewayKeepsScope, result
<1> QED
  BY <1>1, <1>2, <1>3
===============================================================================
