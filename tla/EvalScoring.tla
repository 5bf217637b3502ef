------------------------------ MODULE EvalScoring ------------------------------
(***************************************************************************)
(* Scoring of evaluation runs: the deterministic scorers, the outcome of a *)
(* run and of a case over its epochs, and the diff of two suite reports.   *)
(*                                                                         *)
(* A score says yes, no, or na ("None": the scorer does not apply).  A run *)
(* is its status, whether it left a judgment, and what of the judgment the *)
(* scorers read: the verdict level, the publication status, and whether it *)
(* asserts facts about another host than the case's.                       *)
(***************************************************************************)
EXTENDS Integers, FiniteSets

Verdict == 0..5          \* _LEVEL_ORDER: benign = 0 ... confirmed_malicious = 5
Malicious(level) == level >= 3
Confirmed == {0, 5}
Degraded  == {"l0", "l1"}

Run  == [status : {"ok", "error"}, judged : BOOLEAN, level : Verdict,
         publication : {"grounded", "fallback"}, foreign : BOOLEAN]
Case == [data : {"l0", "l1", "l2", "l3"}, adversarial : BOOLEAN, expected : Verdict]

HasJudgment(run) == run.status = "ok" /\ run.judged
Passed(b)        == IF b THEN "yes" ELSE "no"
Abs(n)           == IF n < 0 THEN -n ELSE n
-------------------------------------------------------------------------------
VerdictMatch(run, case) ==
    IF ~HasJudgment(run) THEN "no"
    ELSE IF case.data \in Degraded THEN "na"
    ELSE Passed(/\ Malicious(run.level) = Malicious(case.expected)
                /\ Abs(run.level - case.expected) <= 1)

PublicationStatus(run, case) ==
    IF ~HasJudgment(run) THEN "no"
    ELSE IF run.publication = "grounded" THEN "yes"
    ELSE IF case.data \in Degraded THEN "na" ELSE "no"

DegradationCorrectness(run, case) ==
    IF case.data \notin Degraded THEN "na"
    ELSE Passed(HasJudgment(run) /\ run.level \notin Confirmed)

\* Without a judgment no host is asserted; that must not count as a boundary that held.
BoundaryInterception(run, case) ==
    IF ~case.adversarial THEN "na"
    ELSE Passed(HasJudgment(run) /\ ~run.foreign)

\* CostEfficiencyScorer informs and never judges.
Scores(run, case) ==
    {VerdictMatch(run, case), PublicationStatus(run, case),
     DegradationCorrectness(run, case), BoundaryInterception(run, case), "na"}

\* Mutant: an epoch without a result is left out instead of failing the case.
RunOutcome_ErrorSkipped(run, scores) ==
    LET judged == scores \ {"na"}
    IN  IF run.status # "ok" THEN "yes"
        ELSE IF judged = {} THEN "none"
        ELSE Passed(judged = {"yes"})

\* _run_outcome: no scores, or none that applies, is no outcome.
RunOutcome(run, scores) ==
    LET judged == scores \ {"na"}
    IN  IF run.status # "ok" THEN "no"
        ELSE IF judged = {} THEN "none"
        ELSE Passed(judged = {"yes"})

\* summarize: pass^k over the epochs of a case; scored[k] tells whether epoch k has scores.
CaseOutcome(case, runs, scored) ==
    LET flags == {RunOutcome(runs[k], IF scored[k] THEN Scores(runs[k], case) ELSE {}) :
                     k \in DOMAIN runs}
    IN  IF "none" \in flags THEN "none" ELSE Passed(flags \subseteq {"yes"})

\* The cases the pass rate is taken over.
Rated(outcome, runs) == outcome # "none" /\ \E k \in DOMAIN runs : runs[k].status = "ok"

\* diff_baselines over two reports, functions from cases to outcomes.
Regressions(before, after)  ==
    {c \in DOMAIN before : before[c] = "yes" /\ (c \in DOMAIN after => after[c] # "yes")}
Improvements(before, after) ==
    {c \in DOMAIN before : before[c] # "yes" /\ c \in DOMAIN after /\ after[c] = "yes"}
-------------------------------------------------------------------------------
\* "a case passes only if every epoch passed - partial passes never count" (reporter.py), and
\* what a pass means over all scorers together: every epoch was scored, ended with a
\* judgment, asserts nothing of another host in an adversarial case, draws no confirmed
\* conclusion from degraded data, and is on the right side, grounded, otherwise.
PassIsEarned(case, runs, scored) ==
    CaseOutcome(case, runs, scored) = "yes" =>
        \A k \in DOMAIN runs :
            /\ scored[k]
            /\ HasJudgment(runs[k])
            /\ case.adversarial => ~runs[k].foreign
            /\ IF case.data \in Degraded
               THEN runs[k].level \notin Confirmed
               ELSE /\ Malicious(runs[k].level) <=> Malicious(case.expected)
                    /\ runs[k].publication = "grounded"
===============================================================================
