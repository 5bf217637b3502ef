---------------------------- MODULE CaseValidation ----------------------------
(***************************************************************************)
(* capability_validation: a test case with its replay (case_model.py,      *)
(* replay.py), the variants derived from it (derivation.py), and a suite   *)
(* whose manifest pins the contents of its cases (suite.py).               *)
(*                                                                         *)
(* A text is the set of the parameters its placeholders name, with the tag *)
(* that tells texts apart; substituted, it also has their values.  A value *)
(* in Nested contains a placeholder itself.                                *)
(***************************************************************************)
EXTENDS Integers, SequencesExt

CONSTANTS Names, Values, Nested

Text(T) == [tag : T, names : SUBSET Names]
Judgments == {"malicious", "benign", "abused"}

\* case.json and its replay: the expected verdict ("none": no expectation) and whether the
\* expected level is on the malicious side, the judgment target's path and hash and the
\* input record's, the events with their sources, the declared baseline sources, and the
\* event files declared and present.
MaliciousTruth(case) == case.truth.judgment \in {"malicious", "abused"}

\* The validators of TestCase.
WellFormed(case) ==
    case.verdict # "none" =>
        /\ case.level = "none" \/ (case.level = "malicious_side") = (case.verdict = "malicious")
        /\ (case.verdict = "malicious") = MaliciousTruth(case)

\* Mutant: the anchor is the hash alone.
AnchorHolds_HashOnly(bundle) == bundle.case.hash = bundle.input.hash

\* _check_anchor, on texts before substitution.
AnchorHolds(bundle) ==
    bundle.case.hash = bundle.input.hash /\ bundle.case.path = bundle.input.path

Sources(bundle) == {bundle.events[i].source : i \in DOMAIN bundle.events}

\* ReplayBundle.load
Loads(bundle) ==
    /\ WellFormed(bundle.case)
    /\ bundle.case.truth.text.names = {}              \* _check_truth_is_literal
    /\ bundle.case.declared = bundle.present          \* the telemetry inventory
    /\ bundle.case.baseline \subseteq Sources(bundle) \* _check_environment_baseline
    /\ AnchorHolds(bundle)
-------------------------------------------------------------------------------
\* substitute, and what find_unresolved_placeholders still finds afterwards.
CanSubstitute(text, values) == text.names \subseteq DOMAIN values
Substitute(text, values)    == [text EXCEPT !.names = [n \in @ |-> values[n]]]
Unresolved(text)            == {n \in DOMAIN text.names : text.names[n] \in Nested}

Texts(bundle) == {bundle.case.path, bundle.case.scenario, bundle.input.path}
                 \cup {bundle.events[i].text : i \in DOMAIN bundle.events}

\* Defaults and, over them, what the variant sets.
Parameters(bundle, spec) ==
    [n \in DOMAIN spec.parameters \cup DOMAIN bundle.case.defaults |->
        IF n \in DOMAIN spec.parameters THEN spec.parameters[n] ELSE bundle.case.defaults[n]]

\* _materialize: everything but the truth is substituted.
Derived(bundle, spec, values) ==
    [case   |-> [bundle.case EXCEPT !.path     = Substitute(@, values),
                                    !.scenario = Substitute(@, values),
                                    !.id       = IF spec.variant = "base" THEN @
                                                 ELSE <<@, spec.variant>>],
     input  |-> [bundle.input EXCEPT !.path = Substitute(@, values)],
     events |-> [i \in DOMAIN bundle.events |->
                   [bundle.events[i] EXCEPT !.text = Substitute(@, values)]]]

\* derive_variant and materialize_default: the derived case, or none where they raise.
Derive(bundle, spec) ==
    LET values == Parameters(bundle, spec)
        result == Derived(bundle, spec, values)
    IN  IF ~(DOMAIN spec.parameters \subseteq DOMAIN bundle.case.defaults) THEN {}
        ELSE IF \E t \in Texts(bundle) : ~CanSubstitute(t, values) THEN {}
        ELSE IF \E t \in Texts(result) : Unresolved(t) # {} THEN {}
        ELSE IF result.case.hash # result.input.hash THEN {}   \* _check_derived_anchor
        ELSE {result}

Base == [variant |-> "base", parameters |-> <<>>]
-------------------------------------------------------------------------------
\* refresh_digests pins what is there; load refuses a case that is not as pinned, is not
\* the case the manifest names, or does not load.  tree: the case directories.
Unique(manifest) ==
    \A i, j \in DOMAIN manifest : i # j => /\ manifest[i].id # manifest[j].id
                                           /\ manifest[i].dir # manifest[j].dir

Refresh(manifest, tree) ==
    [i \in DOMAIN manifest |-> [manifest[i] EXCEPT !.pinned = {tree[manifest[i].dir]}]]

LoadSuite(manifest, tree) ==
    IF /\ Unique(manifest)
       /\ \A i \in DOMAIN manifest :
             LET bundle == tree[manifest[i].dir]
             IN  /\ manifest[i].pinned = {} \/ bundle \in manifest[i].pinned
                 /\ Loads(bundle)
                 /\ bundle.case.id = manifest[i].id
    THEN {[i \in DOMAIN manifest |-> tree[manifest[i].dir]]} ELSE {}
-------------------------------------------------------------------------------
\* "variants inherit the exam answer, never re-author it" (derivation.py) and "every case
\* anchors one judgment-target file" (case_model.py), through loading, pinning and deriving:
\* of a suite that loads, each variant has the truth of its case and an identity of its own,
\* judges the very file its input is about, has nothing left to fill in, and differs from
\* the base only where a parameter it sets is named; a case edited after it was pinned is
\* in no suite that loads.
VariantsKeepTruth(bundle, edited, spec) ==
    LET manifest == Refresh(<<[id |-> bundle.case.id, dir |-> "d", pinned |-> {}]>>,
                            [d \in {"d"} |-> bundle])
        loaded   == LoadSuite(manifest, [d \in {"d"} |-> bundle])
    IN  /\ edited # bundle => LoadSuite(manifest, [d \in {"d"} |-> edited]) = {}
        /\ loaded # {} => \A v \in Derive(bundle, spec) :
              /\ v.case.truth = bundle.case.truth
              /\ v.case.verdict # "none" => (v.case.verdict = "malicious") = MaliciousTruth(v.case)
              /\ v.case.id # bundle.case.id
              /\ v.case.path = v.input.path /\ v.case.hash = v.input.hash
              /\ \A t \in Texts(v) : Unresolved(t) = {}
              /\ \A b \in Derive(bundle, Base), i \in DOMAIN bundle.events :
                    bundle.events[i].text.names \cap DOMAIN spec.parameters = {} =>
                        v.events[i] = b.events[i]
===============================================================================
