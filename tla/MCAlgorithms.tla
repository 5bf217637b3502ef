------------------------------ MODULE MCAlgorithms ------------------------------
(***************************************************************************)
(* The pure algorithms, each against the reference definition its module   *)
(* ends with.  The one variable is an input: a step chooses an input of    *)
(* one algorithm, and the invariants compare what the algorithm makes of   *)
(* it.                                                                     *)
(***************************************************************************)
EXTENDS Integers, FiniteSets, Sequences, SequencesExt

CONSTANTS f, g, inside   \* the paths of a draft

VARIABLE input

Hosts == {"h", "i"}

S == INSTANCE EvalScoring
D == INSTANCE DraftEditor      WITH Fields <- {f, g}, Values <- {"v", "null"},
                                    Inside <- inside
G == INSTANCE ToolGateway      WITH Hosts <- Hosts, Local <- "h", Shared <- "-",
                                    Opens <- 1, Closes <- 2
K == INSTANCE KnowledgeService WITH Tenants <- {"t", "u"}, Anyone <- "any", TopK <- 2
C == INSTANCE ServiceSettings  WITH Values <- {"x", "y"}, Blank <- "", Default <- "d"
A == INSTANCE AuditProjection  WITH Pids <- {1, 2}, Paths <- {"/f", "/g", "/u"}, Unit <- "/u"
V == INSTANCE CaseValidation   WITH Names <- {"p", "q"}, Values <- {"x", "y", "{p}"},
                                    Nested <- {"{p}"}
M == INSTANCE MessageShaping   WITH Shown <- 1

\* Sets with at most n elements.
Small(T, n) == {U \in SUBSET T : Cardinality(U) <= n}
-------------------------------------------------------------------------------
\* Two epochs: any, and one of those that fail or pass for a reason of their own.
SecondRuns ==
    {[status |-> "error", judged |-> FALSE, level |-> 0, publication |-> "fallback", foreign |-> FALSE],
     [status |-> "ok", judged |-> FALSE, level |-> 0, publication |-> "fallback", foreign |-> FALSE],
     [status |-> "ok", judged |-> TRUE, level |-> 5, publication |-> "grounded", foreign |-> FALSE],
     [status |-> "ok", judged |-> TRUE, level |-> 2, publication |-> "grounded", foreign |-> TRUE]}

ScoreCase ==
    \E case \in {c \in S!Case : c.expected \in {0, 2, 3, 5}}, first \in S!Run, second \in SecondRuns,
       scored \in BoundedSeq(BOOLEAN, 2) :
        /\ Len(scored) = 2
        /\ input' = [alg |-> "scoring", case |-> case, runs |-> <<first, second>>, scored |-> scored]

ApplyEdits ==
    \E draft \in D!Draft({<<>>, <<"v">>, <<"v", "null">>}), first \in D!Edit(-2..2),
       second \in {e \in D!Edit({0, -1}) : e.target \in {f, 0, -1}} :
        input' = [alg |-> "draft", draft |-> draft, edits |-> <<first, second>>]

Activities == [host : Hosts \cup {"-"}, at : 0..3]
Calls      == [tool : {"query", "explore", "raw"}, domain : BOOLEAN, hosts : SUBSET Hosts,
               start : {-1, 0, 1, 2}, end : {-1, 1, 2, 3}, refs : {{}, {"a"}, {"z"}}]

CallTool ==
    \/ \E call \in Calls, answer \in Small(Activities, 1) :
          input' = [alg |-> "gateway", call |-> call, answer |-> answer, relations |-> {}]
    \/ \E call \in {c \in Calls : c.tool = "explore" /\ c.start = -1},
          answer \in Small({a \in Activities : a.at > 0}, 2),
          end \in {e \in G!Endpoint : ~e.resolved => e.aliases = {} /\ e.attribute = "-"} :
          /\ call.refs # {"z"} /\ call.hosts # Hosts /\ Cardinality(answer) = 2
          /\ input' = [alg |-> "gateway", call |-> call, answer |-> answer, relations |-> {end}]
-------------------------------------------------------------------------------
Entries == {[id |-> "e1", match |-> 2, score |-> 1, relevance |-> "high",   tenant |-> "any"],
            [id |-> "e2", match |-> 1, score |-> 3, relevance |-> "medium", tenant |-> "t"],
            [id |-> "e3", match |-> 1, score |-> 2, relevance |-> "medium", tenant |-> "u"],
            [id |-> "e4", match |-> 3, score |-> 1, relevance |-> "high",   tenant |-> "u"],
            [id |-> "e5", match |-> 1, score |-> 1, relevance |-> "low",    tenant |-> "any"]}
Records == {[id |-> "r1", words |-> 1, bigrams |-> 0, size |-> 4,   named |-> FALSE],
            [id |-> "r2", words |-> 0, bigrams |-> 1, size |-> 4,   named |-> FALSE],
            [id |-> "r3", words |-> 0, bigrams |-> 0, size |-> 100, named |-> TRUE],
            [id |-> "r4", words |-> 1, bigrams |-> 0, size |-> 17,  named |-> FALSE]}

ConsultKnowledge ==
    \E router \in BOOLEAN, records \in SUBSET Records, entries \in Small(Entries, 4),
       attack \in {{}, {CHOOSE e \in Entries : e.id = "e1"}},
       forcedE \in {"none", "timeout", "empty", "not_configured"}, forcedA \in {"none", "permission_denied"},
       faultA, faultR \in K!Faults, intent \in {"guidance", "technique", "telemetry", "policy"} :
        /\ ~router => records = {} /\ faultA = "none"
        /\ intent # "guidance" => entries = {} /\ forcedE = "none"
        /\ forcedE # "none" => Cardinality(entries) = 1
        /\ router => attack = {} /\ forcedA = "none"
        /\ input' = [alg |-> "knowledge", intent |-> intent,
                     world |-> [router |-> router, corpus |-> records, tenant |-> "t",
                                faults |-> [corpus |-> faultA, reference |-> faultR],
                                entries |-> [experience |-> entries, attack |-> attack, manual |-> {}],
                                forced  |-> [experience |-> forcedE, attack |-> forcedA,
                                             manual |-> "not_configured"]]]

EnvLines ==
    {C!Line("API_BASE", "x"), C!Line("API_BASE", ""), C!Line("MODEL_NAME", "x"),
     C!Line("JUDGMENT_MODEL_NAME", "x"), C!Line("JUDGMENT_MODEL_NAME", ""),
     C!Line("JUDGMENT_API_BASE", "x"), C!Line("JUDGMENT_API_BASE", ""),
     C!Line("JUDGMENT_API_KEY", "x"), C!Line("JUDGMENT_API_KEY", ""),
     C!Line("API_KEY", "x"), C!Line("API_KEY", ""), C!Line("OTHER", "x"), C!Line("text", "")}

SaveSettings ==
    \E file \in BoundedSeq(EnvLines, 3), config \in C!Config :
        /\ config.base = "y" /\ config.api_key # "x"
        /\ input' = [alg |-> "settings", file |-> file, config |-> config]
-------------------------------------------------------------------------------
Sys(call, pid, ok, a1, a2) ==
    [type |-> "SYSCALL", call |-> call, success |-> ok, pid |-> pid, ppid |-> 3 - pid,
     a1 |-> a1, a2 |-> a2, inet |-> TRUE, nametype |-> "-", path |-> "-"]
Path(nametype, path) ==
    [type |-> "PATH", call |-> "-", success |-> FALSE, pid |-> 0, ppid |-> 0,
     a1 |-> "read", a2 |-> "read", inet |-> FALSE, nametype |-> nametype, path |-> path]
User == [Path("-", "-") EXCEPT !.type = "USER"]

\* Records of the kernel, without their time.
Shapes ==
    {<<Sys("execve", p, ok, "read", "read")>> : p \in {1, 2}, ok \in BOOLEAN}
    \cup {<<Sys("openat", p, TRUE, "read", a), Path("NORMAL", file)>> :
             p \in {1, 2}, a \in {"read", "write"}, file \in {"/f", "/u"}}
    \cup {<<Sys("openat", 1, ok, "read", "create"), Path("PARENT", "/g"), Path("CREATE", "/f")>> :
             ok \in BOOLEAN}
    \cup {<<Sys("open", 2, TRUE, "write", "read"), Path("NORMAL", "/f")>>,
          <<Sys("unlink", 1, TRUE, "read", "read"), Path("DELETE", "/f")>>,
          <<Sys("rename", 1, TRUE, "read", "read"), Path("DELETE", "/f"), Path("CREATE", "/g")>>,
          <<Sys("rename", 1, TRUE, "read", "read"), Path("DELETE", "/f")>>,
          <<Sys("connect", 2, TRUE, "read", "read")>>, <<User>>}

Stamp(record, at) == [i \in DOMAIN record |-> record[i] @@ [at |-> at]]

\* Three records, the second before the rest of the first or after all of it.
ProjectCapture ==
    \E r1, r2, r3 \in Shapes, split \in {1, 3}, listed \in {<<>>, <<0>>} :
        /\ split = 1 => Len(r1) > 1
        /\ input' = [alg |-> "audit", listed |-> listed,
                     lines |-> LET first == Stamp(r1, 1)
                                   cut   == IF split < Len(first) THEN split ELSE Len(first)
                               IN  SubSeq(first, 1, cut) \o Stamp(r2, 2)
                                   \o SubSeq(first, cut + 1, Len(first)) \o Stamp(r3, 3)]

Plain(tag) == [tag |-> tag, names |-> {}]
With(tag, n) == [tag |-> tag, names |-> {n}]

Bundles ==
    {[case |-> [id |-> "c", truth |-> [judgment |-> judgment, text |-> truthText],
                verdict |-> verdict, level |-> level, path |-> path, hash |-> 1,
                scenario |-> scenario, declared |-> {"file"}, baseline |-> {"process"},
                defaults |-> defaults],
      input |-> [path |-> inPath, hash |-> hash],
      events |-> <<[text |-> event, source |-> source]>>, present |-> present] :
        judgment \in {"malicious", "benign"}, truthText \in {Plain("truth"), With("truth", "p")},
        verdict \in {"none", "malicious"}, level \in {"none", "malicious_side"},
        path \in {Plain("path"), With("path", "p")}, inPath \in {Plain("path"), With("path", "p")},
        scenario \in {With("scenario", "q"), Plain("scenario")}, hash \in {1, 2},
        event \in {Plain("event"), With("event", "p")}, source \in {"process", "file"},
        present \in {{"file"}, {}},
        defaults \in {[p |-> "x"], [p |-> "x", q |-> "y"], [p |-> "{p}", q |-> "y"]}}

DeriveVariant ==
    \E bundle \in Bundles, parameters \in {<<>>, [p |-> "y"], [q |-> "x"], [p |-> "{p}"]},
       edit \in {"none", "truth", "input"} :
        /\ bundle.case.hash # bundle.input.hash => edit = "none"
        /\ input' = [alg |-> "case", bundle |-> bundle,
                     spec |-> [variant |-> "v", parameters |-> parameters],
                     edited |-> CASE edit = "none"  -> bundle
                                  [] edit = "truth" -> [bundle EXCEPT !.case.truth.text = Plain("other")]
                                  [] edit = "input" -> [bundle EXCEPT !.events[1].text = Plain("other")]]

Blocks == [left : M!Leftover, input : M!Input]

ShapeMessages ==
    \/ \E block, next \in Blocks, ai \in BOOLEAN, id \in {0, 3} :
          input' = [alg |-> "messages",
                    history |-> <<M!Message(ai, id, <<block, next>>), M!Message(TRUE, 4, <<next>>)>>,
                    results |-> <<>>]
    \/ \E shape \in {"records", "other", "text"}, blobs \in BOOLEAN, raises \in BOOLEAN,
          activities \in {<<>>, <<1>>, <<1, 2>>}, refs \in {<<>>, <<1>>, <<1, 2>>}, call \in {1, 2} :
          input' = [alg |-> "messages", history |-> <<>>, raises |-> raises,
                    results |-> <<M!Result(call, [shape |-> shape, activities |-> activities,
                                                  refs |-> refs, blobs |-> blobs]),
                                  M!Result(2, [shape |-> "records", activities |-> <<3, 4>>,
                                               refs |-> <<3>>, blobs |-> TRUE])>>]
-------------------------------------------------------------------------------
Init == input = [alg |-> "none"]
Next == /\ input.alg = "none"
        /\ \/ ScoreCase
           \/ ApplyEdits
           \/ CallTool
           \/ ConsultKnowledge
           \/ SaveSettings
           \/ ProjectCapture
           \/ DeriveVariant
           \/ ShapeMessages
Spec == Init /\ [][Next]_input

\* A case counts as passed only if every epoch earned it (agent_eval/scoring.py, reporter.py,
\* bootstrap/eval_scorers.py).
ScoringIsSound ==
    input.alg = "scoring" => S!PassIsEarned(input.case, input.runs, input.scored)

\* What a validation suite says of a case stays true through pinning and derivation, and
\* what it says of a capture is what the capture shows (capability_validation).
CasesAreFaithful ==
    /\ input.alg = "case" => V!VariantsKeepTruth(input.bundle, input.edited, input.spec)
    /\ input.alg = "audit" => A!EventsExplainCapture(input.lines, input.listed)

\* A tool call of the investigation adds nothing outside the scope to the ledger
\* (boundary_policy.py, investigation_tools.py).
GatewayKeepsScope ==
    input.alg = "gateway" =>
        G!GatewayKeepsScope(input.call, {"a"}, input.answer, input.relations)

\* A consultation of the knowledge service never passes a failure off as a finding of
\* nothing (knowledge/application/capability.py, adapters/routing.py).
GapsAreVisible ==
    input.alg = "knowledge" => K!GapsAreVisible(input.world, input.intent)

\* Programs that rewrite what others wrote change what they name and nothing else: the draft
\* editor, the settings store, the history hygiene and the reducer of tool results.
RewritesAreLocal ==
    /\ input.alg = "draft" => D!EditsStayOnTarget(input.draft, input.edits)
    /\ input.alg = "settings" => C!SavedSettingsApply(input.file, input.config)
    /\ input.alg = "messages" =>
          M!HistoryStaysReadable(input.history, <<11, 12>>, 1, input.results,
                                 "raises" \in DOMAIN input /\ input.raises)
===============================================================================
