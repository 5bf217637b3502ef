----------------------------- MODULE MessageShaping -----------------------------
(***************************************************************************)
(* What the middleware rewrites in single messages: ReducerMiddleware      *)
(* shortens a tool result when it enters the history (brief_result), and   *)
(* HistoryHygieneMiddleware removes streaming leftovers before each model  *)
(* call.                                                                   *)
(*                                                                         *)
(* A block of a message has a streaming leftover and an input.  A tool     *)
(* result is a query result or a timeline ("records"), an object of        *)
(* another shape, or no JSON object ("text").                              *)
(***************************************************************************)
EXTENDS Integers, SequencesExt

CONSTANT Shown   \* activities[:10]

Leftover == {"none", "null", "torn", "payload"}      \* partial_json of the block
Input    == {"absent", "null", "empty", "real"}      \* input (or args) of the block

Block(left, input) == [left |-> left, input |-> input]
NoId == 0

\* A message by the model has blocks; identifiers are positive.
Message(ai, id, blocks) == [ai |-> ai, id |-> id, blocks |-> blocks]

\* Mutant: what the stream left over replaces the input the block has.
CleanBlock_Overwrites(b) ==
    Block("none", IF b.left = "payload" THEN "payload"
                  ELSE IF b.input = "null" THEN "empty" ELSE b.input)

\* _clean_block: a parseable leftover fills an input that is missing or empty; an input
\* of None becomes an empty one.
CleanBlock(b) ==
    Block("none", IF b.left = "payload" /\ b.input # "real" THEN "payload"
                  ELSE IF b.input = "null" THEN "empty" ELSE b.input)

NeedsCleaning(m) ==
    m.ai /\ \E i \in DOMAIN m.blocks : m.blocks[i].left # "none" \/ m.blocks[i].input = "null"

\* before_model: nothing to clean, nothing changes; otherwise the history is written anew,
\* with an identifier, taken from fresh, for every message that lacks one.
BeforeModel(history, fresh) ==
    IF ~\E i \in DOMAIN history : NeedsCleaning(history[i]) THEN history
    ELSE [i \in DOMAIN history |->
            [history[i] EXCEPT
                !.id = IF @ = NoId THEN fresh[i] ELSE @,
                !.blocks = IF NeedsCleaning(history[i])
                           THEN [n \in DOMAIN @ |-> CleanBlock(@[n])] ELSE @]]
-------------------------------------------------------------------------------
\* A tool message: the call it answers, its content and the unreduced content it keeps.
Result(call, content) == [call |-> call, content |-> content, kept |-> {}]
Content == [shape : {"records", "other", "text"}, activities : Seq(Nat), refs : Seq(Nat),
            blobs : BOOLEAN]

FirstOf(s) == SubSeq(s, 1, IF Len(s) < Shown THEN Len(s) ELSE Shown)

\* brief_result: of a list of activities the first ones without their blobs, and every
\* reference; other objects stay as they are.
BriefResult(content) ==
    IF content.shape # "records" THEN content
    ELSE [content EXCEPT !.activities = FirstOf(@), !.blobs = FALSE]

\* _reduce_message: the reducer may raise; the message then passes unchanged.
ReduceMessage(m, raises) ==
    IF m.content.shape = "text" \/ raises \/ BriefResult(m.content) = m.content THEN m
    ELSE [m EXCEPT !.content = BriefResult(@), !.kept = {m.content}]

\* _reduced_result: of the messages a call returns only its own are reduced.
Reduced(call, messages, raises) ==
    [i \in DOMAIN messages |-> IF messages[i].call = call
                               THEN ReduceMessage(messages[i], raises) ELSE messages[i]]
-------------------------------------------------------------------------------
\* No leftover and no None reaches the model again ("one malformed block then crashes the
\* whole run"), the input a call was made with is never replaced, a clean history is passed
\* through and stays as it is, and the messages remain apart by their identifiers.  "The
\* full payload is never lost": a shortened result keeps its full content and every
\* reference the model may cite, and messages of other calls are not touched.
HistoryStaysReadable(history, fresh, call, messages, raises) ==
    LET cleaned == BeforeModel(history, fresh)
        reduced == Reduced(call, messages, raises)
    IN  /\ \A i \in DOMAIN cleaned : ~NeedsCleaning(cleaned[i])
        /\ \A i \in DOMAIN history : \A n \in DOMAIN history[i].blocks :
              history[i].blocks[n].input = "real" => cleaned[i].blocks[n].input = "real"
        /\ \A i \in DOMAIN history : ~history[i].ai => cleaned[i].blocks = history[i].blocks
        /\ BeforeModel(cleaned, fresh) = cleaned
        /\ \A i, j \in DOMAIN cleaned : i # j /\ cleaned # history => cleaned[i].id # cleaned[j].id
        /\ \A i \in DOMAIN messages :
              /\ reduced[i].content.refs = messages[i].content.refs
              /\ \/ reduced[i].content = messages[i].content
                 \/ messages[i].call = call /\ reduced[i].kept = {messages[i].content}
              /\ IsPrefix(reduced[i].content.activities, messages[i].content.activities)
===============================================================================
