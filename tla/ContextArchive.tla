--------------------------- MODULE ContextArchive ------------------------------
(***************************************************************************)
(* ArchiveMiddleware and the MemoryStore of one investigation.  The model  *)
(* may call archive_context: the call stores a completed stretch of the    *)
(* history under a handle and leaves a directive; before the next model    *)
(* call the directives remove the stretch from the history and put a card  *)
(* with the handle in its place.  The archive calls of one model answer    *)
(* run in threads of their own, over the history the step started with and *)
(* one shared store.                                                       *)
(*                                                                         *)
(* A round (an AI message and its tool messages) is one item of the        *)
(* history; its number stands for the record identifiers it produced.  The *)
(* SummarizationMiddleware, which runs before the rewrite, is external: it *)
(* replaces a prefix of the history by a summary that is no round.         *)
(***************************************************************************)
EXTENDS Integers, FiniteSets, SequencesExt

CONSTANTS
    Width,         \* archive calls one model answer may contain
    MinSpan,       \* min_span_rounds
    MaxRounds,     \* bound: model calls
    MaxSummaries   \* bound: summarizations

ASSUME ArchiveAssumption ==
    /\ {Width, MinSpan} \subseteq Nat \ {0}
    /\ {MaxRounds, MaxSummaries} \subseteq Nat

VARIABLES
    phase,           \* the hook the agent is in
    round,           \* model calls so far: the number of the newest round
    history,         \* the messages: rounds and cards
    roundsArchived,  \* archive_ledger.rounds_archived
    archived,        \* archive_ledger.archived_message_ids
    pending,         \* archive_pending
    blocks,          \* MemoryStore._blocks: blocks[k] is what arc-k holds
    index,           \* MemoryStore._index: the rounds whose records it addresses
    call,            \* call[c]: archive call c of the step
    lost,            \* rounds a summary has replaced, themselves or their card
    summaries        \* summarizations so far

context == <<history, roundsArchived, pending>>
store   == <<blocks, index>>
vars    == <<phase, round, history, roundsArchived, archived, pending, blocks, index, call,
             lost, summaries>>

Calls  == 1..Width
Rounds == 1..MaxRounds

\* A round carries its marker, a card its handle.
Item      == [kind : {"round", "card"}, rounds : SUBSET Rounds, tag : Nat]
Directive == [handle : Nat, span : SUBSET Rounds]
Call      == [pc : {"idle", "span", "store", "end"}, from : Nat, handle : Nat, span : SUBSET Rounds]

NoCall == [pc |-> "idle", from |-> 0, handle |-> 0, span |-> {}]

\* The items of a sequence at some of its places, in their order.
Only(s, P) == [k \in 1..Cardinality(P) |-> s[CHOOSE p \in P : Cardinality({q \in P : q <= p}) = k]]

IsRound(item) == item.kind = "round"
LiveAt        == {i \in DOMAIN history : IsRound(history[i])}
RoundsAt(P)   == UNION {history[i].rounds : i \in P}
LiveRounds    == RoundsAt(LiveAt)
Carded        == RoundsAt(DOMAIN history \ LiveAt)
-------------------------------------------------------------------------------
Init ==
    /\ phase = "summary"
    /\ round = 0
    /\ history = <<>>
    /\ roundsArchived = 0
    /\ archived = {}
    /\ pending = <<>>
    /\ blocks = <<>>
    /\ index = {}
    /\ call = [c \in Calls |-> NoCall]
    /\ lost = {}
    /\ summaries = 0

\* SummarizationMiddleware.before_model, above its token limit: the newest messages stay.
Summarize ==
    /\ phase = "summary"
    /\ summaries < MaxSummaries
    /\ \E k \in 1..(Len(history) - 1) :
          /\ history' = SubSeq(history, k + 1, Len(history))
          /\ lost' = lost \cup RoundsAt(1..k)
    /\ summaries' = summaries + 1
    /\ phase' = "rewrite"
    /\ UNCHANGED <<round, roundsArchived, archived, pending, store, call>>

NoSummary ==
    /\ phase = "summary"
    /\ phase' = "rewrite"
    /\ UNCHANGED <<round, context, archived, store, call, lost, summaries>>

\* Mutant: the span goes, no card comes.
ApplyDirective_NoCard(acc, d) ==
    LET h    == acc.history
        gone == {i \in DOMAIN h : IsRound(h[i]) /\ h[i].rounds \subseteq d.span}
    IN  IF gone = {} THEN acc
        ELSE [history |-> Only(h, DOMAIN h \ gone), removed |-> acc.removed + Cardinality(d.span)]

\* _apply_directive: drop the span's messages, put the card after the last of them; a
\* directive that finds none of its messages leaves the history as it is.
ApplyDirective(acc, d) ==
    LET h    == acc.history
        gone == {i \in DOMAIN h : IsRound(h[i]) /\ h[i].rounds \subseteq d.span}
        last == Max(gone)
        card == [kind |-> "card", rounds |-> d.span, tag |-> d.handle]
    IN  IF gone = {} THEN acc
        ELSE [history |-> Only(h, 1..last \ gone) \o <<card>> \o SubSeq(h, last + 1, Len(h)),
              removed |-> acc.removed + Cardinality(d.span)]

\* The directives one after the other.
Rebuild(start, directives) ==
    LET done[i \in 0..Len(directives)] ==
            IF i = 0 THEN start ELSE ApplyDirective(done[i - 1], directives[i])
    IN  done[Len(directives)]

\* ArchiveMiddleware.before_model: the pending directives in order.
Rewrite ==
    /\ phase = "rewrite"
    /\ LET rebuilt == Rebuild([history |-> history, removed |-> 0], pending)
       IN  /\ history' = rebuilt.history
           /\ roundsArchived' = roundsArchived + rebuilt.removed
    /\ pending' = <<>>
    /\ phase' = "model"
    /\ UNCHANGED <<round, archived, store, call, lost, summaries>>

\* The model answers; after_model marks the new round with the archived and the live
\* rounds.  The archive calls of the answer name a marker to start from; a number that
\* is no marker of a completed round (here 0) stands for the whole history.
ModelCall ==
    /\ phase = "model"
    /\ round < MaxRounds
    /\ round' = round + 1
    /\ LET mark == roundsArchived + Cardinality(LiveAt) + 1
       IN  history' = Append(history, [kind |-> "round", rounds |-> {round'}, tag |-> mark])
    /\ \E C \in SUBSET Calls :
          \E from \in [C -> {0} \cup {history[i].tag : i \in LiveAt}] :
             call' = [c \in Calls |->
                        IF c \in C THEN [NoCall EXCEPT !.pc = "span", !.from = from[c]] ELSE NoCall]
    /\ phase' = "tools"
    /\ UNCHANGED <<roundsArchived, archived, pending, store, lost, summaries>>

\* No more tool calls, the budget is exhausted, or the model raises.
AgentEnds ==
    /\ phase = "model"
    /\ phase' = "over"
    /\ UNCHANGED <<round, context, archived, store, call, lost, summaries>>
-------------------------------------------------------------------------------
\* The rounds before the one with the archive call.
Completed == LiveAt \ {Max(LiveAt)}

\* The span of a call: from the first completed round with the marker it names.
Span(from) ==
    LET start == {i \in Completed : history[i].tag = from}
    IN  RoundsAt({i \in Completed : start = {} \/ \E first \in start : first <= i})

\* The span is too short or too small, or has been archived before.
ArchiveRefused(c) ==
    /\ phase = "tools"
    /\ call[c].pc = "span"
    /\ call' = [call EXCEPT ![c] = [NoCall EXCEPT !.pc = "end"]]
    /\ UNCHANGED <<phase, round, context, archived, store, lost, summaries>>

\* record_archive reads the number of blocks for its handle ...
ArchiveBegins(c) ==
    /\ phase = "tools"
    /\ call[c].pc = "span"
    /\ Cardinality(Span(call[c].from)) >= MinSpan
    /\ Span(call[c].from) \cap archived = {}
    /\ call' = [call EXCEPT ![c].pc = "store", ![c].handle = Len(blocks) + 1,
                            ![c].span = Span(call[c].from)]
    /\ UNCHANGED <<phase, round, context, archived, store, lost, summaries>>

\* ... and writes the block under it, over whatever another thread has put there, then
\* the addresses that are new.
ArchiveStores(c) ==
    /\ phase = "tools"
    /\ call[c].pc = "store"
    /\ blocks' = IF call[c].handle > Len(blocks)
                 THEN Append(blocks, call[c].span)
                 ELSE [blocks EXCEPT ![call[c].handle] = call[c].span]
    /\ index' = index \cup call[c].span
    /\ call' = [call EXCEPT ![c].pc = "end"]
    /\ UNCHANGED <<phase, round, context, archived, lost, summaries>>

\* Mutant: the reducer keeps the directive of the last call of a step.
Directives_LastOnly ==
    LET stored == {c \in Calls : call[c].span # {}}
    IN  IF stored = {} THEN <<>>
        ELSE <<[handle |-> call[Max(stored)].handle, span |-> call[Max(stored)].span]>>

\* What the calls of the step leave in the state: directives in the order of the calls.
Directives ==
    Only([c \in Calls |-> [handle |-> call[c].handle, span |-> call[c].span]],
         {c \in Calls : call[c].span # {}})

StepEnds ==
    /\ phase = "tools"
    /\ \A c \in Calls : call[c].pc \in {"idle", "end"}
    /\ pending' = pending \o Directives
    /\ archived' = archived \cup UNION {call[c].span : c \in Calls}
    /\ call' = [c \in Calls |-> NoCall]
    /\ phase' = "summary"
    /\ UNCHANGED <<round, history, roundsArchived, store, lost, summaries>>

Over == phase = "over" /\ UNCHANGED vars

Next ==
    \/ Summarize
    \/ NoSummary
    \/ Rewrite
    \/ ModelCall
    \/ AgentEnds
    \/ \E c \in Calls : ArchiveRefused(c) \/ ArchiveBegins(c) \/ ArchiveStores(c)
    \/ StepEnds
    \/ Over

Spec == Init /\ [][Next]_vars
-------------------------------------------------------------------------------
\* The handles the model can see or is about to see.
Handles == {history[i].tag : i \in {j \in DOMAIN history : ~IsRound(history[j])}}
               \cup {pending[i].handle : i \in DOMAIN pending}

TypeOK ==
    /\ phase \in {"summary", "rewrite", "model", "tools", "over"}
    /\ round \in 0..MaxRounds
    /\ history \in Seq(Item)
    /\ roundsArchived \in Nat
    /\ archived \subseteq Rounds
    /\ pending \in Seq(Directive)
    /\ blocks \in Seq(SUBSET Rounds)
    /\ Handles \subseteq DOMAIN blocks
    /\ index \subseteq Rounds
    /\ call \in [Calls -> Call]
    /\ lost \subseteq Rounds
    /\ summaries \in 0..MaxSummaries

\* The model is never left without a trace of a round: it is in the history, or a card in
\* the history lists it, or a summary replaced it, however the spans of the directives
\* of a step overlap and whatever a summary removed before the rewrite.
RemovedLeavesCard == 1..round \subseteq LiveRounds \cup Carded \cup lost

\* "already-archived intervals are never rewritten again": when the model is asked, no
\* round it archived is in the history, so no later span can hold it (_append_pending
\* keeps the directives of all calls of a step, before_model applies them all).
ArchivedStaysGone == phase \in {"model", "tools"} => LiveRounds \cap archived = {}

\* "giving from_round an objective anchor that survives archives (marker numbers are global
\* to the run)" (archive.py): no two rounds in the history carry the same marker.
\* The code does not keep this; no run checks it.
MarkersAreAnchors ==
    \A i, j \in LiveAt : i # j => history[i].tag # history[j].tag
===============================================================================
