------------------------------ MODULE DraftEditor ------------------------------
(***************************************************************************)
(* apply_edits: the targeted repair of a structured draft, as the planner  *)
(* uses it when a proposal fails its schema.  A draft is an object with    *)
(* some fields and one list; an edit names a field, a position of the list *)
(* (negative ones count from its end, except for an insertion), or         *)
(* something inside a scalar, which nothing can be.                        *)
(***************************************************************************)
EXTENDS Integers, SequencesExt

CONSTANTS Fields, Values, Inside   \* Inside: a path into a scalar

Null == "null"   \* no anchor; also a value a draft can hold

Draft(S) == [fields : UNION {[D -> Values] : D \in SUBSET Fields}, list : S]
Edit(I)  == [op : {"set", "insert", "remove"}, target : Fields \cup I \cup {Inside},
             anchor : Values, value : Values]

IsField(edit)    == edit.target \in Fields
InRange(i, list) == -Len(list) <= i /\ i < Len(list)
Position(i, list) == IF i < 0 THEN Len(list) + i + 1 ELSE i + 1

\* The value an edit quotes is the current one.
Quotes(edit, current) == edit.anchor = Null \/ edit.anchor = current
-------------------------------------------------------------------------------
\* Mutant: a field that exists is overwritten without being quoted.
FieldSettable_Unquoted(draft, edit) ==
    edit.target \in DOMAIN draft.fields => Quotes(edit, draft.fields[edit.target])

\* A field is set when it is absent and nothing is quoted, or present and quoted.
FieldSettable(draft, edit) ==
    IF edit.anchor = Null
    THEN edit.target \notin DOMAIN draft.fields
    ELSE /\ edit.target \in DOMAIN draft.fields
         /\ draft.fields[edit.target] = edit.anchor

\* What apply_edits checks before each of the three operations; a null anchor in a list
\* is no check at all.
Accepted(draft, edit) ==
    /\ edit.target # Inside
    /\ IF IsField(edit)
       THEN \/ edit.op = "set" /\ FieldSettable(draft, edit)
            \/ /\ edit.op = "remove"
               /\ edit.target \in DOMAIN draft.fields
               /\ Quotes(edit, draft.fields[edit.target])
       ELSE \/ edit.op = "insert" /\ edit.target \in 0..Len(draft.list)
            \/ /\ edit.op # "insert"
               /\ InRange(edit.target, draft.list)
               /\ Quotes(edit, draft.list[Position(edit.target, draft.list)])

Applied(draft, edit) ==
    IF IsField(edit)
    THEN [draft EXCEPT !.fields =
            IF edit.op = "set"
            THEN [f \in DOMAIN @ \cup {edit.target} |-> IF f = edit.target THEN edit.value ELSE @[f]]
            ELSE [f \in DOMAIN @ \ {edit.target} |-> @[f]]]
    ELSE [draft EXCEPT !.list =
            IF edit.op = "insert"
            THEN InsertAt(@, edit.target + 1, edit.value)
            ELSE IF edit.op = "set"
            THEN ReplaceAt(@, Position(edit.target, @), edit.value)
            ELSE RemoveAt(@, Position(edit.target, @))]

\* A rejected edit is recorded and the next one goes on from the same draft.
ApplyEdit(result, edit) ==
    IF Accepted(result.draft, edit)
    THEN [draft |-> Applied(result.draft, edit), verdicts |-> Append(result.verdicts, TRUE)]
    ELSE [result EXCEPT !.verdicts = Append(@, FALSE)]

ApplyEdits(draft, edits) ==
    LET upTo[i \in 0..Len(edits)] == IF i = 0 THEN [draft |-> draft, verdicts |-> <<>>]
                                     ELSE ApplyEdit(upTo[i - 1], edits[i])
    IN  upTo[Len(edits)]
-------------------------------------------------------------------------------
\* "errors, not guesses" and "only explicitly targeted values change; every other field is
\* carried over untouched" (draft_editor.py), over a whole batch: a field no edit names is
\* as before; a field that was there is only changed or removed if an edit quoted the value
\* it had or removed it; the list grows and shrinks by the accepted insertions and removals.
EditsStayOnTarget(draft, edits) ==
    LET result == ApplyEdits(draft, edits)
        after  == result.draft
        Count(op) == Cardinality({i \in DOMAIN edits : /\ result.verdicts[i]
                                                       /\ edits[i].op = op
                                                       /\ ~IsField(edits[i])})
    IN  /\ \A f \in Fields \ {edits[i].target : i \in DOMAIN edits} :
              /\ f \in DOMAIN draft.fields <=> f \in DOMAIN after.fields
              /\ f \in DOMAIN draft.fields => after.fields[f] = draft.fields[f]
        /\ \A f \in DOMAIN draft.fields :
              \/ f \in DOMAIN after.fields /\ after.fields[f] = draft.fields[f]
              \/ \E i \in DOMAIN edits :
                    /\ result.verdicts[i]
                    /\ edits[i].target = f
                    /\ edits[i].op = "remove" \/ edits[i].anchor = draft.fields[f]
        /\ Len(after.list) = Len(draft.list) + Count("insert") - Count("remove")
===============================================================================
