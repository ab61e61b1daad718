-------------------------- MODULE SheetContract ---------------------------
(***************************************************************************)
(* What SheetInterface promises its callers, with no cells, no caches and  *)
(* no dependents: a table of texts, and at every moment a table of values  *)
(* in which each formula is evaluated over the values next to it.          *)
(***************************************************************************)
EXTENDS SheetTypes, Reachability

VARIABLES
    content,   \* the text at every position, "" where nothing was set
    display,   \* what GetValue shows, or would show, at every position
    outcome,   \* "ok", or the exception the last call threw
    refused    \* the arguments of the last call if it threw, else <<>>

vars == <<content, display, outcome, refused>>

\* The tables of values that belong to the texts c: there is one, where the
\* formulas of c form no cycle.
Displays(c) == {v \in [Pos -> Value] : \A p \in Pos : v[p] = Computed(c[p], v)}

\* Writing text at pos closes a cycle of references in the texts c.
Closes(c, pos, text) ==
    ~IsAcyclic([p \in Pos |-> Refs(IF p = pos THEN text ELSE c[p])])

Throw(exception, arguments) == /\ outcome' = exception
                               /\ refused' = arguments
                               /\ UNCHANGED <<content, display>>

Write(pos, text) == /\ outcome' = "ok"
                    /\ refused' = <<>>
                    /\ content' = [content EXCEPT ![pos] = text]
                    /\ display' \in Displays(content')

Init == /\ content = [p \in Pos |-> EmptyText]
        /\ display \in Displays(content)
        /\ outcome = "ok"
        /\ refused = <<>>

SetCell(pos, text) ==
    \/ Throw("FormulaException", <<pos, text>>) /\ text \in BadFormulaText
    \/ /\ Throw("CircularDependencyException", <<pos, text>>)
       /\ text \notin BadFormulaText
       /\ Closes(content, pos, text)
    \/ /\ Write(pos, text)
       /\ text \notin BadFormulaText
       /\ ~Closes(content, pos, text)

ClearCell(pos) == Write(pos, EmptyText)

\* GetCell, GetValue and the printing of the table change nothing to see.
Look == outcome' = "ok" /\ refused' = <<>> /\ UNCHANGED <<content, display>>

Next == \/ Look
        \/ \E pos \in ArgPos :
              \/ ~IsValid(pos) /\ Throw("InvalidPositionException", <<pos>>)
              \/ IsValid(pos) /\ ClearCell(pos)
              \/ IsValid(pos) /\ \E text \in Text : SetCell(pos, text)

Spec == Init /\ [][Next]_vars
===========================================================================
