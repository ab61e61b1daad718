--------------------------- MODULE Recalculation --------------------------
(***************************************************************************)
(* FormulaImpl::GetValue of cell.cpp, step by step: a formula without a    *)
(* cached value is evaluated node by node, each cell it reads is asked for *)
(* its value in turn, and so on down; an error is thrown from where it     *)
(* occurs to the Evaluate of the formula it occurs in, cached there, and   *)
(* thrown again by the CellExpr that asked.  The Sheet module has the      *)
(* whole as one action, Show, which takes a table of values out of the     *)
(* hat; here is how it is found.                                           *)
(*                                                                         *)
(* A formula is its expression tree in postorder, as in FormulaAST.        *)
(* Nothing but cache changes while the call runs.                          *)
(***************************************************************************)
EXTENDS Sheet, FormulaAST

CONSTANT Layouts      \* the placings of cells the call may start on

\* What the listener builds: its cells are in the table, its numbers are finite.
ProgramToken == {"cell"} \X Pos \cup {"number"} \X (-MaxDouble..MaxDouble)
                    \cup {"unary"} \X {"+", "-"} \cup {"binary"} \X {"+", "-", "*", "/"}

\* How many values are on the stack after each token of program, one at the end: a
\* postorder has such heights.
StackHeights(program) ==
    {height \in [0..Len(program) -> 0..Len(program)] :
        /\ height[0] = 0 /\ height[Len(program)] = 1
        /\ \A i \in 1..Len(program) :
              \/ program[i][1] \in {"cell", "number"} /\ height[i] = height[i-1] + 1
              \/ program[i][1] = "unary" /\ height[i-1] >= 1 /\ height[i] = height[i-1]
              \/ program[i][1] = "binary" /\ height[i-1] >= 2 /\ height[i] = height[i-1] - 1}

\* Formulas are trees that mention the cells they reference, and are evaluated as
\* in FormulaAST; a value is one a formula can have, or a text.
ASSUME ProgramAssumption ==
    /\ FormulaValue \subseteq Value
    /\ \A v \in Value : v \in FormulaValue \/ v[1] = "string"
    /\ \A f \in FormulaText : /\ f \in Seq(ProgramToken)
                             /\ StackHeights(f) # {}
                             /\ FormulaReferencedCells(f) \subseteq RefsOf(f)
                             /\ \A v \in [Pos -> Value] :
                                   /\ Evaluate(f, v) = FormulaEvaluate(f, v)
                                   /\ Reads(f, v) = FormulaReads(f, v)

ASSUME LayoutsAssumption == Layouts \subseteq [Pos -> Addr \cup {Null}]

VARIABLES
    roots,         \* the cells shown: one for GetValue, the area for PrintValues
    todo,          \* those of them not shown yet
    before,        \* history: cache when the call began
    stack,         \* the evaluations under way, the last one innermost
    returned,      \* the call has returned
    evaluations    \* history: how many times each formula was evaluated

table   == <<cells, impl, dependents, print_size, outcome>>
walk    == <<todo, cache, stack, returned, evaluations>>
allVars == <<table, roots, before, walk>>

Program(p) == TextAt(p)

\* The evaluation of the formula at p: tokens done, and what they came to.
Frame(p) == [pos |-> p, done |-> 0, machine |-> Started]

Top == Last(stack)

Token(f) == Program(f.pos)[f.done + 1]

\* Faulty variant: an error thrown does not end the evaluation where it occurs.
IsOverAtEnd(f) == f.done = Len(Program(f.pos))

\* Nothing left to do: the end of the formula, or an error thrown.
IsOver(f) == f.machine.thrown # "none" \/ f.done = Len(Program(f.pos))

\* GetValue of a cell, as CellExpr gets it once it is no more pending.
Shown == [p \in Pos |-> KnownValue(p)]

---------------------------------------------------------------------------
\* The values a formula has over the values its cells may have.
PossibleValues == [f \in FormulaText |-> {Evaluate(f, v) : v \in [Pos -> Value]}]

\* Any table without cycles, with any of the formulas cached: by the value they
\* have, or by another, had before a cell they reach was cleared.
RecalculationInit ==
    /\ cells \in Layouts
    /\ OneOwner = TRUE
    /\ impl \in [Addr -> Text \ BadFormulaText]
    /\ \A a \in Addr \ Live : impl[a] = EmptyText
    /\ ReferencesAcyclic = TRUE
    /\ cache \in {c \in [Addr -> Value \cup {NoValue}] :
                     \A a \in Addr : c[a] # NoValue =>
                        /\ impl[a] \in FormulaText
                        /\ c[a] \in PossibleValues[impl[a]]}
    /\ dependents = [a \in Addr |-> {}]
    /\ print_size = BoundingSize(Occupied)
    /\ outcome = "ok"
    /\ roots \in {{p} : p \in Pos} \cup {PrintArea \cap Occupied}
    /\ todo = roots
    /\ before = cache
    /\ stack = <<>>
    /\ returned = FALSE
    /\ evaluations = [p \in Pos |-> 0]

---------------------------------------------------------------------------
\* Evaluate() of the formula at p begins.
Begin(p) == /\ stack' = Append(stack, Frame(p))
            /\ evaluations' = [evaluations EXCEPT ![p] = @ + 1]
            /\ UNCHANGED <<cache, returned>>

\* Faulty variant: the loop over the cells does not advance.
ShowSame(p) ==
    /\ stack = <<>>
    /\ IsFirst(p, todo)
    /\ UNCHANGED todo
    /\ IF p \in Pending THEN Begin(p) ELSE UNCHANGED <<cache, stack, returned, evaluations>>

\* GetValue of the next cell to show.
ShowNext(p) ==
    /\ stack = <<>>
    /\ IsFirst(p, todo)
    /\ todo' = todo \ {p}
    /\ IF p \in Pending THEN Begin(p) ELSE UNCHANGED <<cache, stack, returned, evaluations>>

\* Faulty variant: the cached value is not looked at.
AskAgain(p) ==
    /\ stack # <<>>
    /\ ~IsOver(Top)
    /\ Token(Top) = <<"cell", p>>
    /\ p \in Occupied /\ TextAt(p) \in FormulaText
    /\ Begin(p)
    /\ UNCHANGED todo

\* CellExpr asks a formula that has no value yet.
Ask(p) ==
    /\ stack # <<>>
    /\ ~IsOver(Top)
    /\ Token(Top) = <<"cell", p>>
    /\ p \in Pending
    /\ Begin(p)
    /\ UNCHANGED todo

\* Any other node, or CellExpr once the value is there.
EvaluateNode ==
    /\ stack # <<>>
    /\ ~IsOver(Top)
    /\ ~(Token(Top)[1] = "cell" /\ Token(Top)[2] \in Pending)
    /\ stack' = [stack EXCEPT ![Len(stack)] =
                    [pos |-> @.pos, done |-> @.done + 1,
                     machine |-> EvaluateToken(@.machine, Token(@), Shown)]]
    /\ UNCHANGED <<todo, cache, returned, evaluations>>

Result(m) == IF m.thrown = "none" THEN Double(Last(m.stack)) ELSE FormulaError(m.thrown)

\* Faulty variant: values are cached, errors are not.
ErrorNotCached(f) == IF f.machine.thrown = "none" THEN Result(f.machine) ELSE NoValue

\* What cache_ is set to when the evaluation is over.
Cached(f) == Result(f.machine)

\* Evaluate() ends, by a value or by catching an error; the result is cached.
Finish ==
    /\ stack # <<>>
    /\ IsOver(Top)
    /\ cache' = [cache EXCEPT ![cells[Top.pos]] = Cached(Top)]
    /\ stack' = Front(stack)
    /\ UNCHANGED <<todo, returned, evaluations>>

Return == /\ stack = <<>>
          /\ todo = {}
          /\ returned' = TRUE
          /\ UNCHANGED <<todo, cache, stack, evaluations>>

Step == /\ ~returned
        /\ \/ \E p \in Pos : ShowNext(p) \/ Ask(p)
           \/ EvaluateNode
           \/ Finish
           \/ Return
        /\ UNCHANGED <<table, roots, before>>

RecalculationSpec == RecalculationInit /\ [][Step]_allVars

\* The thread that runs the call keeps running.
FairRecalculationSpec == RecalculationSpec /\ WF_allVars(Step)

---------------------------------------------------------------------------
(***************************************************************************)
(* Properties.                                                             *)
(***************************************************************************)

\* The table as it was while the call ran, and as it is once it has returned.
Table == INSTANCE Sheet WITH cache <- IF returned THEN cache ELSE before

\* The whole call does what Show says: each pending formula that is asked, and no
\* other, gets the value it has over the values of all the others.
ImplementsShow == [][Table!Show(roots)]_(Table!vars)

\* The types; and each evaluation under way but the first was begun by the one
\* before it, which waits at the node that asked.
RecalculationTypeOK ==
    /\ todo \subseteq roots
    /\ cache \in [Addr -> Value \cup {NoValue}]
    /\ \A i \in DOMAIN stack : stack[i].pos \in Pending
    /\ \A i \in 1..Len(stack) - 1 : Token(stack[i]) = <<"cell", stack[i+1].pos>>
    /\ returned => stack = <<>> /\ todo = {}

\* However many formulas read it, and through however many ways, a formula is
\* evaluated at most once in a call, and only if it had no value.
EvaluatedOnce ==
    \A p \in Pos : evaluations[p] <= IF p \in Occupied /\ before[cells[p]] = NoValue THEN 1 ELSE 0

\* The call ends.
RecalculationEnds == <>returned
===========================================================================
