---------------------------- MODULE SetCellSteps ---------------------------
(***************************************************************************)
(* SetCell of sheet.cpp, step by step, with its two recursions: the walk   *)
(* has_cycle over the references of the references of a formula, and       *)
(* Cell::InvalidateCache over dependents_.  The Sheet module has the whole *)
(* call as one action, with what the walks reach as operators; here are    *)
(* their calls, the stack, the set visited that holds the cells on the     *)
(* way, and the order in which the table is changed.                       *)
(***************************************************************************)
EXTENDS Sheet, Sequences, SequencesExt

CONSTANTS
    Layouts,      \* the placings of cells the call may start on
    WrongLinks,   \* the sets of links in which dependents_ may be wrong then
    StackDepth    \* bound: the calls of InvalidateCache that fit on the stack

\* A stack on which a call for every cell of the table does not fit can
\* overflow without a cycle; it is not what this module is about.
ASSUME StackAssumption == /\ IsFiniteSet(Addr)
                          /\ StackDepth \in Nat /\ StackDepth >= Cardinality(Addr)

ASSUME LayoutsAssumption == Layouts \subseteq [Pos -> Addr \cup {Null}]

VARIABLES
    target, text,    \* pos and text, the arguments of the call
    before,          \* history: the table when the call was made
    step,            \* what the call does next
    starts,          \* the references of the formula not yet walked from
    stack,           \* the calls of the walk under way, the last one innermost
    visited,         \* visited, of the cycle check
    old_refs,        \* old_refs
    calls            \* history: how many calls the walk has made

call    == <<target, text, before>>
locals  == <<starts, stack, visited, old_refs, calls>>
allVars == <<vars, call, step, locals>>

now == [cells |-> cells, impl |-> impl, cache |-> cache,
        dependents |-> dependents, print_size |-> print_size]

Top == Last(stack)

\* Faulty variant: the loop ends after its first round.
AdvancedToEnd(x) == [stack EXCEPT ![Len(stack)] = [cell |-> @.cell, todo |-> {}]]

\* The stack once the innermost call has come to x in its loop.
Advanced(x) == [stack EXCEPT ![Len(stack)] = [cell |-> @.cell, todo |-> @.todo \ {x}]]

---------------------------------------------------------------------------
(***************************************************************************)
(* The tables a call may meet.  References are acyclic; which formulas     *)
(* have a value cached, and what value, is open.  dependents_ is the       *)
(* mirror of the references but for what ClearCell has left behind or      *)
(* taken away: links to freed blocks; to cells that have since taken the   *)
(* block of a cleared formula; or missing, where the cell referenced was   *)
(* cleared and is there again.  Several calls of it may leave any set of   *)
(* links wrong; SUBSET (Addr \X Addr) as WrongLinks has them all.  ("=     *)
(* TRUE" makes TLC test a predicate and not branch on its quantifiers.)    *)
(***************************************************************************)
Mirror == [a \in Addr |-> {cells[q] : q \in {q \in Occupied :
                              \E p \in References[q] : cells[p] = a}}]

\* The mirror, with the links in wrong too many or too few.
MirrorBut(wrong) ==
    [a \in Addr |-> {b \in Addr : a \in Live /\ (b \in Mirror[a]) # (<<a, b>> \in wrong)}]

StepsInit ==
    /\ cells \in Layouts
    /\ OneOwner = TRUE
    /\ impl \in [Addr -> Text \ BadFormulaText]
    /\ \A a \in Addr \ Live : impl[a] = EmptyText
    /\ ReferencesAcyclic = TRUE
    /\ dependents \in {MirrorBut(wrong) : wrong \in WrongLinks}
    /\ cache \in [Addr -> Value \cup {NoValue}]
    /\ \A a \in Addr : cache[a] # NoValue => impl[a] \in FormulaText
    /\ print_size = BoundingSize(Occupied)
    /\ outcome = "ok"
    /\ target \in ArgPos
    /\ text \in Text
    /\ before = now
    /\ step = "parse"
    /\ starts = {} /\ stack = <<>> /\ visited = {} /\ old_refs = {} /\ calls = 0

---------------------------------------------------------------------------
(***************************************************************************)
(* Checks, before any change.                                              *)
(***************************************************************************)
Refuse(exception) == /\ step' = "returned"
                     /\ outcome' = exception
                     /\ UNCHANGED <<cells, impl, cache, dependents, print_size, locals>>

\* The position, the syntax and the self-reference.  A text that is no formula
\* has no references to check.
Parse ==
    /\ step = "parse"
    /\ \/ /\ ~IsValid(target)
          /\ Refuse("InvalidPositionException")
       \/ /\ IsValid(target)
          /\ text \in BadFormulaText
          /\ Refuse("FormulaException")
       \/ /\ IsValid(target)
          /\ CheckSelfReference(Refs(text), target)
          /\ Refuse("CircularDependencyException")
       \/ /\ IsValid(target)
          /\ text \notin BadFormulaText
          /\ ~CheckSelfReference(Refs(text), target)
          /\ step' = "check"
          /\ starts' = Refs(text)
          /\ UNCHANGED <<vars, stack, visited, old_refs, calls>>

\* has_cycle(a) called by the calls of below, with left to walk from afterwards.
\* A cell already on the way is a cycle: every call returns true, and the check
\* throws.
HasCycle(a, below, left) ==
    IF a \in visited
    THEN Refuse("CircularDependencyException")
    ELSE /\ stack' = Append(below, [cell |-> a, todo |-> Refs(impl[a])])
         /\ visited' = visited \cup {a}
         /\ starts' = left
         /\ calls' = calls + 1
         /\ UNCHANGED <<vars, step, old_refs>>

\* The outer loop of CheckCircularDependency, over the references of the formula.
StartFrom(p) ==
    /\ step = "check"
    /\ stack = <<>>
    /\ IsFirst(p, starts)
    /\ \/ /\ cells[p] = Null
          /\ starts' = starts \ {p}
          /\ UNCHANGED <<vars, step, stack, visited, old_refs, calls>>
       \/ /\ cells[p] # Null
          /\ HasCycle(cells[p], stack, starts \ {p})

\* Faulty variant: the loop does not get past a position without a cell.
FollowStuck(dep) ==
    /\ step = "check"
    /\ stack # <<>>
    /\ IsFirst(dep, Top.todo)
    /\ \/ /\ dep = target
          /\ Refuse("CircularDependencyException")
       \/ /\ dep # target
          /\ cells[dep] # Null
          /\ HasCycle(cells[dep], Advanced(dep), starts)

\* The loop of has_cycle.
Follow(dep) ==
    /\ step = "check"
    /\ stack # <<>>
    /\ IsFirst(dep, Top.todo)
    /\ \/ /\ dep = target
          /\ Refuse("CircularDependencyException")
       \/ /\ dep # target
          /\ cells[dep] = Null
          /\ stack' = Advanced(dep)
          /\ UNCHANGED <<vars, step, starts, visited, old_refs, calls>>
       \/ /\ dep # target
          /\ cells[dep] # Null
          /\ HasCycle(cells[dep], Advanced(dep), starts)

\* Faulty variant: has_cycle does not forget the cell.
ReturnRemembering ==
    /\ step = "check"
    /\ stack # <<>>
    /\ Top.todo = {}
    /\ stack' = Front(stack)
    /\ UNCHANGED <<vars, step, starts, visited, old_refs, calls>>

\* has_cycle returns false and forgets the cell.
ReturnFalse ==
    /\ step = "check"
    /\ stack # <<>>
    /\ Top.todo = {}
    /\ visited' = visited \ {Top.cell}
    /\ stack' = Front(stack)
    /\ UNCHANGED <<vars, step, starts, old_refs, calls>>

Accept == /\ step = "check"
          /\ stack = <<>>
          /\ starts = {}
          /\ step' = "create"
          /\ UNCHANGED <<vars, locals>>

---------------------------------------------------------------------------
(***************************************************************************)
(* The change.                                                             *)
(***************************************************************************)
\* GetOrCreateCell, the reading of old_refs, and EnsureCellsExist.
CreateCells ==
    /\ step = "create"
    /\ step' = "set"
    /\ old_refs' = References[target]
    /\ \E fresh \in Injection(Created(target, Refs(text)), Addr \ Live) :
          /\ cells' = CellsWith(fresh)
          /\ dependents' = DependentsWith(fresh)
          /\ impl' = [a \in Addr |-> IF a \in Allocated(fresh) THEN EmptyText ELSE impl[a]]
          /\ cache' = [a \in Addr |-> IF a \in Allocated(fresh) THEN NoValue ELSE cache[a]]
    /\ UNCHANGED <<print_size, outcome, starts, stack, visited, calls>>

\* Cell::Set: a new impl_, with an empty cache_ if it is a formula.
SetImpl ==
    /\ step = "set"
    /\ step' = "relink"
    /\ impl' = [impl EXCEPT ![cells[target]] = text]
    /\ cache' = [cache EXCEPT ![cells[target]] = NoValue]
    /\ UNCHANGED <<cells, dependents, print_size, outcome, locals>>

\* UpdateDependencies; the next walk starts to count its calls.
Relink ==
    /\ step = "relink"
    /\ step' = "invalidate"
    /\ dependents' = UpdatedDependencies(cells, dependents, target, old_refs, Refs(text))
    /\ calls' = 0
    /\ UNCHANGED <<cells, impl, cache, print_size, outcome, starts, stack, visited, old_refs>>

\* The end of the process.
CrashWith(crash) == /\ step' = "returned"
                    /\ outcome' = crash
                    /\ UNCHANGED <<cells, impl, cache, dependents, print_size, locals>>

\* InvalidateCache(a) called by the calls of below: a destroyed cell, no room on
\* the stack, or the reset of its cache_ and the loop over its dependents_.
InvalidateCache(a, below) ==
    \/ /\ a \notin Live
       /\ CrashWith("use_after_free")
    \/ /\ a \in Live
       /\ Len(below) = StackDepth
       /\ CrashWith("stack_overflow")
    \/ /\ a \in Live
       /\ Len(below) < StackDepth
       /\ step' = "unwind"
       /\ cache' = [cache EXCEPT ![a] = NoValue]
       /\ stack' = Append(below, [cell |-> a, todo |-> dependents[a]])
       /\ calls' = calls + 1
       /\ UNCHANGED <<cells, impl, dependents, print_size, outcome, starts, visited, old_refs>>

BeginInvalidation == step = "invalidate" /\ InvalidateCache(cells[target], <<>>)

\* Faulty variant: only the dependents that have a value cached, on the grounds
\* that the others' dependents cannot have one.
DescendIfCached(a) ==
    /\ step = "unwind"
    /\ stack # <<>>
    /\ a \in Top.todo
    /\ IF a \in Live /\ cache[a] = NoValue
       THEN stack' = Advanced(a) /\ UNCHANGED <<vars, step, starts, visited, old_refs, calls>>
       ELSE InvalidateCache(a, Advanced(a))

\* The loop goes over an unordered_set, in an order of its own.
Descend(a) ==
    /\ step = "unwind"
    /\ stack # <<>>
    /\ a \in Top.todo
    /\ InvalidateCache(a, Advanced(a))

ReturnInvalidated ==
    /\ step = "unwind"
    /\ stack # <<>>
    /\ Top.todo = {}
    /\ stack' = Front(stack)
    /\ UNCHANGED <<vars, step, starts, visited, old_refs, calls>>

\* UpdatePrintSize, and the end of the call.
Resize == /\ step = "unwind"
          /\ stack = <<>>
          /\ print_size' = BoundingSize(Occupied)
          /\ outcome' = "ok"
          /\ step' = "returned"
          /\ UNCHANGED <<cells, impl, cache, dependents, locals>>

Step == /\ \/ Parse
           \/ \E p \in Pos : StartFrom(p) \/ Follow(p)
           \/ ReturnFalse \/ Accept
           \/ CreateCells \/ SetImpl \/ Relink
           \/ BeginInvalidation \/ ReturnInvalidated \/ \E a \in Addr : Descend(a)
           \/ Resize
        /\ UNCHANGED call

StepsSpec == StepsInit /\ [][Step]_allVars

\* The thread that runs the call keeps running.
FairStepsSpec == StepsSpec /\ WF_allVars(Step)

---------------------------------------------------------------------------
(***************************************************************************)
(* Properties.                                                             *)
(***************************************************************************)

\* What the caller sees: the table before the call, and the table after it if it
\* returned at all.
Seen == IF step = "returned" /\ Running THEN now ELSE before

Table == INSTANCE Sheet WITH
             cells <- Seen.cells, impl <- Seen.impl, cache <- Seen.cache,
             dependents <- Seen.dependents, print_size <- Seen.print_size

\* All the steps of a call together do what the Sheet module has it do in one: the
\* check gives the answer IsCircular whatever the order of the walk, a refused call
\* leaves no trace, exactly the caches of InvalidatedFrom are reset, and the call
\* crashes only for the reasons given there.
ImplementsSetCell ==
    [][Table!RejectPosition(target) \/ Table!SetCell(target, text)]_(Table!vars)

\* The calls of a walk: visited holds the cells of those under way, no more, so
\* that a cell met twice on two ways is no cycle; each call but the first was made
\* by the one before it, and no walk is under way outside its step.
WalkTypeOK ==
    /\ step \in {"parse", "check", "create", "set", "relink", "invalidate", "unwind", "returned"}
    /\ old_refs \in SUBSET Pos /\ starts \in SUBSET Pos
    /\ step = "check" =>
          /\ visited = {stack[i].cell : i \in DOMAIN stack}
          /\ \A i, j \in DOMAIN stack : stack[i].cell = stack[j].cell => i = j
          /\ \A i \in 1..Len(stack) - 1 :
                \E p \in Refs(impl[stack[i].cell]) : cells[p] = stack[i+1].cell
    /\ step = "unwind" =>
          /\ Len(stack) <= StackDepth
          /\ \A i \in 1..Len(stack) - 1 : stack[i+1].cell \in dependents[stack[i].cell]
    /\ step \in {"create", "set", "relink", "invalidate"} => stack = <<>> /\ visited = {}

\* What w gives for the members of S, added up.
Total(w, S) == MapThenSumSet(LAMBDA x : w[x], S)

\* The ways from p along references over cells that exist, p alone included.
WaysUp[p \in Pos] == IF cells[p] = Null THEN 0 ELSE 1 + Total(WaysUp, References[p])

\* The ways from a along dependents_, a alone included, for the cells that the walk
\* comes to.
WaysDown[a \in InvalidatedFrom(cells[target], dependents)] == 1 + Total(WaysDown, dependents[a])

\* A walk makes one call for every way from where it starts, not for every cell: no
\* cell is remembered once a call on it has returned.  On a ladder of formulas that
\* reference the two cells of the next rung, this doubles with each rung.
OneCallPerWay ==
    /\ step = "create" => calls = Total(WaysUp, Refs(text))
    /\ (step = "unwind" /\ stack = <<>>) => calls = WaysDown[cells[target]]

\* The call ends: by an exception, a crash or a return.  Since a crash needs the
\* reason ImplementsSetCell asks for, it returns wherever it can.
SetCellEnds == <>(step = "returned")
===========================================================================
