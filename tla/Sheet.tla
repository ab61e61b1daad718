------------------------------- MODULE Sheet -------------------------------
(***************************************************************************)
(* The table of sheet.cpp with the cells of cell.cpp: which cell object    *)
(* sits at which position, what each holds, who depends on whom, which     *)
(* formula values are cached, and the size of the printed area.            *)
(*                                                                         *)
(* Cells are heap objects.  dependents_ holds their raw addresses, and     *)
(* nothing removes an address from it when the object is destroyed, so the *)
(* heap is modelled: an address is allocated by make_unique<Cell>, freed   *)
(* when cells_ erases its owner, and may then be allocated again.          *)
(*                                                                         *)
(* The program has one thread and its calls do not nest, so an action is a *)
(* whole call of the SheetInterface.                                       *)
(***************************************************************************)
EXTENDS SheetTypes, FiniteSets, FiniteSetsExt, Reachability

CONSTANTS
    Addr,         \* heap addresses where a Cell fits
    Null,         \* no cell at a position
    NoValue       \* an empty cache_

ASSUME NullAssumption == Null \notin Addr

ASSUME NoValueAssumption == NoValue \notin Value

VARIABLES
    cells,        \* cells_: the address of the cell at a position, or Null
    impl,         \* impl_ of the cell at an address: the text it was set to
    cache,        \* cache_ of the formula at an address, or NoValue
    dependents,   \* dependents_ of the cell at an address
    print_size,   \* print_size_
    outcome       \* how the last call ended

vars == <<cells, impl, cache, dependents, print_size, outcome>>

---------------------------------------------------------------------------
(***************************************************************************)
(* Reading the table.                                                      *)
(***************************************************************************)
Occupied == {p \in Pos : cells[p] # Null}
Live     == {cells[p] : p \in Occupied}

\* No two positions share a cell object: cells_ owns each by a unique_ptr.
OneOwner == \A p, q \in Occupied : cells[p] = cells[q] => p = q

\* Cell::GetText of the cell at a position; "" where there is none.
TextAt(p) == IF cells[p] = Null THEN EmptyText ELSE impl[cells[p]]

\* Cell::GetReferencedCells of every position.
References == [p \in Pos |-> Refs(TextAt(p))]

\* The formulas whose value is not cached: GetValue has to evaluate them.
Pending == {p \in Occupied : TextAt(p) \in FormulaText /\ cache[cells[p]] = NoValue}

\* GetValue of a position that needs no evaluation.
KnownValue(p) ==
    IF cells[p] = Null THEN Zero
    ELSE LET text == impl[cells[p]]
         IN CASE text = EmptyText    -> Zero
              [] text \in PlainText   -> TextValue(text)
              [] text \in FormulaText -> cache[cells[p]]

\* GetValue of every position, w giving it for the pending ones, its domain.
Values(w) == [p \in Pos |-> IF p \in DOMAIN w THEN w[p] ELSE KnownValue(p)]

\* w is what the recursion of GetValue through Evaluate computes: each
\* pending formula evaluated over the values of all the others.
IsEvaluation(w) ==
    LET v == Values(w) IN \A p \in DOMAIN w : w[p] = Evaluate(TextAt(p), v)

\* The formulas evaluated, and so cached, by GetValue on every cell of roots.
EvaluatedBy(roots, w) ==
    ReachableFrom(roots \cap Pending,
                  [p \in Pos |-> IF p \in Pending
                                 THEN Reads(TextAt(p), Values(w)) \cap Pending
                                 ELSE {}])

\* Faulty variant: the last index taken for the size.
BoundingSizeShort(occ) == [rows |-> Max({0} \cup {p[1] : p \in occ}),
                           cols |-> Max({0} \cup {p[2] : p \in occ})]

\* UpdatePrintSize: the rectangle that holds the cells of occ.
BoundingSize(occ) == [rows |-> Max({0} \cup {p[1] + 1 : p \in occ}),
                      cols |-> Max({0} \cup {p[2] + 1 : p \in occ})]

PrintArea == {p \in Pos : p[1] < print_size.rows /\ p[2] < print_size.cols}

---------------------------------------------------------------------------
(***************************************************************************)
(* Ends of a call.  After a use of a freed cell, or a recursion without    *)
(* end, nothing is known of the process: the behaviour ends there.         *)
(***************************************************************************)
Crash == {"use_after_free", "stack_overflow"}

Running == outcome \notin Crash

\* The call throws before it changes anything.
Throw(exception) == /\ outcome' = exception
                    /\ UNCHANGED <<cells, impl, cache, dependents, print_size>>

\* EnsurePositionValid: the first thing SetCell, GetCell and ClearCell do.
RejectPosition(pos) ==
    /\ Running
    /\ ~IsValid(pos)
    /\ Throw("InvalidPositionException")

---------------------------------------------------------------------------
(***************************************************************************)
(* SetCell.                                                                *)
(***************************************************************************)
\* Faulty variants: no check for a self-reference; the references of the
\* references not followed; visited cells not forgotten on the way back, so
\* that two ways to one cell count as a cycle.
NoSelfReferenceCheck(refs, pos) == FALSE

ShallowDependencyCheck(refs, pos) == \E p \in refs : pos \in References[p]

VisitedNotForgotten(refs, pos) ==
    LET seen == ReachableFrom(refs, References)
    IN \/ \E p \in seen : pos \in References[p]
       \/ \E p \in refs, q \in seen : p \in References[q]

CheckSelfReference(refs, pos) == pos \in refs

\* has_cycle from every cell the formula references: it follows references
\* until it meets pos, or a cell that is already on its way.
CheckCircularDependency(refs, pos) ==
    \E p \in ReachableFrom(refs, References) :
        pos \in References[p] \/ OnCycle(p, References)

IsCircular(pos, text) == \/ CheckSelfReference(Refs(text), pos)
                         \/ CheckCircularDependency(Refs(text), pos)

SetCellCircular(pos, text) ==
    /\ Running
    /\ IsValid(pos)
    /\ text \notin BadFormulaText
    /\ IsCircular(pos, text)
    /\ Throw("CircularDependencyException")

\* Faulty variant: a new cell for the written position every time.
AlwaysCreated(pos, refs) == {pos} \cup (refs \ Occupied)

\* GetOrCreateCell and EnsureCellsExist: the positions that get a cell.
Created(pos, refs) == ({pos} \cup refs) \ Occupied

\* cells_ and dependents_ with the new cells, fresh giving their addresses.
CellsWith(fresh) == [p \in Pos |-> IF p \in DOMAIN fresh THEN fresh[p] ELSE cells[p]]

Allocated(fresh) == {fresh[p] : p \in DOMAIN fresh}

DependentsWith(fresh) ==
    [a \in Addr |-> IF a \in Allocated(fresh) THEN {} ELSE dependents[a]]

\* Faulty variant: the old references keep the cell among their dependents.
OldDependenciesKept(at, base, pos, old_refs, new_refs) ==
    [a \in Addr |-> IF \E r \in new_refs \ {pos} : at[r] = a
                    THEN base[a] \cup {at[pos]} ELSE base[a]]

\* UpdateDependencies of cell, which sits at pos; at gives the cells of the
\* table and base their dependents_ before the call.
UpdatedDependencies(at, base, pos, old_refs, new_refs) ==
    LET removed == {at[r] : r \in old_refs \ {pos}}
        added   == {at[r] : r \in new_refs \ {pos}}
    IN [a \in Addr |-> CASE a \in added   -> base[a] \cup {at[pos]}
                         [] a \in removed \ added -> base[a] \ {at[pos]}
                         [] OTHER -> base[a]]

\* Faulty variants: the recursion of InvalidateCache one level deep, or absent.
DirectDependentsOnly(cell, deps) == {cell} \cup deps[cell]

OwnCacheOnly(cell, deps) == {cell}

\* The cells whose InvalidateCache runs when it is called on cell.
InvalidatedFrom(cell, deps) == ReachableFrom({cell}, deps)

\* The call to InvalidateCache returns: every cell it reaches is alive, and
\* no cell calls it on itself again.
InvalidationReturns(cell, deps, live) ==
    \A a \in InvalidatedFrom(cell, deps) : a \in live /\ ~OnCycle(a, deps)

\* SetCell once the text is accepted, the new cells at the addresses fresh.  A
\* call that does not return leaves the table as it was for want of anything
\* better to say: nothing looks at it any more.
StoreAt(pos, text, fresh) ==
    LET at   == CellsWith(fresh)
        new  == Allocated(fresh)
        deps == UpdatedDependencies(at, DependentsWith(fresh), pos,
                                    References[pos], Refs(text))
    IN \/ /\ InvalidationReturns(at[pos], deps, Live \cup new)
          /\ cells' = at
          /\ impl' = [a \in Addr |-> CASE a = at[pos] -> text
                                       [] a \in new \ {at[pos]} -> EmptyText
                                       [] OTHER -> impl[a]]
          /\ dependents' = deps
          /\ cache' = [a \in Addr |-> IF a \in new \cup InvalidatedFrom(at[pos], deps)
                                      THEN NoValue ELSE cache[a]]
          /\ print_size' = BoundingSize(Occupied \cup DOMAIN fresh)
          /\ outcome' = "ok"
       \/ /\ ~(InvalidatedFrom(at[pos], deps) \subseteq Live \cup new)
          /\ outcome' = "use_after_free"
          /\ UNCHANGED <<cells, impl, cache, dependents, print_size>>
       \/ /\ \E a \in InvalidatedFrom(at[pos], deps) : OnCycle(a, deps)
          /\ outcome' = "stack_overflow"
          /\ UNCHANGED <<cells, impl, cache, dependents, print_size>>

\* Faulty variant: the exception of ParseFormula swallowed, the text kept.
BadFormulaKept(pos, text) ==
    /\ Running
    /\ IsValid(pos)
    /\ text \in BadFormulaText
    /\ \E fresh \in Injection(Created(pos, {}), Addr \ Live) : StoreAt(pos, text, fresh)

\* ParseFormula throws on a syntax error or on a position outside the table.
SetCellBadFormula(pos, text) ==
    /\ Running
    /\ IsValid(pos)
    /\ text \in BadFormulaText
    /\ Throw("FormulaException")

SetCellStore(pos, text) ==
    /\ Running
    /\ IsValid(pos)
    /\ text \notin BadFormulaText
    /\ ~IsCircular(pos, text)
    /\ \E fresh \in Injection(Created(pos, Refs(text)), Addr \ Live) :
           StoreAt(pos, text, fresh)

---------------------------------------------------------------------------
(***************************************************************************)
(* GetValue through the pointer GetCell returned, and PrintValues.  Both   *)
(* are const, and both fill caches.                                        *)
(***************************************************************************)
Show(roots) ==
    \E w \in [Pending -> Value] :
        /\ IsEvaluation(w)
        /\ cache' = [a \in Addr |->
                        IF \E p \in EvaluatedBy(roots, w) : cells[p] = a
                        THEN w[CHOOSE p \in EvaluatedBy(roots, w) : cells[p] = a]
                        ELSE cache[a]]
        /\ outcome' = "ok"
        /\ UNCHANGED <<cells, impl, dependents, print_size>>

GetValue(pos) == Running /\ IsValid(pos) /\ Show({pos})

PrintValues == Running /\ Show(PrintArea \cap Occupied)

---------------------------------------------------------------------------
(***************************************************************************)
(* ClearCell: the cell is destroyed.  Its address stays in the dependents_ *)
(* of the cells it referenced, and no cache is invalidated.                *)
(***************************************************************************)
ClearCell(pos) ==
    /\ Running
    /\ IsValid(pos)
    /\ outcome' = "ok"
    /\ \/ /\ cells[pos] = Null
          /\ UNCHANGED <<cells, impl, cache, dependents, print_size>>
       \/ /\ cells[pos] # Null
          /\ cells' = [cells EXCEPT ![pos] = Null]
          /\ impl' = [impl EXCEPT ![cells[pos]] = EmptyText]
          /\ cache' = [cache EXCEPT ![cells[pos]] = NoValue]
          /\ dependents' = [dependents EXCEPT ![cells[pos]] = {}]
          /\ print_size' = BoundingSize(Occupied \ {pos})

\* A cell that references nothing and that no formula references.
IsIsolated(pos) == /\ IsValid(pos)
                   /\ References[pos] = {}
                   /\ \A p \in Pos : pos \notin References[p]

---------------------------------------------------------------------------
Init ==
    /\ cells = [p \in Pos |-> Null]
    /\ impl = [a \in Addr |-> EmptyText]
    /\ cache = [a \in Addr |-> NoValue]
    /\ dependents = [a \in Addr |-> {}]
    /\ print_size = [rows |-> 0, cols |-> 0]
    /\ outcome = "ok"

SetCell(pos, text) == \/ SetCellBadFormula(pos, text)
                      \/ SetCellCircular(pos, text)
                      \/ SetCellStore(pos, text)

Call(pos) == \/ RejectPosition(pos)
             \/ \E text \in Text : SetCell(pos, text)
             \/ GetValue(pos)

Next == \/ PrintValues
        \/ \E pos \in ArgPos : Call(pos) \/ ClearCell(pos)

\* Any caller of the interface.
Spec == Init /\ [][Next]_vars

CarefulNext == \/ PrintValues
               \/ \E pos \in ArgPos : Call(pos) \/ (IsIsolated(pos) /\ ClearCell(pos))

\* Callers that clear isolated cells only.
CarefulSpec == Init /\ [][CarefulNext]_vars

---------------------------------------------------------------------------
(***************************************************************************)
(* Properties for every caller.                                            *)
(***************************************************************************)

\* Every variable keeps its type.  In particular a cell never holds a text that
\* ParseFormula rejects, and print_size_ never exceeds the table.
TypeOK ==
    /\ cells \in [Pos -> Addr \cup {Null}]
    /\ impl \in [Addr -> Text \ BadFormulaText]
    /\ cache \in [Addr -> Value \cup {NoValue}]
    /\ dependents \in [Addr -> SUBSET Addr]
    /\ print_size \in [rows : 0..MAX_ROWS, cols : 0..MAX_COLS]
    /\ outcome \in {"ok"} \cup Exception \cup Crash

\* No formula reads itself, through however many others: evaluation ends.
\* ClearCell and overwriting included, CheckCircularDependency lets none in.
ReferencesAcyclic == IsAcyclic(References)

\* CheckSelfReference and CheckCircularDependency refuse a formula exactly when
\* setting it would close a cycle: none slips in, and two ways from a formula
\* to one cell are not taken for a cycle.
CycleCheckExact ==
    \A pos \in Pos, text \in FormulaText :
        IsCircular(pos, text) <=> ~IsAcyclic([References EXCEPT ![pos] = Refs(text)])

\* The printed area holds every cell there is and is no larger than that:
\* its last row and its last column have a cell.
PrintAreaFits ==
    /\ Occupied \subseteq PrintArea
    /\ print_size.rows > 0 => \E p \in Occupied : p[1] = print_size.rows - 1
    /\ print_size.cols > 0 => \E p \in Occupied : p[2] = print_size.cols - 1
    /\ print_size.rows = 0 <=> print_size.cols = 0

\* A pointer that GetCell returned stays good until ClearCell of its position:
\* no call moves a cell, or replaces it by another.
CellsStayPut ==
    [][\A p \in Pos : cells[p] # Null => cells'[p] \in {cells[p], Null}]_cells

---------------------------------------------------------------------------
(***************************************************************************)
(* Properties for the callers that clear isolated cells only.              *)
(***************************************************************************)

\* dependents_ is the reference graph turned around: each cell knows exactly
\* the living cells whose formula references it, and they are all there.
DependentsMirrorReferences ==
    \A p \in Pos : \A q \in Occupied :
        /\ p \in References[q] => p \in Occupied
        /\ p \in Occupied => (cells[q] \in dependents[cells[p]] <=> p \in References[q])

\* A cached value is what evaluation would give now, and every cell that
\* evaluation would ask is itself cached or no formula.
CachedValuesCurrent ==
    LET v == Values([p \in Pending |-> Zero])
    IN \A p \in Occupied \ Pending :
          TextAt(p) \in FormulaText =>
             /\ Reads(TextAt(p), v) \cap Pending = {}
             /\ cache[cells[p]] = Evaluate(TextAt(p), v)

\* No call uses a destroyed cell, and none recurses without end.
NeverCrashes == Running
===========================================================================
