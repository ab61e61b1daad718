# A verification project for SpreadSheet

SpreadSheet is a table of cells with formulas: a class `Sheet` behind the
interface of `common.h`, cells that hold nothing, a text or a formula, formulas
parsed by ANTLR into a tree and evaluated over the table, cached values, and a
check that refuses formulas which would depend on themselves.  This directory
holds a model of it in TLA+, the configurations that check the model with TLC,
and proofs checked by TLAPS.

## The system

| component | state | operations | interacts with |
|---|---|---|---|
| **Sheet** (`sheet.cpp`, `sheet.h`) | `cells_`, a map from positions to owned cells; `print_size_` | `SetCell`, `GetCell`, `ClearCell`, `PrintValues`, `PrintTexts`, `GetPrintableSize` | calls `ParseFormula`, the cells, and is called back by formulas (`GetCell`) |
| **Cell** (`cell.cpp`, `cell.h`) | `impl_` (empty, text or formula), `cache_` of the formula, `dependents_`: raw addresses of cells | `Set`, `GetValue`, `GetText`, `InvalidateCache`, `AddDependentCell`, `RemoveDependentCell` | `InvalidateCache` recurses into `dependents_`; `GetValue` evaluates through the sheet |
| **Formula** (`formula.cpp`, `FormulaAST.cpp`) | the expression tree | `Evaluate`, `GetExpression`, `GetReferencedCells` | reads cells through `SheetInterface` |
| **Position, FormulaError** (`structures.cpp`) | none | `FromString`, `ToString`, `IsValid` | |
| **Grammar** (`Formula.g4`, ANTLR) | none | parsing; `ParseASTListener` builds the tree | |

There is one thread, nothing is persisted and nothing is sent.  What is hard is
in the *sequences of calls*: the same facts are kept in several places (the
formulas, `dependents_`, `cache_`, `print_size_`), each call updates some of
them, addresses of cells outlive the cells, two walks recurse over graphs that
must stay acyclic, and evaluation may stop half way at an error.  The list of
hazards, each at its line, is in `PROJECT.json`.

What makes each part correct:

- *Sheet*: an accepted formula never closes a cycle and none that would not is
  refused; a refused call changes nothing; the printed area fits the cells; a
  pointer from `GetCell` stays good while its position is not cleared.
- *Cell*: a cached value is the one evaluation would give; `dependents_` mirrors
  the references of the formulas; `InvalidateCache` meets living cells only and
  ends.
- *Formula*: the value depends on the cells referenced and on nothing else; an
  error of a cell read is the error of the formula; `GetExpression` reads back
  as a formula with the same text and value.
- *Position*: `ToString` and `FromString` are inverse on valid positions.

## Modules

| module | what it is |
|---|---|
| `Reachability` | directed graphs: closed sets, what a walk reaches, cycles. No recursion, so that it can be used in proofs |
| `SheetTypes` | positions, kinds of texts, values, and what `FormulaInterface` promises, as constants with assumptions |
| `Sheet` | the table and its cells; one action per call of `SheetInterface` |
| `FormulaAST` | evaluation of a formula, node by node |
| `SheetContract` | what `SheetInterface` promises: texts and values, no cells |
| `SheetRefinement` | the careful caller's table, its refused calls on record, implements the contract |
| `SheetPromises` | sentences of the headers that do not hold for every caller |
| `SetCellSteps` | `SetCell` step by step, with `has_cycle` and `InvalidateCache` call by call; implements `SetCell` of `Sheet` |
| `Recalculation` | `GetValue` and `PrintValues` node by node; implements `Show` of `Sheet` |
| `Grammar` | the rule `expr` of `Formula.g4`: the trees it derives from a sequence of tokens |
| `FormulaText` | printing of formulas, and entering again what was printed |
| `Positions` | positions, their order, and which of them are valid |
| `PositionText` | `Position::ToString` and `FromString`, loop by loop |
| `TextCell` | `TextImpl::GetValue`, with `strtod` |
| `FormulaParser` | `ParseFormulaAST`: lexer, parser, and the stack of `ParseASTListener` |
| `Texts` | one call of any of the last three |
| `MCSheet`, `MCContract`, `MCSetCellSteps`, `MCRecalculation`, `MCFormulaText`, `MCTexts` | instances for TLC |
| `GeneralTheorems` | lemmas about sets of numbers and about graphs |
| `SheetTheorems` | what is proved for every caller, and for callers that clear isolated cells only, the contract among it |
| `SetCellTheorems` | the steps of `SetCell` implement the `SetCell` of `Sheet`; how many calls the walks make |
| `RecalculationTheorems` | no formula is evaluated twice in one call; node by node implements `Show` |
| `PositionTheorems` | a position written is read back the same, and no other text is read as one |
| `TextCellTheorems` | a text is a number exactly if `strtod` can read it |
| `ParserTheorems` | the listener finds its operands on the stack; a text is parsed exactly if the grammar derives it, to the one tree it derives |
| `PrintTheorems` | the text of a formula, entered again, is the same and has the same value; every pair of parentheses groups something |

`Sheet` is the middle.  Above it is the contract, which `SheetRefinement` shows it to
implement; below it are `SetCellSteps` and `Recalculation`, which implement its
two largest actions.  What it takes as constants is computed in `FormulaAST`
(the value of a formula); `TextCell` (the value of a text) and `FormulaParser`
(whether a text is a formula) have alphabets of their own and stand apart.
`Grammar` is what `FormulaParser` is compared with, and what `FormulaText` reads with: that the
parser reads a text as `Grammar` does is `GrammarParsed`.

### `Sheet`

`cells` is `cells_`: the address of the cell at each position, or `Null`.
`impl`, `cache` and `dependents` give, for each address, `impl_` (by the text the
cell was set to), `cache_` and `dependents_`.  `print_size` is `print_size_`.
`outcome` tells how the last call ended: normally, with an exception, or not at
all.

A text is what the program tells apart: `""`, a plain text, a formula that
parses, a formula that `ParseFormula` rejects (for its syntax or for a position
outside the table).  A formula is given by its expression tree, so `GetText` is
the identity on this model; wording and spacing of formulas are left out.

Addresses matter because `dependents_` holds raw pointers and `ClearCell` does
not remove them.  `SetCell` takes any free address for each cell it creates;
`ClearCell` frees one.  A freed block's fields are set back to their initial
values, which nothing reads before the next allocation sets them again: this
only makes equal states equal.  `SetCell` needs a free block for each new
cell; exhaustion of memory is not modelled.

| action | code |
|---|---|
| `RejectPosition` | `EnsurePositionValid` at the head of `SetCell`, `GetCell`, `ClearCell` |
| `SetCellBadFormula` | steps 1 to 3 of `SetCell`, `ParseFormula` throws |
| `SetCellCircular` | steps 1 to 3, `CheckSelfReference` or `CheckCircularDependency` throws |
| `SetCellStore` | all ten steps: new cells, `Cell::Set`, `UpdateDependencies`, `InvalidateCache`, `UpdatePrintSize` |
| `GetValue` | `GetCell`, then `GetValue` through the pointer, with every formula it evaluates and caches on the way |
| `PrintValues` | the same for every cell of the printed area |
| `ClearCell` | `cells_.erase` and `ShrinkPrintSize` |

The calls run to their end before the next begins, so each is one action.
`GetValue` recurses through formulas and their caches; `Show` does not
follow the recursion but takes a table of values in which each pending formula
is evaluated over the others, of which there is one where the references are
acyclic, and caches those the evaluation reaches, an error ending it early.
That the recursion comes to just that is what `Recalculation` is for.

`InvalidateCache` on a freed cell is undefined behaviour, and so is a stack
that overflows.  Both are outcomes (`use_after_free`, `stack_overflow`) after which
no call is made.  A walk that meets a freed cell may also meet a cycle; either
outcome is then possible.

### Two kinds of caller

`Spec` lets the caller do anything the interface offers.  `CarefulSpec` restrains
one call: it clears a cell only if its formula references nothing and no formula
references it (`IsIsolated`).  `ClearCell` does not touch `dependents_` or caches,
and for any other cell one of the two is then wrong: that is what the runs
`stale_value`, `dangling_dependent` and `invalidation_cycle` show.  Setting `""`
in place of clearing is allowed to both callers and does everything right, so
a careful caller loses nothing but the memory of the cell: it can always set
the formula to `""` first and clear when nobody references the cell.  All of
`SetCell`, `GetValue`, `PrintValues`, with overwriting, refusals and
phantom cells, is in `CarefulSpec` unrestricted.

### `SetCellSteps`

One call of `SetCell`, from any table a call may meet: acyclic references, any
caches, and the mirror of the references as `dependents_`, with the links in one of the sets
`WrongLinks` too many or too few.  Each `ClearCell` can add links to that set: those to a
freed block, to the cell that takes the block next, or those the cleared cell held.
The run has no wrong link, one, or two that share an end.  The theorems hold for every
`WrongLinks`; with all of `SUBSET (Addr \X Addr)` the cells have any `dependents_` at all.

| action | code |
|---|---|
| `Parse` | `EnsurePositionValid`, `ParseFormula`, `CheckSelfReference`: the three refusals before the walk |
| `StartFrom` | a round of the loop of `CheckCircularDependency` |
| `Follow` | a round of the loop of the lambda `has_cycle`, with its recursive call |
| `ReturnFalse`, `Accept` | `visited.erase` and `return false`; the check is through |
| `CreateCells` | `GetOrCreateCell`, the reading of `old_refs`, `EnsureCellsExist` |
| `SetImpl`, `Relink` | `Cell::Set`; `UpdateDependencies` |
| `BeginInvalidation`, `Descend`, `ReturnInvalidated` | `InvalidateCache`: the first call, the recursive ones, the returns |
| `Resize` | `UpdatePrintSize`, and the call returns |

`stack` holds the calls under way, each with its cell and what its loop has left;
the loop over references goes in the order of positions, to which the constructor of
`FormulaImpl` sorts them, the loop over `dependents_`, an `unordered_set`, in any order.  A
`true` of `has_cycle` goes straight up through all calls to the `throw`, and is one
step.  `InvalidateCache` ends the process on a destroyed cell, and when the stack is full;
`StackDepth` has room for every cell, so that only a cycle can fill it.

### `Recalculation`

One call of `GetValue` or of `PrintValues`.  `stack` holds the evaluations under way, each
with the number of nodes done and the machine of `FormulaAST`.  `Ask` is a `CellExpr`
that reads a formula without a value; `EvaluateNode` any other node; `Finish` is the end of
`FormulaImpl::GetValue`, where a value, or the error caught, goes to `cache_`.  An error
ends each evaluation it passes through.

### `FormulaAST`

A tree is its postorder, which is the order in which the listener builds it and
in which `Evaluate` evaluates it.  A double is an integer of
`-MaxDouble..MaxDouble`; what falls outside is not finite.  Rounding is not
modelled.  An error is thrown where it occurs and nothing after it is
evaluated, so `FormulaReads` is exactly the set of cells asked for their value.

### `FormulaText`

One formula cell whose text is taken and entered again.  `ParensLeft` and
`ParensRight` are `PRECEDENCE_RULES` as two sets of pairs of a parent and a child,
`DoPrintFormula` and `PrintFormula` are the printing, and `ParseFormula` reads what `Grammar`
derives from the tokens: a sign binds tightest, then products, then sums, and
operators associate to the left.  The two sides have different notions of precedence (the
table tells `*` from `/` and `+` from `-`), which is why the comment above the table
argues case by case.

Values are exact fractions, so that `A + (B + C)` printed as `A+B+C` has the same
value, as that comment takes for granted; in doubles the two may round, or
overflow, differently.  Literals are natural numbers.  `Rounded` is what a stream leaves of one:
less than `Limit` it is printed as it is, otherwise with its leading digits, the rest rounded, from halfway to
the even digit
(`Limit` is 10^6 in the program, where six digits are printed).  Literals with a point or a
negative exponent, of which a stream drops digits in the same way, are left out.  Atoms are numbers, since
references print and read as themselves and behave alike between parentheses.

### `PositionText`, `TextCell`, `FormulaParser`

In each a behaviour is one call, from its argument to its result.  `Texts` joins them, so that
one run checks all.

`PositionText` has `ToString`, whose loop counts the column down with `NextColumn`, and
`FromString`, which finds where the letters end (`Split`), counts the column up
(`ReadLetter`) and reads the row (`ReadRow`).  The alphabet has `LETTERS` letters in
place of 26.  `std::to_string` and `std::stoi` are constants: the first yields digits without a
zero in front, the second reads them back.

`TextCell` has `TextImpl::GetValue` statement by statement: the apostrophe, `strtod`, the
loop over the blanks behind the number (`SkipBlank`), and what `end` and the characters say in the end
(`Decide`).  `Converted` is what the C library documents of `strtod`: blanks in front,
decimals, exponents, hexadecimals, `inf` and `nan`.

`FormulaParser` has the tokens of `Formula.g4` (`FirstToken` takes the longest), the
rule `expr` as ANTLR compiles it (a call for an operand takes the priority an operator
must have to be read by it), and the walk in which `ParseASTListener` builds the
expression on `args_`.  The parse tree is its nodes in the order in which the walk leaves
them.  Cells outside the table and numbers a stream does not read, or that are not finite,
are refused during the walk.  The properties compare this with `Grammar`, which has no order of
reading: from a part of the tokens the rule derives what its alternatives make of smaller parts
(`Items`).

## Runs

`careful_caller` has three positions in a column, one position outside the
table, two plain texts (a number and a word), five formulas (each cell by
itself, a ratio and a sum) and one text that does not parse.  Four heap blocks
for three cells: one block is always free, and one that has been freed can be
taken again or left.  The largest double is 1, so that a sum overflows, and a
ratio divides by zero.  Blocks are symmetric.  Three cells allow chains of
three, a formula with two references, cycles of one, two and three cells, and
two ways to one cell.  Every refused call is remembered with its arguments
(`refused`), since otherwise one refusal could pass for another.

`any_caller` has two rows and two columns, of which three positions are written
or cleared and one only exists as a place in the rectangle; three blocks, one
number (all doubles are 0).  The table is smaller because every caller, freed
blocks and crashes included, makes many more states.

`set_cell` starts `SetCell` on every acyclic table of three cells in a row whose formulas have
one or two references, some cells missing, and every text and position as the argument.  A fourth
block is free, or was freed and is still in a `dependents_`.  The mirror is right, or has one
link too many or too few, or two that begin or end at one cell: a formula with two references
that is cleared leaves two links behind, and a cell two formulas reference takes two with it.
Any of the formulas are cached.  This is enough for a cell met on two ways, a cycle closed at each
distance, both crashes, and a cycle of `dependents_` of two links neither of which a formula has.

`recalculation` starts from every acyclic table of three cells with formulas that fail
before, between and after the cells they read, every text, and every choice of cached
values: each formula has none, or one that it has over some values of the cells
(`PossibleValues`), be it the present one or not.

`texts` has an alphabet of two letters, digits 0 to 2 and a table of 4 rows and 11
columns: names of one, two and three letters, columns beyond the last, rows of one and
two digits, and numbers too large for an int.  It reads every text of at most five
characters as a position, shows every text of at most four and some longer ones in a
cell, and parses every text of at most four characters, every sequence of at most
seven of the tokens `2 - * ( )`, and some longer texts.

| run | shows |
|---|---|
| `careful_caller` | for the careful caller: types, `dependents_` mirrors the references, caches are current, no crash, and the table implements `SheetContract` |
| `any_caller` | for any caller: no reference cycle, the cycle check refuses nothing else, the printed area is exact, no cell moves |
| `set_cell` | the steps of `SetCell` implement `SetCell` of `Sheet`; `visited` is the path of the walk; a walk makes a call for every way, not for every cell; the call ends |
| `recalculation` | the steps of `GetValue` implement `Show`; no formula is evaluated twice; the call ends |
| `formula_text` | every pair of parentheses groups something, and is needed for the value but behind certain signs; the text of a cell entered again stays the same, and keeps the value but for the next case and for digits lost |
| `texts` | positions read back, and nothing else is read as one; a text is a number where `strtod` can read it all; a formula parses exactly if the grammar derives it, to the tree its priorities allow; every call ends |
| `stale_value` | a cached value survives `ClearCell` of the cell it came from |
| `dangling_dependent` | an address in `dependents_` survives its cell |
| `invalidation_cycle` | the address is allocated again and `InvalidateCache` goes around |
| `print_area` | cells with an empty text widen the printed area |
| `signed_divisor` | `A/(-(B*C))` is printed as `A/-B*C`, which is `(A/-B)*C` |
| `blank_number` | a text of spaces is the number zero |

`formula_text` enters every formula of at most three operators, both signs
included, over the literals 0, 20 and 25 (36,000 trees).  Three operators are enough for
every pair of a parent and a child of the table, with an operator above or below the pair;
0 makes divisions fail, and 25 is longer than what is printed with a `Limit` of 10, and halfway
between two numbers that are.  For `NoExcessParens` the literals do not count: its text is read with
each atom worth another number.

The last six are expected to be violated: each checks a sentence of a header or a comment that
the code does not keep, quoted in `PROJECT.json` under "findings".

*Seen while modelling, without a run.*

- `formula.h:30` says of `GetExpression` "Не содержит пробелов и лишних скобок", no excess parentheses.
  `+(A+B)` is printed so, and `-(-(A+B))` as `--(A+B)`, each with a pair that could be left out, as
  `FormulaAST.cpp:57-60` says of the first: "sometimes okay", "currently in the table we're always putting in
  the parentheses".
  `NoExcessParens` has these as its exception (`IsOptional`) and shows that there is no other:
  its two directions say, for at most three operators, that all other pairs are needed for the value and that
  these are not (the latter for the one choice of atoms' values that the property evaluates).
- `common.h:90-91` and `cell.h:33` say that the value of a text cell is its text, a string without the
  escape character.  `TextImpl::GetValue` gives a number for a text that `strtod` reads, and an error for `inf`,
  `nan` and `1e999`; the comment at `cell.cpp:51-53` says that the conversion was moved there from
  `CellExpr`.  So a cell shows `007` as `7`, `0x10` as `16`, `'12` as `12`, and a lone
  apostrophe as `0`.  `NumberOrText` states what the code does, which is what formulas need (`formula.h:12-14`);
  the finding of `blank_number` quotes the sentence for the texts where both readings are against the code.
- `cell.h:35` says that the value of an empty cell is `""`; `EmptyImpl::GetValue` gives `0.0`, and so the
  contract has it.  `PrintValues` therefore writes an empty cell inside the area as `0`, where `common.h:146` has it
  empty.
- `sheet.h:33` says that `GetCell` returns `nullptr` for a position out of range; it throws
  `InvalidPositionException` (`RejectPosition`).
- A literal of more than six digits loses the rest (`1000001` is printed as `1e+06`), and with it its
  value.  `TextSettles` is stated for the printed text and does not notice; `ValueSettles` is stated for
  the literals that are printed in full.
- On a ladder of formulas that reference two cells each, `has_cycle` and `InvalidateCache` make twice as many calls
  with every rung (`OneCallPerWay`).

*What the refinements do not say.*  `ImplementsSetCell` and `ImplementsShow` allow, as every
`[][A]_v` does, a call that changes nothing; that a call ends is the liveness property beside each
(`SetCellEnds`, `RecalculationEnds`).  The contract evaluates formulas with the `Evaluate` of the table, so
`ImplementsContract` says nothing of the arithmetic; in `recalculation` the type invariant has every value in
the range of a double.

*Deadlock.*  `any_caller` and the runs of `SheetPromises` do without the check: after a crash
there is no next call.  So do `set_cell`, `recalculation`, `texts` and `blank_number`, whose
behaviour is one call and ends when it has returned; that it does not end earlier is their
liveness property.  The careful caller never crashes, and there, and in
`formula_text`, deadlock is checked.

*Fairness.*  Between calls there is none: a table answers calls and owes nobody a next one.
Within a call, `set_cell`, `recalculation` and `texts` assume weak fairness of the next step as a
whole: the one thread that runs the call goes on running it, and no step waits for anything.
No single action is treated fairly, so where the order of a loop is open (`Descend`) every
order ends.

## Proofs

For every table size, every set of texts, values and addresses, and every
formula language that meets `EvaluateAssumption`:

| theorem | says |
|---|---|
| `TypeCorrect` | `Spec => []TypeOK` |
| `AlwaysAcyclic` | `Spec => []ReferencesAcyclic` |
| `CycleCheckAlwaysExact` | `Spec => []CycleCheckExact` |
| `PrintAreaAlwaysFits` | `Spec => []PrintAreaFits` |
| `CellsNeverMove` | `Spec => CellsStayPut` |
| `MirrorKept` | `CarefulSpec => []DependentsMirrorReferences` |
| `CarefulNeverCrashes` | `CarefulSpec => []NeverCrashes` |
| `CachesStayCurrent` | `CarefulSpec => []CachedValuesCurrent` |
| `TableKeepsContract` | `RecordedSpec => ImplementsContract` |
| `WalksKeepType` | `StepsSpec => []WalkTypeOK` |
| `StepsImplementSetCell` | `StepsSpec => ImplementsSetCell` |
| `RecalculationKeepsType` | `RecalculationSpec => []RecalculationTypeOK` |
| `NoneEvaluatedTwice` | `RecalculationSpec => []EvaluatedOnce` |
| `StepsImplementShow` | `RecalculationSpec => ImplementsShow` |
| `CallsAreWays` | `StepsSpec => []OneCallPerWay` |
| `RoundTripAlways` | `TextSpec => []RoundTrip` |
| `OnlyTextsOfPositionsAreRead` | `TextSpec => []ReadsTheTextsOfPositions` |
| `TextTypesKept` | `TextSpec => []TextTypeOK` |
| `TextIsNumberOrText` | `TextCellSpec => []NumberOrText` |
| `TextCellTypesKept` | `TextCellSpec => []TextCellTypeOK` |
| `StackDisciplineKept` | `ParserSpec => []StackDiscipline` |
| `GrammarParsed` | `ParserSpec => []ParsesTheGrammar` |
| `TextKept` | `FormulaText!Spec => TextSettles` |
| `ValueKept` | `FormulaText!Spec => ValueSettles` |
| `EveryPairGroups` | `FormulaText!Spec => []PairsGroup` |

*Assumptions.*  The table has a row and a column; kinds of texts are disjoint;
`0.0` and the values of plain texts are values; a formula references positions of
the table, reads only what it references, and its value depends only on what it
reads.  `FormulaAST` meets the last on the instances TLC checks (TLC evaluates the
assumptions in every run).  `SetCellSteps` adds that there are finitely many addresses and
that the stack has room for a call on each (`StackAssumption`), and that a layout places cells
on positions (`LayoutsAssumption`); of `WrongLinks`, by which `dependents_` may differ from the
mirror, nothing is assumed.  `Recalculation` adds
that a formula is a tree in postorder which mentions only the cells it references and is
evaluated as in `FormulaAST` (`ProgramAssumption`; the operands of a node are then on the stack:
`StackHeights`), and the same of layouts.  `PositionText` adds
that names of three letters are enough for the columns and an int for the rows
(`LettersAssumption`), that a letter is one of the alphabet (`ArgAssumption`), and what the
library does with numbers: `std::to_string` and `std::stoi` undo each other on the rows of the table
(`NumeralAssumption`, `RowAssumption`; the second for the digits of the texts that are read,
where they begin with no zero).  `TextCell` assumes that a text cell holds a text that is not empty
and no formula (`CellTextAssumption`), as `Cell::Set` sees to; what it takes from `strtod` is
defined, not assumed.  `FormulaParser` assumes only that its texts are sequences.
`FormulaText` assumes that literals are texts that stand for natural numbers with at most five digits more
than are printed, that what is printed of a literal is a literal too, and that `Limit` is a multiple of ten
(`LiteralsAssumption`); how many operators a formula has is not limited (`MaxOperators` may be any number).

*`AlwaysAcyclic`.*  Acyclic is stated without paths: every nonempty set of positions
has one that references nothing in the set.  Alone this is not inductive: were a
cell object shared by two positions, setting one would change the references of the
other.  The invariant is `IInv == TypeOK /\ OneOwner /\ ReferencesAcyclic`.  The step that
matters is `AcceptedClosesNoCycle`: what the check's walk has reached is a closed set that does not
contain the written position, and new edges into such a set close no cycle
(`AcyclicAfterUpdate`).  Clearing only takes edges away.  The converse, that a refused text
would close a cycle (`RefusedClosesCycle`), makes `CycleCheckAlwaysExact`.

*`MirrorKept` and `CarefulNeverCrashes`.*  The mirror speaks of living cells only; for
it to be kept, and for `InvalidateCache` to be safe, no living cell may have a dead one in
its `dependents_`: `Linked == IInv /\ DependentsAlive /\ DependentsMirrorReferences`.  A new cell
takes a block that is in no living cell's `dependents_`, so it inherits no link
(`UpdatedMirror`).  A cycle of `dependents_` among living cells would be a cycle
of references backwards (`InvalidationEnds`).

*`CachesStayCurrent`.*  On a store: a cached formula that is not reset is not reached
along the new `dependents_`, hence by the mirror it references no cell that is, and all
it reads is as before.  On a look: what is evaluated is evaluated over a table of values that
agrees with the one shown afterwards wherever it was read; that reads stop at the first error is
why the property has to speak of `Reads` and not of all references.

*`TableKeepsContract`.*  A table of values is a solution of equations, one for each position, whose
right sides look at the positions referenced.  Without cycles there is one and only one
(`SolutionExists`, `SolutionIsUnique`): two solutions cannot differ at a position none of whose
references they differ at, and the partial solutions laid together could be continued to a position all
of whose references have a value.  Since the caches are current, the evaluation of the pending
formulas and the known values of the others make up that solution (`KnownIsComputed`).  So calls that leave
the texts alone leave the values alone, and the cycle check decides as the contract wants.

*`WalksKeepType` and `StepsImplementSetCell`.*  The recursions are proved correct without
induction on their depth.  `Checking`: a cell from which `has_cycle` has returned lies in a
closed set of positions none of which references the written one (`Avoiding`); a call that
returns adds its cell to that set.  When all have returned, what is reached from the new references is in
the set, so the formula closes no cycle; and where the walk refuses, the stack itself is the path that
closes one, a cell met again on the way being ruled out by the table's having no cycle.
`Unwinding`: what `InvalidateCache` has returned from is a closed set without a cycle
(`IsFinished`), and the stack is a path in `dependents_`.  At the end the set is exactly what is
reached; on a destroyed cell the path leads to it; and a stack with more calls than there are cells has one
cell twice, which is a cycle.  Around the two walks, `Storing` says which part of the
table has been changed at which step, with the blocks of the new cells (`fresh`) as its witness:
they are the choice that `SetCell` of `Sheet` has to have made.

*`RecalculationKeepsType` and `NoneEvaluatedTwice`.*  Each evaluation under way is of a formula
that the one below it on the stack references.  Had the same formula two of them, those between
would form a set of positions each of which references another in the set, which the table's having no
cycle excludes.  An evaluation is counted when it begins, and as it leaves the stack the cache is
filled; so a formula without a value that is not on the stack has not been evaluated in this call.
The heights of the postorder say how many values each frame holds, hence that none is missing
and that a number is what remains.

*`StepsImplementShow`.*  The caches that are filled when the call begins and the references without
cycle leave one table of values to be found (`Answer`, by `SolutionExists`).  The invariant
`OnTheWay` says that each evaluation under way has come as far as the run of its formula over that
table (`Run`), and has read nothing that is still without a value; that a cache is as it was or as in
`Answer`; and that what got a value was asked for (`Asked`), and so were the formulas it read.  A node
adds one step to the run, because the values it looks at are final (`NotPendingIsAnswered`).  Where an
evaluation ends, the run has ended too, an error staying what it is (`RunKeeps`), so what is cached is the
value in `Answer`.  When the stack is empty, the formulas with a new value are closed under
reading and hold those to be shown: they are the ones `EvaluatedBy` names.

*`CallsAreWays`.*  What a walk has called and what it still owes make up the number of ways, at every
step.  The ways `w` from a cell are one more than the sum of the ways from the cells that its edges lead to
(`Counts`); a frame of the stack owes the ways from the cells its loop has left, and the frames owe together
what the walk owes (`Owed`).  A call takes one away and adds what it then owes itself, so the sum is kept
(`CheckOwes`, `UnwindOwes`), and when the stack is empty nothing is owed.  Sums over
finite sets are defined by a recursion whose order is open; that they add up the same in any order is proved
once (`AddsUpAnyWay`).  Where there is no cycle, counts exist and there is one of them
(`WaysCounted`, `WaysUnique`).  `InvalidateCache` may run into a cycle; there is no count then, so the
invariant is about all `w` that count, and only at the return, when there is no cycle, about the one.

*`RoundTripAlways`.*  `trail` keeps the columns at which `ToString` wrote its letters, each
`NextColumn` of the one before.  `FromString` comes by them backwards, one higher each
(`LetterReadBack`: `ColumnWith` undoes `NextColumn`).  That three letters are enough for
`ToString`, which counts none, is `NextColumnBound`.

*`OnlyTextsOfPositionsAreRead` and `TextTypesKept`.*  The property counts the names that come before a name
in the dictionary order (`NumberOfName`); the code multiplies and adds.  They agree (`NumberOfNameIs`): the
order of names is the order of the numbers `FromString` computes (`OrderOfNames`), every column has a
name (`EveryColumnHasName`, by the division `ToString` makes), so those before a name and the numbers below its own
match one to one.  `ReadingInv` says that `col` is the number of the letters read so far
(`ColumnReadStep`), and in the end that what is returned is read from the text as `ReadsAs` says;
`OnlyTheText` and `TheTextIsRead` are the two directions from there to the one text of the position.  For
texts that `ToString` wrote, `ReadingInv` leans on the invariant of `RoundTripAlways`.

*`TextIsNumberOrText` and `TextCellTypesKept`.*  `GetValue` compares the place where `strtod` and the loop
stopped with the end of the text; the property looks at the text alone, up to its NUL and without the
spaces at its end.  Between the number and `end` there are spaces only (`Stopped`), and what `strtod`
converts ends in no blank and holds no NUL (`ConvertedChars`, from the characters of each form of number).  So if a NUL
follows, what is left of the text is what `strtod` converted (`NothingLeft`); if something else follows, the
text is longer than the longest part it can convert (`SomethingLeft`).

*`StackDisciplineKept`.*  The nodes are in postorder before the parse is complete.  `Postorder` gives
each node the height of the stack below it, and says how many expressions the nodes leave; `Holding` reads off the
calls under way how many operands they have already had.  A node an operator adds takes the operands of its
call, so the two stay equal (`ParserInv`), and when the parse is through one expression is left.  In the
walk the length of `args_` takes the place of the height.

*`GrammarParsed`.*  An item is a part of the tokens with a tree and the priority of its root; the items of
a text are those made of shorter items by the alternatives of `expr` (`DerivedIsMade`), and a text is an
expression if an item has all its tokens (`Whole`).  The parser must be right in two directions.  What it
has read is an item: that is kept by each call as it returns (`CallReturns`), and the nodes read so far
make, in the walk, the trees that the operators wait with and the tree of that item (`Builds`).  And where it
fails there is no item of all tokens: take any such item; the calls under way are then a way down into
it (`IsPath`), each reading a part of it that ends where no operator follows that the call could read.  What an
item begins with is on its `Spine`: the item, its left operand, the left operand of that, and so on.  The next token tells
which of these the call has reached, or what comes next on the spine (`FirstTokenTells`,
`NextTokenTells`); so the parser has no choice the grammar does not force, and at the end all items of the
whole text are the one that was read.  The leaves the walk has still to visit are the tokens not yet found to be
allowed (`Covers`), so what it refuses is what `IsLegal` refuses.

*`TextKept` and `ValueKept`.*  A cell whose formula is not what its own text is read as is the rule: `A+(B+C)`
is printed without parentheses and read as `(A+B)+C`, and `-(A*B)` as `(-A)*B`.  So the argument is not that printing
and reading are inverse.  Of the trees with a given text one is `Normal`: no sign stands before a product, no right
operand binds just as its operator but under `-` and `/`, and each literal is as it is printed.  Every tree has a
normal one with the same text (`Reread`): a sign moves to the first factor (`SignJoin`), and a right operand without
parentheses gives its own left operand to the operator in front of it, again and again (`Join`).  What is computed is the same, since
sums and products associate and a sign may be taken out of a product (`FractionsAssociate`, `SignsAssociate`); where a divisor is
a product under a sign the move would take a factor out of the divisor, which is the exception of
`ValueSettles`.  The grammar derives a normal tree from its text (`NormalReads`), and no other
(`WholeIsUnique`: what is read of a text from some place on, for a given priority, is one item; the
`Spine` of the proof about the parser is used again).  So a text that is entered gives the normal tree of that text
(`TextParsed`), whose text is the same.

*`EveryPairGroups`.*  An item has at least the tokens of the text of its tree, and two more where it binds
more than what is at its root (`MadeIsWide`): the parentheses that `PRECEDENCE_RULES` prints are among those the grammar
must have had.  So no text that is read as a tree is shorter than the one printed of it, and a text that has lost a pair of
parentheses is (`ShorterIsOther`).

*Only model-checked:* liveness
(`SetCellEnds`, `RecalculationEnds`, `ConversionEnds`), which the prover does not reach; and
`NoExcessParens`, which would need that two expressions differ for some values of their atoms.
The library's induction theorems take an operator as a parameter, which the installed
provers cannot instantiate.  The graph lemmas avoid induction by speaking of closed sets; a function on
an interval or on parts of one (`Run`, `Items`, `Trees`, the tokens of a text) is dealt with by its least
counterexample (`LeastNatural`).  Functions that go down a tree (`DoPrintFormula`, `Typed`, `Evaluate`, `Parts`,
`Unsigned`) exist because the trees a tree consists of form a graph without a cycle (`TreeRecursion`), as the tables of
values do, and what holds of all trees is proved of the set of those it holds of (`TreeInduction`).  No module of the
project has a RECURSIVE operator.

## Not modelled

The ANTLR runtime, with the copy of googletest that comes with it
(`src/antlr4_runtime`), and the ANTLR tool, but for what a parse takes from them: `Consume` is
`Parser::consume`, `Lex` is `Lexer::nextToken`, and the rule `expr` is modelled as the tool compiles it.  They are
third-party code that the program calls as a library, and nearly all the lines of the repository: the
program's own are about 1,700, of which the modules cover the larger part, and a model of the rest
would say nothing about spreadsheets.

The tests (read as statements about the program), the test runner, build files and
diagrams.  `PrintTexts`, `GetPrintableSize`, the output operators and `Cell::Clear` change no state or have no
caller.  Memory exhaustion; the limit of the stack, other than for a cycle; the
rounding of doubles.

## Plan

In order of what matters most to a user of the table:

1. *(done)* `Sheet` with its callers, its contract, and its proofs.
2. *(done)* `FormulaText`: printing with `PRECEDENCE_RULES`, reading by `Formula.g4`.
3. *(done)* `PositionText` against a reference numbering, and the proof that it reads back.
4. *(done)* `TextCell` and `FormulaParser`, against `strtod` and the grammar.
5. *(done)* `SetCellSteps`, with both walks, and the proof that it implements `SetCell`.
6. *(done)* `Recalculation`, which implements `Show`.
7. *(done)* The proofs about `Recalculation`.
8. *(done)* The proofs about texts: `PositionText` in the other direction, `TextCell`, and the stack of
   the parser; and how many calls the walks of `SetCell` make.
9. *(done)* The proof that the parser parses what the grammar derives.
10. *(done)* The proofs about `FormulaText`.
