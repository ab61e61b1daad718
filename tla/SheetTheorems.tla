--------------------------- MODULE SheetTheorems ---------------------------
(***************************************************************************)
(* What holds of the table for every size of it and every formula          *)
(* language.                                                               *)
(*                                                                         *)
(* For every caller: the types, the absence of reference cycles, the       *)
(* printed area, and the stability of the pointers that GetCell hands out. *)
(*                                                                         *)
(* For the callers that clear isolated cells only: dependents_ mirrors the *)
(* references, no call crashes, no cache is stale; and so the table        *)
(* implements the contract of SheetInterface.                              *)
(***************************************************************************)
EXTENDS SheetRefinement, GeneralTheorems

\* GetReferencedCells yields positions of the table, for any text.
LEMMA RefsType ==
    ASSUME NEW text
    PROVE  Refs(text) \in SUBSET Pos
BY EvaluateAssumption DEF Refs

\* Every position references positions of the table.
LEMMA ReferencesType ==
    References \in [Pos -> SUBSET Pos]
BY RefsType DEF References

\* UpdatePrintSize: no cell lies outside the size, and the last row and the
\* last column inside have one.
LEMMA BoundingSizeProperties ==
    ASSUME NEW occ \in SUBSET Pos, NEW size, size = BoundingSize(occ)
    PROVE  /\ size \in [rows : 0..MAX_ROWS, cols : 0..MAX_COLS]
           /\ \A p \in occ : p[1] < size.rows /\ p[2] < size.cols
           /\ size.rows = 0 \/ \E p \in occ : p[1] = size.rows - 1
           /\ size.cols = 0 \/ \E p \in occ : p[2] = size.cols - 1
<1>. DEFINE R == {0} \cup {p[1] + 1 : p \in occ}
            C == {0} \cup {p[2] + 1 : p \in occ}
<1>1. \A p \in occ : /\ p[1] \in Int /\ p[1] + 1 \in 0..MAX_ROWS
                     /\ p[2] \in Int /\ p[2] + 1 \in 0..MAX_COLS
      BY BoundsAssumption DEF Pos
<1>2. /\ R \in SUBSET (0..MAX_ROWS) /\ R # {}
      /\ C \in SUBSET (0..MAX_COLS) /\ C # {}
      BY <1>1, BoundsAssumption
<1>3. /\ \A p \in occ : p[1] + 1 \in R /\ p[2] + 1 \in C
      /\ \A y \in R : y = 0 \/ \E p \in occ : y = p[1] + 1
      /\ \A y \in C : y = 0 \/ \E p \in occ : y = p[2] + 1
      OBVIOUS
<1>4. size = [rows |-> Max(R), cols |-> Max(C)]
      BY DEF BoundingSize
<1>. HIDE DEF R, C
<1>5. /\ size.rows \in R /\ \A y \in R : y <= size.rows
      /\ size.cols \in C /\ \A y \in C : y <= size.cols
      BY <1>2, <1>4, MaxOfBounded, BoundsAssumption
<1>6. size \in [rows : 0..MAX_ROWS, cols : 0..MAX_COLS]
      BY <1>2, <1>4, <1>5
<1>7. \A p \in occ : p[1] + 1 <= size.rows /\ p[2] + 1 <= size.cols
      BY <1>3, <1>5
<1>8. /\ size.rows = 0 \/ \E p \in occ : size.rows = p[1] + 1
      /\ size.cols = 0 \/ \E p \in occ : size.cols = p[2] + 1
      BY <1>3, <1>5
<1>9. size.rows \in Int /\ size.cols \in Int
      BY <1>6, BoundsAssumption
<1>. QED BY <1>1, <1>6, <1>7, <1>8, <1>9

\* SetCell of an accepted text, whichever way it ends, keeps the types.
LEMMA StoreKeepsTypes ==
    ASSUME TypeOK,
           NEW pos \in Pos,
           NEW text \in Text \ BadFormulaText,
           NEW fresh \in Injection(Created(pos, Refs(text)), Addr \ Live),
           StoreAt(pos, text, fresh)
    PROVE  TypeOK'
<1>. DEFINE new  == Allocated(fresh)
            at   == CellsWith(fresh)
            deps == UpdatedDependencies(at, DependentsWith(fresh), pos,
                                        References[pos], Refs(text))
<1>1. fresh \in [Created(pos, Refs(text)) -> Addr \ Live]
      BY DEF Injection
<1>2. DOMAIN fresh \subseteq Pos /\ \A p \in DOMAIN fresh : fresh[p] \in Addr
      BY <1>1, RefsType DEF Created
<1>3. at \in [Pos -> Addr \cup {Null}] /\ at[pos] \in Addr
      BY <1>1, <1>2 DEF CellsWith, TypeOK, Created, Occupied
<1>4. deps \in [Addr -> SUBSET Addr]
      BY <1>3 DEF UpdatedDependencies, DependentsWith, TypeOK
<1>5. Occupied \cup DOMAIN fresh \in SUBSET Pos
      BY <1>2 DEF Occupied
<1>6. EmptyText \in Text \ BadFormulaText
      BY TextAssumption DEF Text
<1>7. CASE UNCHANGED <<cells, impl, cache, dependents, print_size>>
           /\ outcome' \in Crash
      BY <1>7 DEF TypeOK
<1>8. CASE /\ cells' = at
           /\ impl' = [a \in Addr |-> CASE a = at[pos] -> text
                                        [] a \in new \ {at[pos]} -> EmptyText
                                        [] OTHER -> impl[a]]
           /\ dependents' = deps
           /\ cache' = [a \in Addr |-> IF a \in new \cup InvalidatedFrom(at[pos], deps)
                                       THEN NoValue ELSE cache[a]]
           /\ print_size' = BoundingSize(Occupied \cup DOMAIN fresh)
           /\ outcome' = "ok"
      <2>1. cells' \in [Pos -> Addr \cup {Null}]
            BY <1>3, <1>8
      <2>2. impl' \in [Addr -> Text \ BadFormulaText]
            <3>. HIDE DEF at, new
            <3>. QED BY <1>6, <1>8 DEF TypeOK
      <2>3. cache' \in [Addr -> Value \cup {NoValue}]
            <3>. HIDE DEF at, new, deps
            <3>. QED BY <1>8 DEF TypeOK
      <2>4. dependents' \in [Addr -> SUBSET Addr]
            BY <1>4, <1>8
      <2>5. print_size' \in [rows : 0..MAX_ROWS, cols : 0..MAX_COLS]
            BY <1>5, <1>8, BoundingSizeProperties
      <2>6. outcome' \in {"ok"} \cup Exception \cup Crash
            BY <1>8
      <2>. QED BY <2>1, <2>2, <2>3, <2>4, <2>5, <2>6 DEF TypeOK
<1>. QED BY <1>7, <1>8 DEF StoreAt, Crash

\* GetValue computes and caches nothing but formulas without a cached value.
LEMMA EvaluatedIsPending ==
    ASSUME TypeOK, NEW roots \in SUBSET Pos, NEW w
    PROVE  EvaluatedBy(roots, w) \subseteq Pending
<1>. DEFINE reads == [p \in Pos |-> IF p \in Pending
                                    THEN Reads(TextAt(p), Values(w)) \cap Pending
                                    ELSE {}]
<1>1. Pending \in SUBSET Pos
      BY DEF Pending, Occupied
<1>2. reads \in [Pos -> SUBSET Pos]
      BY <1>1
<1>3. IsClosed(Pending, reads)
      BY <1>1 DEF IsClosed
<1>4. roots \cap Pending \in SUBSET Pos /\ roots \cap Pending \subseteq Pending
      OBVIOUS
<1>5. ReachableFrom(roots \cap Pending, reads) \subseteq Pending
      <2>. HIDE DEF reads
      <2>. QED BY <1>1, <1>2, <1>3, <1>4, ReachableIsLeast
<1>. QED BY <1>5 DEF EvaluatedBy

\* GetValue and PrintValues store values, and touch nothing but caches.
LEMMA ShowKeepsTypes ==
    ASSUME TypeOK, NEW roots \in SUBSET Pos, Show(roots)
    PROVE  TypeOK'
<1>1. PICK w \in [Pending -> Value] :
         /\ cache' = [a \in Addr |->
                        IF \E p \in EvaluatedBy(roots, w) : cells[p] = a
                        THEN w[CHOOSE p \in EvaluatedBy(roots, w) : cells[p] = a]
                        ELSE cache[a]]
         /\ outcome' = "ok"
         /\ UNCHANGED <<cells, impl, dependents, print_size>>
      BY DEF Show
<1>2. EvaluatedBy(roots, w) \subseteq Pending
      BY EvaluatedIsPending
<1>3. cache' \in [Addr -> Value \cup {NoValue}]
      BY <1>1, <1>2 DEF TypeOK
<1>. QED BY <1>1, <1>3 DEF TypeOK

\* ClearCell keeps the types, whether the position has a cell or not.
LEMMA ClearKeepsTypes ==
    ASSUME TypeOK, NEW pos \in Pos, ClearCell(pos)
    PROVE  TypeOK'
<1>1. Occupied \ {pos} \in SUBSET Pos
      BY DEF Occupied
<1>2. EmptyText \in Text \ BadFormulaText
      BY TextAssumption DEF Text
<1>3. CASE cells[pos] = Null
      BY <1>3 DEF ClearCell, TypeOK
<1>4. CASE cells[pos] # Null
      <2>1. print_size' \in [rows : 0..MAX_ROWS, cols : 0..MAX_COLS]
            BY <1>1, <1>4, BoundingSizeProperties DEF ClearCell
      <2>. QED BY <1>2, <1>4, <2>1 DEF ClearCell, TypeOK
<1>. QED BY <1>3, <1>4

\* What a call other than ClearCell does: it throws, is accepted by SetCell,
\* or shows a value.
LEMMA CallCases ==
    ASSUME NEW pos \in ArgPos, Call(pos)
    PROVE  \/ \E exception \in Exception : Throw(exception)
           \/ \E p \in Pos, text \in Text \ BadFormulaText : SetCellStore(p, text)
           \/ \E roots \in SUBSET Pos : Show(roots)
<1>1. IsValid(pos) => pos \in Pos
      BY ArgPosAssumption, BoundsAssumption DEF IsValid, Pos
<1>2. CASE RejectPosition(pos)
      BY <1>2 DEF RejectPosition, Exception
<1>3. ASSUME NEW text \in Text, SetCell(pos, text)
      PROVE  \/ \E exception \in Exception : Throw(exception)
             \/ \E p \in Pos, t \in Text \ BadFormulaText : SetCellStore(p, t)
      BY <1>1, <1>3
         DEF SetCell, SetCellBadFormula, SetCellCircular, SetCellStore, Exception
<1>4. CASE GetValue(pos)
      BY <1>1, <1>4 DEF GetValue
<1>. QED BY <1>2, <1>3, <1>4 DEF Call

\* What a step of any caller does.
LEMMA StepCases ==
    ASSUME Next
    PROVE  \/ \E exception \in Exception : Throw(exception)
           \/ \E pos \in Pos, text \in Text \ BadFormulaText : SetCellStore(pos, text)
           \/ \E roots \in SUBSET Pos : Show(roots)
           \/ \E pos \in Pos : ClearCell(pos)
<1>1. CASE PrintValues
      BY <1>1 DEF PrintValues, PrintArea
<1>2. ASSUME NEW pos \in ArgPos, ClearCell(pos)
      PROVE  \E p \in Pos : ClearCell(p)
      <2>1. IsValid(pos)
            BY <1>2 DEF ClearCell
      <2>2. pos \in Pos
            BY <2>1, ArgPosAssumption, BoundsAssumption DEF IsValid, Pos
      <2>. QED BY <1>2, <2>2
<1>. QED BY <1>1, <1>2, CallCases DEF Next

\* TypeOK is inductive as it stands.
LEMMA NextKeepsTypes ==
    ASSUME TypeOK, [Next]_vars
    PROVE  TypeOK'
<1>1. CASE UNCHANGED vars
      BY <1>1 DEF vars, TypeOK
<1>2. ASSUME NEW exception \in Exception, Throw(exception)
      PROVE  TypeOK'
      BY <1>2 DEF Throw, TypeOK
<1>3. ASSUME NEW pos \in Pos, NEW text \in Text \ BadFormulaText,
             SetCellStore(pos, text)
      PROVE  TypeOK'
      BY <1>3, StoreKeepsTypes DEF SetCellStore
<1>4. ASSUME NEW roots \in SUBSET Pos, Show(roots)
      PROVE  TypeOK'
      BY <1>4, ShowKeepsTypes
<1>5. ASSUME NEW pos \in Pos, ClearCell(pos)
      PROVE  TypeOK'
      BY <1>5, ClearKeepsTypes
<1>. QED BY <1>1, <1>2, <1>3, <1>4, <1>5, StepCases

\* Every variable keeps its type, whoever calls and in whatever order.
THEOREM TypeCorrect == Spec => []TypeOK
<1>1. Init => TypeOK
      BY BoundsAssumption, TextAssumption DEF Init, TypeOK, Text
<1>2. TypeOK /\ [Next]_vars => TypeOK'
      BY NextKeepsTypes
<1>. QED BY <1>1, <1>2, PTL DEF Spec

---------------------------------------------------------------------------
(***************************************************************************)
(* The reference graph.                                                    *)
(***************************************************************************)

\* The invariant behind AlwaysAcyclic: a text read through a shared cell would
\* change at two positions at once, hence OneOwner.
IInv == TypeOK /\ OneOwner /\ ReferencesAcyclic

\* SetCell, when it returns, has changed the text of the written position and
\* of no other: the cells it creates are at blocks of their own, and empty.
LEMMA StoreWritesText ==
    ASSUME TypeOK, OneOwner,
           NEW pos \in Pos,
           NEW text \in Text \ BadFormulaText,
           NEW fresh \in Injection(Created(pos, Refs(text)), Addr \ Live),
           StoreAt(pos, text, fresh), outcome' = "ok"
    PROVE  /\ OneOwner'
           /\ \A p \in Pos : TextAt(p)' = IF p = pos THEN text ELSE TextAt(p)
           /\ References' = [References EXCEPT ![pos] = Refs(text)]
<1>1. /\ fresh \in [Created(pos, Refs(text)) -> Addr \ Live]
      /\ \A p, q \in Created(pos, Refs(text)) : fresh[p] = fresh[q] => p = q
      BY DEF Injection, IsInjective
<1>2. Created(pos, Refs(text)) \in SUBSET Pos
      BY RefsType DEF Created
<1>3. /\ cells' = CellsWith(fresh)
      /\ impl' = [a \in Addr |->
                    CASE a = CellsWith(fresh)[pos] -> text
                      [] a \in Allocated(fresh) \ {CellsWith(fresh)[pos]} -> EmptyText
                      [] OTHER -> impl[a]]
      BY DEF StoreAt, Crash
<1>4. \A p \in Pos : cells'[p] = IF p \in Created(pos, Refs(text))
                                 THEN fresh[p] ELSE cells[p]
      BY <1>1, <1>3 DEF CellsWith
<1>5. \A p \in Pos : p \in Created(pos, Refs(text)) =>
         /\ cells[p] = Null
         /\ fresh[p] \in Addr \ Live
      BY <1>1, <1>2 DEF Created, Occupied
<1>6. \A p \in Occupied : cells[p] \in Live /\ cells[p] \in Addr
      BY DEF Occupied, Live, TypeOK
<1>7. Occupied' = Occupied \cup Created(pos, Refs(text))
      BY <1>2, <1>4, <1>5, NullAssumption DEF Occupied
<1>8. \A p, q \in Occupied' : cells'[p] = cells'[q] => p = q
      BY <1>1, <1>2, <1>4, <1>5, <1>6, <1>7 DEF OneOwner, Created, Occupied
<1>9. pos \in Occupied'
      BY <1>7 DEF Created
<1>10. impl'[cells'[pos]] = text
      BY <1>3, <1>4, <1>5, <1>6, <1>7, <1>9 DEF Created, Allocated
<1>11. ASSUME NEW p \in Pos, p # pos
      PROVE  TextAt(p)' = TextAt(p)
      <2>1. CASE p \in Created(pos, Refs(text))
            <3>1. cells'[p] = fresh[p] /\ fresh[p] \in Addr /\ cells'[p] # cells'[pos]
                  BY <1>4, <1>5, <1>7, <1>8, <1>9, <1>11, <2>1
            <3>2. impl'[cells'[p]] = EmptyText
                  BY <1>1, <1>3, <2>1, <3>1 DEF Allocated
            <3>. QED BY <1>5, <2>1, <3>1, <3>2, NullAssumption DEF TextAt
      <2>2. CASE p \in Occupied
            <3>1. /\ cells'[p] = cells[p] /\ cells[p] \in Addr /\ cells[p] \in Live
                  /\ cells'[p] # cells'[pos]
                  BY <1>4, <1>6, <1>7, <1>8, <1>9, <1>11, <2>2 DEF Created
            <3>2. cells[p] \notin Allocated(fresh)
                  BY <1>1, <3>1 DEF Allocated
            <3>3. impl'[cells'[p]] = impl[cells[p]]
                  BY <1>3, <3>1, <3>2
            <3>. QED BY <3>1, <3>3 DEF TextAt
      <2>3. CASE p \notin Occupied /\ p \notin Created(pos, Refs(text))
            BY <1>4, <2>3 DEF TextAt, Occupied
      <2>. QED BY <2>1, <2>2, <2>3
<1>12. TextAt(pos)' = text
      BY <1>9, <1>10 DEF TextAt, Occupied
<1>13. References' = [References EXCEPT ![pos] = Refs(text)]
      BY <1>11, <1>12 DEF References, Refs
<1>. QED BY <1>8, <1>11, <1>12, <1>13 DEF OneOwner

\* However SetCell ends, the written position alone has new references.
LEMMA StoreChangesOneReference ==
    ASSUME TypeOK, OneOwner,
           NEW pos \in Pos,
           NEW text \in Text \ BadFormulaText,
           NEW fresh \in Injection(Created(pos, Refs(text)), Addr \ Live),
           StoreAt(pos, text, fresh)
    PROVE  /\ OneOwner'
           /\ \/ References' = References
              \/ References' = [References EXCEPT ![pos] = Refs(text)]
<1>1. CASE UNCHANGED <<cells, impl>>
      BY <1>1 DEF OneOwner, Occupied, References, TextAt, Refs
<1>2. CASE outcome' = "ok"
      BY <1>2, StoreWritesText
<1>. QED BY <1>1, <1>2 DEF StoreAt

\* A text that CheckSelfReference and CheckCircularDependency let through
\* closes no cycle.
LEMMA AcceptedClosesNoCycle ==
    ASSUME ReferencesAcyclic, NEW pos \in Pos, NEW text, ~IsCircular(pos, text)
    PROVE  /\ pos \notin Refs(text)
           /\ IsAcyclic([References EXCEPT ![pos] = Refs(text)])
<1>. DEFINE after == [References EXCEPT ![pos] = Refs(text)]
            reach == ReachableFrom(Refs(text), References)
            C     == reach \ {pos}
<1>1. /\ reach \subseteq Pos
      /\ Refs(text) \subseteq reach
      /\ IsClosed(reach, References)
      BY RefsType, ReferencesType, ReachableIsClosed
<1>2. pos \notin Refs(text) /\ \A p \in reach : pos \notin References[p]
      BY DEF IsCircular, CheckSelfReference, CheckCircularDependency
<1>3. IsClosed(C, References) /\ Refs(text) \subseteq C
      BY <1>1, <1>2 DEF IsClosed
<1>4. after \in [Pos -> SUBSET Pos] /\ after[pos] = Refs(text)
      BY RefsType, ReferencesType
<1>5. \A p \in Pos \ {pos} : after[p] = References[p]
      BY ReferencesType
<1>6. C \in SUBSET Pos /\ pos \notin C
      BY <1>1
<1>7. IsAcyclic(after)
      <2>. HIDE DEF after, C
      <2>. QED BY <1>3, <1>4, <1>5, <1>6, ReferencesType, AcyclicAfterUpdate
               DEF ReferencesAcyclic
<1>. QED BY <1>2, <1>7

\* SetCell of an accepted text keeps the reference graph acyclic.
LEMMA StoreKeepsAcyclic ==
    ASSUME TypeOK, OneOwner, ReferencesAcyclic,
           NEW pos \in Pos,
           NEW text \in Text \ BadFormulaText,
           SetCellStore(pos, text)
    PROVE  OneOwner' /\ ReferencesAcyclic'
<1>1. IsAcyclic([References EXCEPT ![pos] = Refs(text)])
      BY AcceptedClosesNoCycle DEF SetCellStore
<1>2. /\ OneOwner'
      /\ \/ References' = References
         \/ References' = [References EXCEPT ![pos] = Refs(text)]
      BY StoreChangesOneReference DEF SetCellStore
<1>. QED BY <1>1, <1>2 DEF ReferencesAcyclic, IsAcyclic

\* ClearCell takes references away and moves no cell.
LEMMA ClearKeepsAcyclic ==
    ASSUME TypeOK, OneOwner, ReferencesAcyclic, NEW pos \in Pos, ClearCell(pos)
    PROVE  OneOwner' /\ ReferencesAcyclic'
<1>1. CASE UNCHANGED <<cells, impl>>
      BY <1>1 DEF OneOwner, Occupied, ReferencesAcyclic, References, TextAt, Refs, IsAcyclic
<1>2. CASE /\ cells[pos] # Null
           /\ cells' = [cells EXCEPT ![pos] = Null]
           /\ impl' = [impl EXCEPT ![cells[pos]] = EmptyText]
      <2>1. \A p \in Pos : cells'[p] = IF p = pos THEN Null ELSE cells[p]
            BY <1>2 DEF TypeOK
      <2>2. Occupied' = Occupied \ {pos}
            BY <2>1 DEF Occupied
      <2>3. OneOwner'
            <3>1. Occupied \subseteq Pos
                  BY DEF Occupied
            <3>2. \A p, q \in Occupied' : cells'[p] = cells'[q] => p = q
                  BY <2>1, <2>2, <3>1 DEF OneOwner
            <3>. QED BY <3>2 DEF OneOwner
      <2>4. \A p \in Pos : TextAt(p)' = IF p = pos THEN EmptyText ELSE TextAt(p)
            BY <1>2, <2>1 DEF TextAt, TypeOK, OneOwner, Occupied
      <2>5. \A p \in Pos : References'[p] \subseteq References[p]
            BY <2>4, TextAssumption DEF References, Refs
      <2>6. DOMAIN References' = DOMAIN References
            BY DEF References
      <2>7. \A p \in DOMAIN References : References'[p] \subseteq References[p]
            BY <2>5 DEF References
      <2>8. IsAcyclic(References')
            BY <2>6, <2>7 DEF ReferencesAcyclic, IsAcyclic
      <2>. QED BY <2>3, <2>8 DEF ReferencesAcyclic, IsAcyclic
<1>. QED BY <1>1, <1>2 DEF ClearCell

\* IInv is inductive for every caller.
LEMMA NextKeepsAcyclic ==
    ASSUME IInv, [Next]_vars
    PROVE  IInv'
<1>1. TypeOK'
      BY NextKeepsTypes DEF IInv
<1>2. CASE UNCHANGED <<cells, impl>>
      BY <1>1, <1>2
         DEF IInv, OneOwner, Occupied, ReferencesAcyclic, References, TextAt, Refs, IsAcyclic
<1>3. ASSUME NEW pos \in Pos, NEW text \in Text \ BadFormulaText,
             SetCellStore(pos, text)
      PROVE  IInv'
      BY <1>1, <1>3, StoreKeepsAcyclic DEF IInv
<1>4. ASSUME NEW pos \in Pos, ClearCell(pos)
      PROVE  IInv'
      BY <1>1, <1>4, ClearKeepsAcyclic DEF IInv
<1>5. CASE UNCHANGED vars
      BY <1>2, <1>5 DEF vars
<1>6. ASSUME NEW exception \in Exception, Throw(exception)
      PROVE  IInv'
      BY <1>2, <1>6 DEF Throw
<1>7. ASSUME NEW roots \in SUBSET Pos, Show(roots)
      PROVE  IInv'
      BY <1>2, <1>7 DEF Show
<1>. QED BY <1>3, <1>4, <1>5, <1>6, <1>7, StepCases

\* The empty table satisfies IInv.
LEMMA InitInductive ==
    ASSUME Init
    PROVE  IInv
<1>1. TypeOK
      BY BoundsAssumption, TextAssumption DEF Init, TypeOK, Text
<1>2. Occupied = {} /\ \A p \in Pos : References[p] = {}
      BY TextAssumption DEF Init, Occupied, References, TextAt, Refs
<1>3. DOMAIN References = Pos
      BY DEF References
<1>. QED BY <1>1, <1>2, <1>3 DEF IInv, OneOwner, ReferencesAcyclic, IsAcyclic

\* No chain of references ever closes, whatever is set, overwritten and
\* cleared: CheckSelfReference and CheckCircularDependency, which look at the
\* table only when a formula is set, are enough.
THEOREM AlwaysAcyclic == Spec => []ReferencesAcyclic
<1>1. Init => IInv
      BY InitInductive
<1>2. IInv /\ [Next]_vars => IInv'
      BY NextKeepsAcyclic
<1>3. IInv => ReferencesAcyclic
      BY DEF IInv
<1>. QED BY <1>1, <1>2, <1>3, PTL DEF Spec

\* A text refused for its references would close a cycle: the written position
\* is found where the walk leads, before the walk could pass it.
LEMMA RefusedClosesCycle ==
    ASSUME ReferencesAcyclic, NEW pos \in Pos, NEW text, IsCircular(pos, text)
    PROVE  ~IsAcyclic([References EXCEPT ![pos] = Refs(text)])
<1>. DEFINE after == [References EXCEPT ![pos] = Refs(text)]
<1>1. /\ after \in [Pos -> SUBSET Pos] /\ after[pos] = Refs(text)
      /\ \A p \in Pos \ {pos} : after[p] = References[p]
      BY RefsType, ReferencesType
<1>. HIDE DEF after
<1>2. ASSUME pos \in Refs(text), IsAcyclic(after)
      PROVE  FALSE
      BY <1>1, <1>2, AcyclicHasNoSelfLoop
<1>3. ASSUME NEW p \in ReachableFrom(Refs(text), References), pos \in References[p],
             IsAcyclic(after)
      PROVE  FALSE
      <2>1. ASSUME NEW X \in SUBSET Pos, after[pos] \subseteq X, IsClosed(X, after)
            PROVE  pos \in X
            <3>1. SUFFICES ASSUME pos \notin X PROVE FALSE
                  OBVIOUS
            <3>2. IsClosed(X, References)
                  BY <1>1, <2>1, <3>1 DEF IsClosed
            <3>3. p \in X
                  BY <1>1, <1>3, <2>1, <3>2, RefsType, ReferencesType, ReachableIsLeast
            <3>. QED BY <1>3, <2>1, <3>1, <3>2, <3>3 DEF IsClosed
      <2>2. OnCycle(pos, after)
            BY <1>1, <2>1 DEF OnCycle, ReachableFrom
      <2>. QED BY <1>1, <1>3, <2>2, AcyclicHasNoCycle
<1>4. ASSUME NEW p \in ReachableFrom(Refs(text), References), OnCycle(p, References)
      PROVE  FALSE
      <2>1. p \in Pos
            BY <1>4, ReferencesType DEF ReachableFrom
      <2>. QED BY <1>4, <2>1, ReferencesType, AcyclicHasNoCycle DEF ReferencesAcyclic
<1>. QED BY <1>2, <1>3, <1>4
         DEF IsCircular, CheckSelfReference, CheckCircularDependency, after

\* The cycle check errs on neither side, for any table a caller can get to and
\* for any formula.
THEOREM CycleCheckAlwaysExact == Spec => []CycleCheckExact
<1>1. ASSUME ReferencesAcyclic
      PROVE  CycleCheckExact
      BY <1>1, AcceptedClosesNoCycle, RefusedClosesCycle DEF CycleCheckExact
<1>. QED BY <1>1, AlwaysAcyclic, PTL

---------------------------------------------------------------------------
(***************************************************************************)
(* The printed area, and the pointers callers hold.                        *)
(***************************************************************************)

\* UpdatePrintSize runs whenever a cell appears or goes, and so the size is
\* always that of the rectangle around the cells there are.
PrintSizeIsBounding == print_size = BoundingSize(Occupied)

\* The bounding rectangle of the cells is the PrintAreaFits area.
LEMMA BoundingSizeFits ==
    ASSUME TypeOK, PrintSizeIsBounding
    PROVE  PrintAreaFits
<1>1. Occupied \in SUBSET Pos
      BY DEF Occupied
<1>2. /\ \A p \in Occupied : p[1] < print_size.rows /\ p[2] < print_size.cols
      /\ print_size.rows = 0 \/ \E p \in Occupied : p[1] = print_size.rows - 1
      /\ print_size.cols = 0 \/ \E p \in Occupied : p[2] = print_size.cols - 1
      BY <1>1, BoundingSizeProperties DEF PrintSizeIsBounding
<1>3. \A p \in Occupied : /\ p[1] \in Int /\ p[1] >= 0
                          /\ p[2] \in Int /\ p[2] >= 0
      BY <1>1, BoundsAssumption DEF Pos
<1>4. print_size.rows \in Int /\ print_size.cols \in Int
      BY BoundsAssumption DEF TypeOK
<1>5. Occupied \subseteq PrintArea
      BY <1>1, <1>2 DEF PrintArea
<1>6. print_size.rows = 0 <=> print_size.cols = 0
      BY <1>2, <1>3, <1>4
<1>. QED BY <1>2, <1>4, <1>5, <1>6 DEF PrintAreaFits

\* The cells that SetCell adds to cells_ are those it creates.
LEMMA StoreOccupies ==
    ASSUME TypeOK,
           NEW pos \in Pos,
           NEW text \in Text \ BadFormulaText,
           NEW fresh \in Injection(Created(pos, Refs(text)), Addr \ Live),
           cells' = CellsWith(fresh)
    PROVE  /\ Occupied' = Occupied \cup DOMAIN fresh
           /\ \A p \in Occupied : cells'[p] = cells[p]
<1>1. /\ DOMAIN fresh = Created(pos, Refs(text))
      /\ \A p \in DOMAIN fresh : fresh[p] \in Addr
      BY DEF Injection
<1>2. DOMAIN fresh \in SUBSET Pos /\ DOMAIN fresh \cap Occupied = {}
      BY <1>1, RefsType DEF Created
<1>3. \A p \in Pos : cells'[p] = IF p \in DOMAIN fresh THEN fresh[p] ELSE cells[p]
      BY DEF CellsWith
<1>. QED BY <1>1, <1>2, <1>3, NullAssumption DEF Occupied

\* Every call that adds or removes a cell recomputes the size.
LEMMA NextKeepsPrintSize ==
    ASSUME TypeOK, PrintSizeIsBounding, [Next]_vars
    PROVE  PrintSizeIsBounding'
<1>1. CASE UNCHANGED <<cells, print_size>>
      <2>1. Occupied' = Occupied
            BY <1>1 DEF Occupied
      <2>2. BoundingSize(Occupied)' = BoundingSize(Occupied)
            BY <2>1 DEF BoundingSize
      <2>. QED BY <1>1, <2>2 DEF PrintSizeIsBounding
<1>2. ASSUME NEW pos \in Pos, NEW text \in Text \ BadFormulaText,
             SetCellStore(pos, text)
      PROVE  PrintSizeIsBounding'
      <2>1. PICK fresh \in Injection(Created(pos, Refs(text)), Addr \ Live) :
               StoreAt(pos, text, fresh)
            BY <1>2 DEF SetCellStore
      <2>2. CASE /\ cells' = CellsWith(fresh)
                 /\ print_size' = BoundingSize(Occupied \cup DOMAIN fresh)
            BY <2>2, StoreOccupies DEF PrintSizeIsBounding
      <2>. QED BY <1>1, <2>1, <2>2 DEF StoreAt
<1>3. ASSUME NEW pos \in Pos, ClearCell(pos)
      PROVE  PrintSizeIsBounding'
      <2>1. CASE cells[pos] # Null
            <3>1. \A p \in Pos : cells'[p] = IF p = pos THEN Null ELSE cells[p]
                  BY <1>3, <2>1 DEF ClearCell, TypeOK
            <3>2. Occupied' = Occupied \ {pos}
                  BY <3>1 DEF Occupied
            <3>. QED BY <1>3, <2>1, <3>2 DEF ClearCell, PrintSizeIsBounding
      <2>. QED BY <1>1, <1>3, <2>1 DEF ClearCell
<1>4. CASE UNCHANGED vars
      BY <1>1, <1>4 DEF vars
<1>5. ASSUME NEW exception \in Exception, Throw(exception)
      PROVE  PrintSizeIsBounding'
      BY <1>1, <1>5 DEF Throw
<1>6. ASSUME NEW roots \in SUBSET Pos, Show(roots)
      PROVE  PrintSizeIsBounding'
      BY <1>1, <1>6 DEF Show
<1>. QED BY <1>2, <1>3, <1>4, <1>5, <1>6, StepCases

\* PrintValues and PrintTexts leave out no cell, and the area they print is
\* the smallest that does not.
THEOREM PrintAreaAlwaysFits == Spec => []PrintAreaFits
<1>1. Init => PrintSizeIsBounding
      <2>1. SUFFICES ASSUME Init PROVE PrintSizeIsBounding
            OBVIOUS
      <2>2. Occupied = {}
            BY <2>1 DEF Init, Occupied
      <2>3. BoundingSize({}) \in [rows : 0..MAX_ROWS, cols : 0..MAX_COLS]
            BY BoundingSizeProperties
      <2>4. BoundingSize({}).rows = 0 /\ BoundingSize({}).cols = 0
            BY BoundingSizeProperties
      <2>5. BoundingSize({}) = [rows |-> 0, cols |-> 0]
            BY <2>3, <2>4
      <2>. QED BY <2>1, <2>2, <2>5 DEF Init, PrintSizeIsBounding
<1>2. TypeOK /\ PrintSizeIsBounding /\ [Next]_vars => PrintSizeIsBounding'
      BY NextKeepsPrintSize
<1>3. TypeOK /\ PrintSizeIsBounding => PrintAreaFits
      BY BoundingSizeFits
<1>. QED BY <1>1, <1>2, <1>3, TypeCorrect, PTL DEF Spec

\* A pointer from GetCell is good until its cell is cleared.
THEOREM CellsNeverMove == Spec => CellsStayPut
<1>. DEFINE StaysPut == \A p \in Pos : cells[p] # Null => cells'[p] \in {cells[p], Null}
<1>1. ASSUME TypeOK, [Next]_vars
      PROVE  [StaysPut]_cells
      <2>1. ASSUME NEW pos \in Pos, NEW text \in Text \ BadFormulaText,
                   SetCellStore(pos, text)
            PROVE  [StaysPut]_cells
            BY <1>1, <2>1, StoreOccupies DEF SetCellStore, StoreAt, Occupied
      <2>2. ASSUME NEW pos \in Pos, ClearCell(pos)
            PROVE  [StaysPut]_cells
            BY <1>1, <2>2 DEF ClearCell, TypeOK
      <2>3. CASE UNCHANGED cells
            BY <2>3
      <2>. QED BY <1>1, <2>1, <2>2, <2>3, StepCases DEF Throw, Show, vars
<1>. QED BY <1>1, TypeCorrect, PTL DEF Spec, CellsStayPut

---------------------------------------------------------------------------
(***************************************************************************)
(* The callers that clear isolated cells only.                             *)
(***************************************************************************)
\* No living cell has a destroyed one among its dependents_.
DependentsAlive == \A p \in Occupied : dependents[cells[p]] \subseteq Live

\* The table without its caches.
Linked == IInv /\ DependentsAlive /\ DependentsMirrorReferences

\* dependents_ of every cell after UpdateDependencies, the positions that
\* then have a cell, and the references of every position.
DependentsAfter(pos, text, fresh) ==
    UpdatedDependencies(CellsWith(fresh), DependentsWith(fresh), pos,
                        References[pos], Refs(text))

OccupiedAfter(fresh) == Occupied \cup DOMAIN fresh

ReferencesAfter(pos, text) == [References EXCEPT ![pos] = Refs(text)]

\* A graph of cells, at giving their addresses, and the formulas' references:
\* a cell depends on another just when its formula references it.
Mirrors(at, occ, deps, refs) ==
    /\ \A p \in occ : deps[at[p]] \subseteq {at[q] : q \in occ}
    /\ \A q \in occ : refs[q] \subseteq occ
    /\ \A p, q \in occ : at[q] \in deps[at[p]] <=> p \in refs[q]

\* UpdateDependencies keeps the mirror, among the cells there were and those
\* SetCell has just created.
LEMMA UpdatedMirror ==
    ASSUME Linked,
           NEW pos \in Pos,
           NEW text \in Text \ BadFormulaText,
           pos \notin Refs(text),
           NEW fresh \in Injection(Created(pos, Refs(text)), Addr \ Live)
    PROVE  /\ OccupiedAfter(fresh) \in SUBSET Pos
           /\ pos \in OccupiedAfter(fresh)
           /\ {CellsWith(fresh)[p] : p \in OccupiedAfter(fresh)} = Live \cup Allocated(fresh)
           /\ DependentsAfter(pos, text, fresh) \in [Addr -> SUBSET Addr]
           /\ ReferencesAfter(pos, text) \in [Pos -> SUBSET Pos]
           /\ \A p \in OccupiedAfter(fresh) : CellsWith(fresh)[p] \in Addr
           /\ \A p \in Pos \ OccupiedAfter(fresh) : CellsWith(fresh)[p] = Null
           /\ Mirrors(CellsWith(fresh), OccupiedAfter(fresh),
                      DependentsAfter(pos, text, fresh), ReferencesAfter(pos, text))
<1>. DEFINE at   == CellsWith(fresh)
            new  == Allocated(fresh)
            base == DependentsWith(fresh)
            deps == DependentsAfter(pos, text, fresh)
            occ  == OccupiedAfter(fresh)
            old  == References[pos]
            refd == Refs(text)
            refs == ReferencesAfter(pos, text)
<1>1. /\ fresh \in [Created(pos, refd) -> Addr \ Live]
      /\ \A p, q \in Created(pos, refd) : fresh[p] = fresh[q] => p = q
      /\ DOMAIN fresh = Created(pos, refd)
      BY DEF Injection, IsInjective
<1>2. /\ refd \in SUBSET Pos
      /\ DOMAIN fresh \in SUBSET Pos
      /\ DOMAIN fresh \cap Occupied = {}
      /\ pos \in occ
      /\ refd \subseteq occ
      /\ occ = Occupied \cup DOMAIN fresh
      BY <1>1, RefsType DEF Created, OccupiedAfter
<1>3. /\ occ \in SUBSET Pos
      /\ TypeOK
      /\ \A p, q \in Occupied : cells[p] = cells[q] => p = q
      BY <1>2 DEF Occupied, OccupiedAfter, Linked, IInv, OneOwner
<1>4. \A p \in Pos : at[p] = IF p \in DOMAIN fresh THEN fresh[p] ELSE cells[p]
      BY DEF CellsWith
<1>5. \A p \in Occupied : at[p] = cells[p] /\ at[p] \in Live /\ at[p] \in Addr
      BY <1>2, <1>3, <1>4 DEF Occupied, Live, TypeOK
<1>6. \A p \in DOMAIN fresh : at[p] = fresh[p] /\ at[p] \in new /\ at[p] \in Addr \ Live
      BY <1>1, <1>2, <1>4 DEF Allocated
<1>7. \A p \in occ : at[p] \in Addr
      BY <1>5, <1>6 DEF OccupiedAfter
<1>8. \A p, q \in occ : at[p] = at[q] => p = q
      BY <1>1, <1>3, <1>5, <1>6 DEF OccupiedAfter
<1>9. \A p \in Pos \ occ : at[p] = Null
      BY <1>4 DEF Occupied, OccupiedAfter
<1>10. {at[p] : p \in occ} = Live \cup new
      <2>1. Live = {at[p] : p \in Occupied}
            BY <1>5 DEF Live
      <2>2. new = {at[p] : p \in DOMAIN fresh}
            BY <1>6 DEF Allocated
      <2>. QED BY <2>1, <2>2 DEF OccupiedAfter
<1>11. /\ \A p \in Occupied : base[at[p]] = dependents[cells[p]]
       /\ \A p \in DOMAIN fresh : base[at[p]] = {}
      BY <1>1, <1>5, <1>6 DEF DependentsWith, Allocated
<1>12. /\ \A p \in Occupied : dependents[cells[p]] \subseteq Live
       /\ old \subseteq Occupied
       /\ \A p \in Pos, q \in Occupied : p \in References[q] => p \in Occupied
       /\ \A p, q \in Occupied : cells[q] \in dependents[cells[p]] <=> p \in References[q]
      <2>1. \A p \in Occupied : dependents[cells[p]] \subseteq Live
            BY DEF Linked, DependentsAlive
      <2>2. /\ \A p \in Pos, q \in Occupied : p \in References[q] => p \in Occupied
            /\ \A p, q \in Occupied : cells[q] \in dependents[cells[p]] <=> p \in References[q]
            BY <1>2, <1>3 DEF Linked, DependentsMirrorReferences
      <2>3. pos \notin Occupied => old = {}
            BY TextAssumption DEF References, Occupied, TextAt, Refs
      <2>4. old \subseteq Pos
            BY ReferencesType
      <2>. QED BY <2>1, <2>2, <2>3, <2>4
<1>13. \A p \in occ : deps[at[p]] = IF p \in refd THEN base[at[p]] \cup {at[pos]}
                                    ELSE IF p \in old THEN base[at[p]] \ {at[pos]}
                                    ELSE base[at[p]]
      <2>1. pos \notin old
            BY ReferencesType, AcyclicHasNoSelfLoop DEF Linked, IInv, ReferencesAcyclic
      <2>2. /\ \A p \in occ : at[p] \in {at[r] : r \in refd \ {pos}} <=> p \in refd
            /\ \A p \in occ : at[p] \in {at[r] : r \in old \ {pos}} <=> p \in old
            BY <1>2, <1>8, <1>12, <2>1
      <2>. QED BY <1>7, <2>2 DEF DependentsAfter, UpdatedDependencies
<1>14. refs \in [Pos -> SUBSET Pos] /\ refs[pos] = refd
       /\ \A q \in Pos \ {pos} : refs[q] = References[q]
      BY <1>2, ReferencesType DEF ReferencesAfter
<1>18. deps \in [Addr -> SUBSET Addr]
      <2>1. base \in [Addr -> SUBSET Addr] /\ at[pos] \in Addr
            BY <1>2, <1>3, <1>7 DEF TypeOK, DependentsWith
      <2>. QED BY <2>1 DEF DependentsAfter, UpdatedDependencies
<1>. HIDE DEF at, new, base, deps, occ, old, refd, refs
<1>19. \A p \in occ : \A a :
          a \in deps[at[p]] <=> \/ a \in base[at[p]] /\ (a # at[pos] \/ p \notin old)
                                \/ a \in base[at[p]] /\ p \in refd
                                \/ a = at[pos] /\ p \in refd
       <2>1. SUFFICES ASSUME NEW p \in occ
                      PROVE  \A a : a \in deps[at[p]] <=>
                                \/ a \in base[at[p]] /\ (a # at[pos] \/ p \notin old)
                                \/ a \in base[at[p]] /\ p \in refd
                                \/ a = at[pos] /\ p \in refd
             OBVIOUS
       <2>2. CASE p \in refd
             <3>1. deps[at[p]] = base[at[p]] \cup {at[pos]}
                   BY <1>13, <2>1, <2>2
             <3>. QED BY <2>2, <3>1
       <2>3. CASE p \notin refd /\ p \in old
             <3>1. deps[at[p]] = base[at[p]] \ {at[pos]}
                   BY <1>13, <2>1, <2>3
             <3>. QED BY <2>3, <3>1
       <2>4. CASE p \notin refd /\ p \notin old
             <3>1. deps[at[p]] = base[at[p]]
                   BY <1>13, <2>1, <2>4
             <3>. QED BY <2>4, <3>1
       <2>. QED BY <2>2, <2>3, <2>4
<1>15. \A q \in occ : refs[q] \subseteq occ
      <2>1. \A q \in DOMAIN fresh : References[q] = {}
            BY <1>2, TextAssumption DEF References, Occupied, TextAt, Refs
      <2>. QED BY <1>2, <1>3, <1>12, <1>14, <2>1
<1>16. \A p \in occ : deps[at[p]] \subseteq Live \cup new
      BY <1>2, <1>10, <1>11, <1>12, <1>19
<1>17. ASSUME NEW p \in occ, NEW q \in occ
       PROVE  at[q] \in deps[at[p]] <=> p \in refs[q]
      <2>1. CASE q = pos /\ p \in refd
            BY <1>19, <1>14, <1>17, <2>1
      <2>2. CASE q = pos /\ p \notin refd
            <3>1. ASSUME at[pos] \in base[at[p]] PROVE p \in old
                  <4>1. p \in Occupied /\ at[pos] \in dependents[cells[p]]
                        BY <1>2, <1>6, <1>11, <1>17, <3>1
                  <4>2. pos \in Occupied /\ at[pos] = cells[pos]
                        BY <1>2, <1>5, <1>6, <1>12, <4>1
                  <4>. QED BY <1>12, <4>1, <4>2 DEF old
            <3>. QED BY <1>19, <1>14, <1>17, <2>2, <3>1
      <2>3. CASE q # pos
            <3>1. at[q] # at[pos]
                  BY <1>2, <1>8, <1>17, <2>3
            <3>2. at[q] \in deps[at[p]] <=> at[q] \in base[at[p]]
                  BY <1>19, <1>17, <3>1
            <3>3. at[q] \in base[at[p]] <=> p \in References[q]
                  <4>1. CASE q \in DOMAIN fresh
                        <5>1. References[q] = {}
                              BY <1>2, <4>1, TextAssumption
                                 DEF References, Occupied, TextAt, Refs
                        <5>. QED BY <1>2, <1>6, <1>11, <1>12, <1>17, <4>1, <5>1
                  <4>2. CASE q \in Occupied
                        BY <1>2, <1>3, <1>5, <1>11, <1>12, <1>17, <4>2
                  <4>. QED BY <1>2, <1>17, <4>1, <4>2
            <3>. QED BY <1>3, <1>14, <1>17, <2>3, <3>2, <3>3
      <2>. QED BY <2>1, <2>2, <2>3
<1>20. Mirrors(at, occ, deps, refs)
      BY <1>10, <1>15, <1>16, <1>17 DEF Mirrors
<1>. QED BY <1>2, <1>3, <1>7, <1>9, <1>10, <1>14, <1>18, <1>20
         DEF at, new, deps, occ, refs

\* Where dependents_ holds living cells only, and only such as reference the
\* cell, InvalidateCache stays among the living cells and returns.
LEMMA InvalidationEnds ==
    ASSUME NEW occ \in SUBSET Pos,
           NEW at, \A p \in occ : at[p] \in Addr,
           NEW deps \in [Addr -> SUBSET Addr],
           NEW refs \in [Pos -> SUBSET Pos], IsAcyclic(refs),
           Mirrors(at, occ, deps, refs),
           NEW live, live = {at[p] : p \in occ},
           NEW cell \in live
    PROVE  InvalidationReturns(cell, deps, live)
<1>1. live \in SUBSET Addr
      OBVIOUS
<1>2. IsClosed(live, deps)
      BY DEF IsClosed, Mirrors
<1>3. InvalidatedFrom(cell, deps) \subseteq live
      <2>1. {cell} \in SUBSET Addr /\ {cell} \subseteq live
            BY <1>1
      <2>. QED BY <1>1, <1>2, <2>1, ReachableIsLeast DEF InvalidatedFrom
<1>4. ASSUME NEW a \in live, OnCycle(a, deps) PROVE FALSE
      <2>. DEFINE F == ReachableFrom(deps[a], deps)
                  S == {p \in occ : at[p] \in F}
      <2>1. a \in Addr /\ deps[a] \in SUBSET Addr /\ deps[a] \subseteq live
            BY <1>1, <1>2, <1>4 DEF IsClosed
      <2>2. F \subseteq live
            BY <1>1, <1>2, <2>1, ReachableIsLeast
      <2>3. \A y \in F : \E z \in F : y \in deps[z]
            BY <1>4, <2>1, CycleHasPredecessors
      <2>4. a \in F
            BY <1>4 DEF OnCycle
      <2>. HIDE DEF F
      <2>5. S # {} /\ S \in SUBSET Pos
            BY <2>2, <2>4
      <2>6. PICK q \in S : refs[q] \cap S = {}
            BY <2>5 DEF IsAcyclic
      <2>7. PICK z \in F : at[q] \in deps[z]
            BY <2>3, <2>6
      <2>8. PICK p \in occ : z = at[p]
            BY <2>2, <2>7
      <2>9. p \in refs[q]
            BY <2>6, <2>7, <2>8 DEF Mirrors
      <2>. QED BY <2>6, <2>7, <2>8, <2>9
<1>. QED BY <1>3, <1>4 DEF InvalidationReturns

\* A careful caller's SetCell neither touches a destroyed cell nor recurses
\* without end, and leaves dependents_ mirroring the new references.
LEMMA CarefulStore ==
    ASSUME Linked,
           NEW pos \in Pos,
           NEW text \in Text \ BadFormulaText,
           ~IsCircular(pos, text),
           NEW fresh \in Injection(Created(pos, Refs(text)), Addr \ Live),
           StoreAt(pos, text, fresh)
    PROVE  /\ outcome' = "ok"
           /\ Occupied' = OccupiedAfter(fresh)
           /\ dependents' = DependentsAfter(pos, text, fresh)
           /\ References' = ReferencesAfter(pos, text)
           /\ DependentsAlive'
           /\ DependentsMirrorReferences'
<1>. DEFINE at   == CellsWith(fresh)
            live == Live \cup Allocated(fresh)
            deps == DependentsAfter(pos, text, fresh)
            occ  == OccupiedAfter(fresh)
            refs == ReferencesAfter(pos, text)
<1>1. pos \notin Refs(text) /\ IsAcyclic(refs)
      BY AcceptedClosesNoCycle DEF Linked, IInv, ReferencesAfter
<1>2. /\ occ \in SUBSET Pos /\ pos \in occ
      /\ {at[p] : p \in occ} = live
      /\ deps \in [Addr -> SUBSET Addr]
      /\ refs \in [Pos -> SUBSET Pos]
      /\ \A p \in occ : at[p] \in Addr
      /\ \A p \in Pos \ occ : at[p] = Null
      /\ Mirrors(at, occ, deps, refs)
      BY <1>1, UpdatedMirror
<1>3. \/ /\ cells' = at
         /\ dependents' = deps
         /\ outcome' = "ok"
      \/ ~InvalidationReturns(at[pos], deps, live)
      BY DEF StoreAt, InvalidationReturns, DependentsAfter
<1>. HIDE DEF at, live, deps, occ, refs
<1>4. InvalidationReturns(at[pos], deps, live)
      <2>1. at[pos] \in live
            BY <1>2
      <2>. QED BY <1>1, <1>2, <2>1, InvalidationEnds
<1>5. cells' = at /\ dependents' = deps /\ outcome' = "ok"
      BY <1>3, <1>4
<1>6. Occupied' = occ
      BY <1>2, <1>5, NullAssumption DEF Occupied
<1>7. Live' = live
      BY <1>2, <1>5, <1>6 DEF Live
<1>8. References' = refs
      BY <1>5, StoreWritesText DEF Linked, IInv, refs, ReferencesAfter
<1>9. DependentsAlive'
      BY <1>2, <1>5, <1>6, <1>7 DEF DependentsAlive, Mirrors
<1>10. DependentsMirrorReferences'
      <2>1. ASSUME NEW p \in Pos, NEW q \in occ
            PROVE  /\ p \in refs[q] => p \in occ
                   /\ p \in occ => (at[q] \in deps[at[p]] <=> p \in refs[q])
            BY <1>2, <2>1 DEF Mirrors
      <2>. QED BY <1>5, <1>6, <1>8, <2>1 DEF DependentsMirrorReferences
<1>. QED BY <1>5, <1>6, <1>8, <1>9, <1>10 DEF deps, occ, refs

\* Clearing an isolated cell cuts no link: no formula looked at it, and it
\* was among the dependents of no cell.
LEMMA CarefulClear ==
    ASSUME Linked, NEW pos \in Pos, IsIsolated(pos), ClearCell(pos)
    PROVE  DependentsAlive' /\ DependentsMirrorReferences'
<1>1. CASE UNCHANGED <<cells, impl, dependents>>
      BY <1>1 DEF Linked, DependentsAlive, DependentsMirrorReferences,
                  Occupied, Live, References, TextAt, Refs
<1>2. CASE /\ cells[pos] # Null
           /\ cells' = [cells EXCEPT ![pos] = Null]
           /\ impl' = [impl EXCEPT ![cells[pos]] = EmptyText]
           /\ dependents' = [dependents EXCEPT ![cells[pos]] = {}]
      <2>1. /\ TypeOK
            /\ pos \in Occupied /\ cells[pos] \in Addr
            /\ Occupied \subseteq Pos
            /\ \A p \in Occupied : cells[p] \in Addr
            /\ \A p, q \in Occupied : cells[p] = cells[q] => p = q
            BY <1>2 DEF Linked, IInv, TypeOK, OneOwner, Occupied
      <2>2. /\ Occupied' = Occupied \ {pos}
            /\ \A p \in Occupied' : cells'[p] = cells[p]
            BY <1>2, <2>1 DEF Occupied, TypeOK
      <2>3. \A p \in Occupied' : dependents'[cells'[p]] = dependents[cells[p]]
            BY <1>2, <2>1, <2>2 DEF TypeOK
      <2>4. \A p \in Pos : TextAt(p)' = IF p = pos THEN EmptyText ELSE TextAt(p)
            BY <1>2, <2>1 DEF TextAt, TypeOK, Occupied
      <2>5. References' = References
            <3>1. Refs(EmptyText) = {} /\ References[pos] = {}
                  BY TextAssumption DEF Refs, IsIsolated
            <3>2. \A p \in Pos : Refs(TextAt(p)') = Refs(TextAt(p))
                  BY <2>4, <3>1 DEF References
            <3>. QED BY <3>2 DEF References, Refs
      <2>6. /\ \A p, q \in Occupied : p \in References[q] => p # pos
            /\ \A p \in Pos, q \in Occupied : p \in References[q] => p \in Occupied
            /\ \A p, q \in Occupied : cells[q] \in dependents[cells[p]] <=> p \in References[q]
            /\ \A p \in Occupied : dependents[cells[p]] \subseteq Live
            /\ References[pos] = {}
            BY <2>1 DEF Linked, DependentsMirrorReferences, DependentsAlive, IsIsolated
      <2>7. Live' = Live \ {cells[pos]}
            BY <2>1, <2>2 DEF Live
      <2>8. DependentsAlive'
            BY <2>1, <2>2, <2>3, <2>6, <2>7 DEF DependentsAlive
      <2>9. DependentsMirrorReferences'
            <3>1. \A q \in Occupied, p \in Pos : p \in References[q] => p # pos
                  BY <2>1 DEF IsIsolated
            <3>. QED BY <2>1, <2>2, <2>3, <2>5, <2>6, <3>1 DEF DependentsMirrorReferences
      <2>. QED BY <2>8, <2>9
<1>. QED BY <1>1, <1>2 DEF ClearCell

\* What a step of a careful caller does.
LEMMA CarefulStepCases ==
    ASSUME CarefulNext
    PROVE  \/ \E exception \in Exception : Throw(exception)
           \/ \E pos \in Pos, text \in Text \ BadFormulaText : SetCellStore(pos, text)
           \/ \E roots \in SUBSET Pos : Show(roots)
           \/ \E pos \in Pos : IsIsolated(pos) /\ ClearCell(pos)
<1>1. CASE PrintValues
      BY <1>1 DEF PrintValues, PrintArea
<1>2. ASSUME NEW pos \in ArgPos, IsIsolated(pos), ClearCell(pos)
      PROVE  \E p \in Pos : IsIsolated(p) /\ ClearCell(p)
      <2>1. IsValid(pos)
            BY <1>2 DEF ClearCell
      <2>2. pos \in Pos
            BY <2>1, ArgPosAssumption, BoundsAssumption DEF IsValid, Pos
      <2>. QED BY <1>2, <2>2
<1>. QED BY <1>1, <1>2, CallCases DEF CarefulNext

\* A careful caller is a caller: the theorems of SheetTheorems apply.
LEMMA CarefulIsNext ==
    ASSUME [CarefulNext]_vars
    PROVE  [Next]_vars
BY DEF CarefulNext, Next

\* The empty table is linked.
LEMMA InitLinked ==
    ASSUME Init
    PROVE  Linked /\ NeverCrashes
<1>1. Occupied = {} /\ \A p \in Pos : References[p] = {}
      BY TextAssumption DEF Init, Occupied, References, TextAt, Refs
<1>. QED BY <1>1, InitInductive
         DEF Linked, DependentsAlive, DependentsMirrorReferences,
             Init, NeverCrashes, Running, Crash

\* Linked is inductive for the careful caller, and no call of it crashes.
LEMMA CarefulKeepsLinked ==
    ASSUME Linked, NeverCrashes, [CarefulNext]_vars
    PROVE  Linked' /\ NeverCrashes'
<1>1. IInv'
      BY NextKeepsAcyclic, CarefulIsNext DEF Linked
<1>2. CASE UNCHANGED <<cells, impl, dependents>> /\ (outcome' = outcome \/ outcome' \notin Crash)
      BY <1>1, <1>2 DEF Linked, DependentsAlive, DependentsMirrorReferences,
                        Occupied, Live, References, TextAt, Refs, NeverCrashes, Running
<1>3. ASSUME NEW pos \in Pos, NEW text \in Text \ BadFormulaText,
             SetCellStore(pos, text)
      PROVE  Linked' /\ NeverCrashes'
      <2>1. /\ outcome' = "ok"
            /\ DependentsAlive'
            /\ DependentsMirrorReferences'
            BY <1>3, CarefulStore DEF SetCellStore
      <2>. QED BY <1>1, <2>1 DEF Linked, NeverCrashes, Running, Crash
<1>4. ASSUME NEW pos \in Pos, IsIsolated(pos), ClearCell(pos)
      PROVE  Linked' /\ NeverCrashes'
      <2>1. DependentsAlive' /\ DependentsMirrorReferences'
            BY <1>4, CarefulClear
      <2>. QED BY <1>1, <1>4, <2>1 DEF Linked, ClearCell, NeverCrashes, Running, Crash
<1>5. CASE UNCHANGED vars
      BY <1>2, <1>5 DEF vars
<1>6. ASSUME NEW exception \in Exception, Throw(exception)
      PROVE  Linked' /\ NeverCrashes'
      BY <1>2, <1>6 DEF Throw, Exception, Crash
<1>7. ASSUME NEW roots \in SUBSET Pos, Show(roots)
      PROVE  Linked' /\ NeverCrashes'
      BY <1>2, <1>7 DEF Show, Crash
<1>. QED BY <1>3, <1>4, <1>5, <1>6, <1>7, CarefulStepCases

\* UpdateDependencies keeps dependents_ the exact mirror of the references, as
\* long as the caller clears isolated cells only.
THEOREM MirrorKept == CarefulSpec => []DependentsMirrorReferences
<1>1. Linked => DependentsMirrorReferences
      BY DEF Linked
<1>2. Linked /\ NeverCrashes /\ [CarefulNext]_vars => Linked' /\ NeverCrashes'
      BY CarefulKeepsLinked
<1>3. Init => Linked /\ NeverCrashes
      BY InitLinked
<1>. QED BY <1>1, <1>2, <1>3, PTL DEF CarefulSpec

\* For such a caller InvalidateCache meets no destroyed cell and comes to an
\* end: dependents_ follows an acyclic graph of living cells.
THEOREM CarefulNeverCrashes == CarefulSpec => []NeverCrashes
<1>1. Linked /\ NeverCrashes /\ [CarefulNext]_vars => Linked' /\ NeverCrashes'
      BY CarefulKeepsLinked
<1>2. Init => Linked /\ NeverCrashes
      BY InitLinked
<1>. QED BY <1>1, <1>2, PTL DEF CarefulSpec

---------------------------------------------------------------------------
(***************************************************************************)
(* Caches.                                                                 *)
(***************************************************************************)

\* The values that need no evaluation, zero standing for the others.
Settled == Values([p \in Pending |-> Zero])

\* Every position shows a value, the pending ones the value w gives them.
LEMMA ValuesType ==
    ASSUME TypeOK, NEW w \in [Pending -> Value]
    PROVE  Values(w) \in [Pos -> Value]
<1>1. ASSUME NEW p \in Pos, p \notin Pending
      PROVE  KnownValue(p) \in Value
      <2>1. CASE cells[p] = Null
            BY <2>1, ValueAssumption DEF KnownValue
      <2>2. CASE cells[p] # Null
            <3>1. cells[p] \in Addr /\ p \in Occupied /\ TextAt(p) = impl[cells[p]]
                  BY <2>2 DEF TypeOK, Occupied, TextAt
            <3>2. impl[cells[p]] \in Text \ BadFormulaText
                  BY <3>1 DEF TypeOK
            <3>3. CASE impl[cells[p]] = EmptyText
                  BY <2>2, <3>3, ValueAssumption, TextAssumption DEF KnownValue
            <3>4. CASE impl[cells[p]] \in PlainText
                  BY <2>2, <3>4, ValueAssumption, TextAssumption DEF KnownValue
            <3>5. CASE impl[cells[p]] \in FormulaText
                  <4>1. cache[cells[p]] \in Value
                        BY <1>1, <3>1, <3>5 DEF Pending, TypeOK
                  <4>2. KnownValue(p) = cache[cells[p]]
                        BY <2>2, <3>5, TextAssumption DEF KnownValue
                  <4>. QED BY <4>1, <4>2
            <3>. QED BY <3>2, <3>3, <3>4, <3>5 DEF Text
      <2>. QED BY <2>1, <2>2
<1>. QED BY <1>1 DEF Values

\* Settled is a table of values.
LEMMA SettledType ==
    ASSUME TypeOK
    PROVE  Settled \in [Pos -> Value]
<1>1. [p \in Pending |-> Zero] \in [Pending -> Value]
      BY ValueAssumption
<1>. QED BY <1>1, ValuesType DEF Settled

\* The reference a formula reads, its locality: all it knows of the table is
\* the values of the cells it references.
LEMMA EvaluationIsLocal ==
    ASSUME NEW text \in FormulaText,
           NEW v \in [Pos -> Value], NEW w \in [Pos -> Value],
           \A q \in Refs(text) : v[q] = w[q]
    PROVE  /\ Evaluate(text, w) = Evaluate(text, v)
           /\ Reads(text, w) = Reads(text, v)
<1>1. Reads(text, v) \subseteq Refs(text)
      BY EvaluateAssumption DEF Refs
<1>. QED BY <1>1, EvaluateAssumption

\* SettledType as a state predicate, for use on the state after a step.
SettledTyped == Settled \in [Pos -> Value]

\* A cache is current as long as its own cell and the cells its formula
\* references are what they were.
LEMMA UntouchedStaysCurrent ==
    ASSUME SettledTyped, SettledTyped', CachedValuesCurrent,
           \A p \in Occupied' \ Pending' : TextAt(p)' \in FormulaText =>
              /\ p \in Occupied \ Pending
              /\ TextAt(p)' = TextAt(p)
              /\ cache'[cells'[p]] = cache[cells[p]]
              /\ \A q \in References[p] : /\ q \in Pending <=> q \in Pending'
                                          /\ KnownValue(q)' = KnownValue(q)
    PROVE  CachedValuesCurrent'
<1>1. SUFFICES ASSUME NEW p \in Occupied' \ Pending', TextAt(p)' \in FormulaText
               PROVE  /\ Reads(TextAt(p)', Settled') \cap Pending' = {}
                      /\ cache'[cells'[p]] = Evaluate(TextAt(p)', Settled')
      BY DEF CachedValuesCurrent, Settled
<1>2. /\ p \in Occupied \ Pending
      /\ TextAt(p)' = TextAt(p)
      /\ cache'[cells'[p]] = cache[cells[p]]
      /\ \A q \in References[p] : /\ q \in Pending <=> q \in Pending'
                                  /\ KnownValue(q)' = KnownValue(q)
      BY <1>1
<1>3. Settled \in [Pos -> Value] /\ Settled' \in [Pos -> Value]
      BY DEF SettledTyped
<1>4. Refs(TextAt(p)) \subseteq Pos /\ Refs(TextAt(p)) = References[p]
      BY <1>2, RefsType DEF References, Occupied
<1>5. \A q \in Refs(TextAt(p)) : Settled[q] = Settled'[q]
      BY <1>2, <1>4 DEF Settled, Values
<1>6. /\ Evaluate(TextAt(p), Settled') = Evaluate(TextAt(p), Settled)
      /\ Reads(TextAt(p), Settled') = Reads(TextAt(p), Settled)
      BY <1>1, <1>2, <1>3, <1>5, EvaluationIsLocal
<1>7. /\ Reads(TextAt(p), Settled) \cap Pending = {}
      /\ cache[cells[p]] = Evaluate(TextAt(p), Settled)
      BY <1>1, <1>2 DEF CachedValuesCurrent, Settled
<1>8. Reads(TextAt(p), Settled) \subseteq Refs(TextAt(p))
      BY <1>1, <1>2, <1>3, EvaluateAssumption DEF Refs
<1>. QED BY <1>2, <1>4, <1>6, <1>7, <1>8

\* A call that leaves texts and caches alone leaves the caches current.
LEMMA UnchangedStaysCurrent ==
    ASSUME SettledTyped, SettledTyped', CachedValuesCurrent,
           UNCHANGED <<cells, impl, cache>>
    PROVE  CachedValuesCurrent'
<1>1. Occupied' = Occupied /\ \A p \in Pos : TextAt(p)' = TextAt(p)
      BY DEF Occupied, TextAt
<1>2. \A q \in Pos : KnownValue(q)' = KnownValue(q)
      BY DEF KnownValue
<1>3. Pending' = Pending
      BY <1>1 DEF Pending, Occupied
<1>4. Occupied \subseteq Pos /\ \A p \in Pos : References[p] \subseteq Pos
      BY ReferencesType DEF Occupied
<1>5. ASSUME NEW p \in Occupied' \ Pending', TextAt(p)' \in FormulaText
      PROVE  /\ p \in Occupied \ Pending
             /\ TextAt(p)' = TextAt(p)
             /\ cache'[cells'[p]] = cache[cells[p]]
             /\ \A q \in References[p] : /\ q \in Pending <=> q \in Pending'
                                         /\ KnownValue(q)' = KnownValue(q)
      BY <1>1, <1>2, <1>3, <1>4, <1>5
<1>. QED BY <1>5, UntouchedStaysCurrent

\* SetCell resets every cache that its change could make stale: a cached cell
\* it leaves alone reaches neither the written cell nor a new one.
LEMMA StoreKeepsCaches ==
    ASSUME Linked, SettledTyped, SettledTyped', CachedValuesCurrent,
           NEW pos \in Pos,
           NEW text \in Text \ BadFormulaText,
           ~IsCircular(pos, text),
           NEW fresh \in Injection(Created(pos, Refs(text)), Addr \ Live),
           StoreAt(pos, text, fresh)
    PROVE  CachedValuesCurrent'
<1>. DEFINE at   == CellsWith(fresh)
            new  == Allocated(fresh)
            deps == DependentsAfter(pos, text, fresh)
            I    == InvalidatedFrom(at[pos], deps)
<1>1. /\ outcome' = "ok"
      /\ Occupied' = OccupiedAfter(fresh)
      /\ dependents' = deps
      /\ References' = ReferencesAfter(pos, text)
      /\ DependentsMirrorReferences'
      BY CarefulStore
<1>2. /\ cells' = at
      /\ cache' = [a \in Addr |-> IF a \in new \cup I THEN NoValue ELSE cache[a]]
      BY <1>1 DEF StoreAt, Crash, DependentsAfter
<1>3. \A p \in Pos : TextAt(p)' = IF p = pos THEN text ELSE TextAt(p)
      BY <1>1, StoreWritesText DEF Linked, IInv
<1>4. /\ deps \in [Addr -> SUBSET Addr]
      /\ pos \in OccupiedAfter(fresh)
      /\ OccupiedAfter(fresh) \in SUBSET Pos
      /\ \A p \in OccupiedAfter(fresh) : at[p] \in Addr
      <2>1. pos \notin Refs(text)
            BY AcceptedClosesNoCycle DEF Linked, IInv
      <2>. QED BY <2>1, UpdatedMirror
<1>5. IsClosed(I, deps) /\ at[pos] \in I
      <2>1. at[pos] \in Addr /\ {at[pos]} \in SUBSET Addr
            BY <1>4
      <2>. HIDE DEF deps, at
      <2>2. IsClosed(I, deps) /\ {at[pos]} \subseteq I
            BY <1>4, <2>1, ReachableIsClosed DEF InvalidatedFrom
      <2>. QED BY <2>2
<1>6. /\ Occupied \subseteq Pos
      /\ \A p \in Occupied : /\ at[p] = cells[p] /\ cells[p] \in Addr
                             /\ cells[p] # Null /\ cells[p] \notin new
      /\ \A p \in DOMAIN fresh : at[p] \in new
      <2>1. /\ DOMAIN fresh \cap Occupied = {}
            /\ DOMAIN fresh \in SUBSET Pos
            /\ \A p \in DOMAIN fresh : fresh[p] \in Addr \ Live
            BY RefsType DEF Injection, Created
      <2>2. \A p \in Occupied : p \in Pos /\ cells[p] \in Addr /\ cells[p] \in Live
            BY DEF Linked, IInv, TypeOK, Occupied, Live
      <2>. QED BY <2>1, <2>2 DEF CellsWith, Allocated, Occupied
<1>7. Occupied' = Occupied \cup DOMAIN fresh
      BY <1>1 DEF OccupiedAfter
<1>. HIDE DEF at, new, deps, I
<1>8. ASSUME NEW p \in Occupied' \ Pending', TextAt(p)' \in FormulaText
      PROVE  /\ p \in Occupied \ Pending
             /\ TextAt(p)' = TextAt(p)
             /\ cache'[cells'[p]] = cache[cells[p]]
             /\ \A q \in References[p] : /\ q \in Pending <=> q \in Pending'
                                         /\ KnownValue(q)' = KnownValue(q)
      <2>1. cache'[cells'[p]] # NoValue /\ cells'[p] \in Addr /\ p \in Pos
            BY <1>1, <1>2, <1>4, <1>8 DEF Pending
      <2>2. cells'[p] \notin new /\ cells'[p] \notin I /\ cache'[cells'[p]] = cache[cells'[p]]
            BY <1>2, <2>1
      <2>3. p # pos
            BY <1>2, <1>5, <2>2
      <2>4. p \in Occupied /\ cells'[p] = cells[p]
            BY <1>2, <1>6, <1>7, <1>8, <2>2
      <2>5. TextAt(p)' = TextAt(p)
            BY <1>3, <2>1, <2>3
      <2>6. p \notin Pending
            BY <2>1, <2>2, <2>4 DEF Pending
      <2>7. ASSUME NEW q \in References[p]
            PROVE  /\ q \in Pending <=> q \in Pending'
                   /\ KnownValue(q)' = KnownValue(q)
            <3>1. q \in Pos /\ q \in References'[p]
                  BY <1>1, <2>1, <2>3, <2>7, ReferencesType DEF ReferencesAfter
            <3>2. q \in Occupied
                  BY <2>4, <2>7, <3>1 DEF Linked, DependentsMirrorReferences
            <3>3. cells'[p] \in dependents'[cells'[q]]
                  BY <1>1, <1>7, <2>4, <3>1, <3>2 DEF DependentsMirrorReferences
            <3>4. cells'[q] \notin I
                  BY <1>1, <1>5, <2>2, <3>3 DEF IsClosed
            <3>5. /\ cells'[q] = cells[q] /\ cells[q] \in Addr /\ cells[q] # Null
                  /\ cache'[cells[q]] = cache[cells[q]]
                  BY <1>2, <1>6, <3>2, <3>4
            <3>6. TextAt(q)' = TextAt(q)
                  BY <1>2, <1>3, <1>5, <3>1, <3>4
            <3>7. impl'[cells[q]] = impl[cells[q]]
                  BY <3>5, <3>6 DEF TextAt
            <3>8. KnownValue(q)' = KnownValue(q)
                  BY <3>5, <3>7 DEF KnownValue
            <3>9. q \in Pending <=> q \in Pending'
                  BY <1>7, <3>2, <3>5, <3>6 DEF Pending
            <3>. QED BY <3>8, <3>9
      <2>. QED BY <2>2, <2>4, <2>5, <2>6, <2>7
<1>. QED BY <1>8, UntouchedStaysCurrent

\* GetValue and PrintValues fill caches with what the evaluation gave, and the
\* values it was given over are the ones the table then shows.
LEMMA ShowKeepsCaches ==
    ASSUME Linked, SettledTyped, SettledTyped', CachedValuesCurrent,
           NEW roots \in SUBSET Pos, Show(roots)
    PROVE  CachedValuesCurrent'
<1>1. PICK w \in [Pending -> Value] :
         /\ IsEvaluation(w)
         /\ cache' = [a \in Addr |->
                        IF \E p \in EvaluatedBy(roots, w) : cells[p] = a
                        THEN w[CHOOSE p \in EvaluatedBy(roots, w) : cells[p] = a]
                        ELSE cache[a]]
         /\ UNCHANGED <<cells, impl, dependents, print_size>>
      BY DEF Show
<1>. DEFINE E == EvaluatedBy(roots, w)
            v == Values(w)
<1>2. E \subseteq Pending /\ v \in [Pos -> Value]
      BY EvaluatedIsPending, ValuesType DEF Linked, IInv
<1>3. ASSUME NEW p \in E
      PROVE  Reads(TextAt(p), v) \cap Pending \subseteq E
      <2>. DEFINE reads == [q \in Pos |-> IF q \in Pending
                                          THEN Reads(TextAt(q), v) \cap Pending
                                          ELSE {}]
      <2>1. Pending \in SUBSET Pos
            BY DEF Pending, Occupied
      <2>2. reads \in [Pos -> SUBSET Pos] /\ roots \cap Pending \in SUBSET Pos
            BY <2>1
      <2>3. E = ReachableFrom(roots \cap Pending, reads)
            BY DEF EvaluatedBy
      <2>4. p \in Pending /\ p \in Pos
            BY <1>2, <1>3, <2>1
      <2>5. reads[p] = Reads(TextAt(p), v) \cap Pending
            BY <2>4
      <2>. HIDE DEF E, v, reads
      <2>6. IsClosed(E, reads)
            BY <2>2, <2>3, ReachableIsClosed
      <2>. QED BY <1>3, <2>5, <2>6 DEF IsClosed
<1>4. /\ Occupied' = Occupied
      /\ \A p \in Pos : TextAt(p)' = TextAt(p)
      /\ cells' = cells
      BY <1>1 DEF Occupied, TextAt
<1>5. /\ \A p \in Occupied : p \in Pos /\ cells[p] \in Addr /\ cells[p] # Null
      /\ \A p, q \in Occupied : cells[p] = cells[q] => p = q
      /\ Pending \subseteq Occupied
      BY DEF Linked, IInv, TypeOK, OneOwner, Occupied, Pending
<1>. HIDE DEF E, v
<1>6. ASSUME NEW p \in Occupied
      PROVE  cache'[cells[p]] = IF p \in E THEN w[p] ELSE cache[cells[p]]
      <2>1. E = EvaluatedBy(roots, w) /\ E \subseteq Occupied
            BY <1>2, <1>5 DEF E
      <2>2. CASE p \in E
            <3>1. (CHOOSE q \in E : cells[q] = cells[p]) = p
                  BY <1>5, <2>1, <2>2
            <3>. QED BY <1>1, <1>5, <1>6, <2>1, <2>2, <3>1
      <2>3. CASE p \notin E
            <3>1. ~ \E q \in E : cells[q] = cells[p]
                  BY <1>5, <1>6, <2>1, <2>3
            <3>. QED BY <1>1, <1>5, <1>6, <2>1, <2>3, <3>1
      <2>. QED BY <2>2, <2>3
<1>7. Pending' = Pending \ E
      <2>1. \A p \in E : w[p] # NoValue
            BY <1>2, NoValueAssumption
      <2>. QED BY <1>2, <1>4, <1>5, <1>6, <2>1 DEF Pending
<1>8. ASSUME NEW q \in Pos, q \notin Pending'
      PROVE  Settled'[q] = v[q]
      <2>1. Settled'[q] = KnownValue(q)'
            BY <1>8 DEF Settled, Values
      <2>2. CASE q \in E
            <3>1. q \in Pending /\ q \in Occupied /\ v[q] = w[q] /\ cache'[cells[q]] = w[q]
                  BY <1>2, <1>5, <1>6, <1>8, <2>2 DEF v, Values
            <3>2. TextAt(q) \in FormulaText /\ TextAt(q) = impl[cells[q]] /\ cells[q] # Null
                  BY <1>5, <3>1 DEF Pending, TextAt
            <3>3. KnownValue(q)' = cache'[cells[q]]
                  BY <1>1, <3>2, TextAssumption DEF KnownValue
            <3>. QED BY <2>1, <3>1, <3>3
      <2>3. CASE q \notin E
            <3>1. q \notin Pending
                  BY <1>7, <1>8, <2>3
            <3>2. v[q] = KnownValue(q)
                  BY <1>8, <3>1 DEF v, Values
            <3>3. cells[q] # Null => cache'[cells[q]] = cache[cells[q]]
                  BY <1>6, <1>8, <2>3 DEF Occupied
            <3>4. KnownValue(q)' = KnownValue(q)
                  BY <1>1, <3>3 DEF KnownValue
            <3>. QED BY <2>1, <3>2, <3>4
      <2>. QED BY <2>2, <2>3
<1>9. \A q \in Pos : q \notin Pending => Settled[q] = v[q]
      BY DEF Settled, v, Values
<1>10. ASSUME NEW p \in Occupied \ Pending', TextAt(p) \in FormulaText
       PROVE  /\ Reads(TextAt(p), Settled') \cap Pending' = {}
              /\ cache'[cells[p]] = Evaluate(TextAt(p), Settled')
      <2>1. Settled \in [Pos -> Value] /\ Settled' \in [Pos -> Value]
            BY DEF SettledTyped
      <2>2. CASE p \in E
            <3>1. w[p] = Evaluate(TextAt(p), v)
                  BY <1>1, <1>2, <2>2 DEF IsEvaluation, v
            <3>2. Reads(TextAt(p), v) \cap Pending' = {}
                  BY <1>3, <1>7, <2>2
            <3>3. Reads(TextAt(p), v) \subseteq Pos
                  BY <1>2, <1>10, EvaluateAssumption
            <3>4. \A q \in Reads(TextAt(p), v) : v[q] = Settled'[q]
                  BY <1>8, <3>2, <3>3
            <3>5. /\ Evaluate(TextAt(p), Settled') = Evaluate(TextAt(p), v)
                  /\ Reads(TextAt(p), Settled') = Reads(TextAt(p), v)
                  BY <1>2, <1>10, <2>1, <3>4, EvaluateAssumption
            <3>. QED BY <1>6, <1>10, <2>2, <3>1, <3>2, <3>5
      <2>3. CASE p \notin E
            <3>1. p \in Occupied \ Pending
                  BY <1>7, <1>10, <2>3
            <3>2. /\ Reads(TextAt(p), Settled) \cap Pending = {}
                  /\ cache[cells[p]] = Evaluate(TextAt(p), Settled)
                  BY <1>10, <3>1 DEF CachedValuesCurrent, Settled
            <3>3. Reads(TextAt(p), Settled) \subseteq Pos
                  BY <1>10, <2>1, EvaluateAssumption
            <3>4. \A q \in Reads(TextAt(p), Settled) : Settled[q] = Settled'[q]
                  BY <1>7, <1>8, <1>9, <3>2, <3>3
            <3>5. /\ Evaluate(TextAt(p), Settled') = Evaluate(TextAt(p), Settled)
                  /\ Reads(TextAt(p), Settled') = Reads(TextAt(p), Settled)
                  BY <1>10, <2>1, <3>4, EvaluateAssumption
            <3>. QED BY <1>6, <1>7, <1>10, <2>3, <3>2, <3>5
      <2>. QED BY <2>2, <2>3
<1>11. ASSUME NEW p \in Occupied' \ Pending', TextAt(p)' \in FormulaText
       PROVE  /\ Reads(TextAt(p)', Settled') \cap Pending' = {}
              /\ cache'[cells'[p]] = Evaluate(TextAt(p)', Settled')
      <2>1. p \in Occupied /\ TextAt(p)' = TextAt(p) /\ cells'[p] = cells[p]
            BY <1>4, <1>5, <1>11
      <2>. QED BY <1>10, <1>11, <2>1
<1>. QED BY <1>11 DEF CachedValuesCurrent, Settled

\* No formula looks at an isolated cell, and so no cache knows of it.
LEMMA ClearKeepsCaches ==
    ASSUME Linked, SettledTyped, SettledTyped', CachedValuesCurrent,
           NEW pos \in Pos, IsIsolated(pos), ClearCell(pos)
    PROVE  CachedValuesCurrent'
<1>1. CASE UNCHANGED <<cells, impl, cache>>
      BY <1>1, UnchangedStaysCurrent
<1>2. CASE /\ cells[pos] # Null
           /\ cells' = [cells EXCEPT ![pos] = Null]
           /\ impl' = [impl EXCEPT ![cells[pos]] = EmptyText]
           /\ cache' = [cache EXCEPT ![cells[pos]] = NoValue]
      <2>1. /\ pos \in Occupied /\ Occupied \subseteq Pos
            /\ \A p \in Occupied : cells[p] \in Addr /\ cells[p] # Null
            /\ \A p, q \in Occupied : cells[p] = cells[q] => p = q
            /\ TypeOK
            BY <1>2 DEF Linked, IInv, TypeOK, OneOwner, Occupied
      <2>2. /\ Occupied' = Occupied \ {pos}
            /\ \A p \in Pos \ {pos} : cells'[p] = cells[p]
            BY <1>2, <2>1 DEF Occupied, TypeOK
      <2>3. ASSUME NEW q \in Pos, q # pos
            PROVE  /\ cells'[q] = cells[q]
                   /\ cells[q] # Null => /\ impl'[cells[q]] = impl[cells[q]]
                                         /\ cache'[cells[q]] = cache[cells[q]]
                   /\ TextAt(q)' = TextAt(q)
                   /\ KnownValue(q)' = KnownValue(q)
                   /\ q \in Pending <=> q \in Pending'
            <3>1. cells'[q] = cells[q]
                  BY <2>2, <2>3
            <3>2. cells[q] # Null => /\ impl'[cells[q]] = impl[cells[q]]
                                     /\ cache'[cells[q]] = cache[cells[q]]
                  BY <1>2, <2>1, <2>3 DEF Occupied, TypeOK
            <3>3. TextAt(q)' = TextAt(q) /\ KnownValue(q)' = KnownValue(q)
                  <4>1. CASE cells[q] = Null
                        BY <3>1, <4>1 DEF TextAt, KnownValue
                  <4>2. CASE cells[q] # Null
                        <5>1. /\ cells'[q] = cells[q] /\ cells'[q] # Null
                              /\ impl'[cells'[q]] = impl[cells[q]]
                              /\ cache'[cells'[q]] = cache[cells[q]]
                              BY <3>1, <3>2, <4>2
                        <5>2. TextAt(q)' = TextAt(q)
                              BY <5>1 DEF TextAt
                        <5>3. KnownValue(q)' = KnownValue(q)
                              BY <5>1 DEF KnownValue
                        <5>. QED BY <5>2, <5>3
                  <4>. QED BY <4>1, <4>2
            <3>4. q \in Pending <=> q \in Pending'
                  BY <2>2, <2>3, <3>1, <3>2, <3>3 DEF Pending, Occupied
            <3>. QED BY <3>1, <3>2, <3>3, <3>4
      <2>4. ASSUME NEW p \in Occupied' \ Pending', TextAt(p)' \in FormulaText
            PROVE  /\ p \in Occupied \ Pending
                   /\ TextAt(p)' = TextAt(p)
                   /\ cache'[cells'[p]] = cache[cells[p]]
                   /\ \A q \in References[p] : /\ q \in Pending <=> q \in Pending'
                                               /\ KnownValue(q)' = KnownValue(q)
            <3>1. p \in Occupied /\ p \in Pos /\ p # pos /\ cells[p] # Null
                  BY <2>1, <2>2, <2>4
            <3>2. References[p] \subseteq Pos /\ pos \notin References[p]
                  BY <3>1, ReferencesType DEF IsIsolated
            <3>. QED BY <2>3, <2>4, <3>1, <3>2
      <2>. QED BY <2>4, UntouchedStaysCurrent
<1>. QED BY <1>1, <1>2 DEF ClearCell

\* No call of a careful caller leaves a stale cache behind.
LEMMA CarefulKeepsCurrent ==
    ASSUME Linked, SettledTyped, SettledTyped', CachedValuesCurrent,
           [CarefulNext]_vars
    PROVE  CachedValuesCurrent'
<1>1. CASE UNCHANGED <<cells, impl, cache>>
      BY <1>1, UnchangedStaysCurrent
<1>2. ASSUME NEW pos \in Pos, NEW text \in Text \ BadFormulaText,
             SetCellStore(pos, text)
      PROVE  CachedValuesCurrent'
      BY <1>2, StoreKeepsCaches DEF SetCellStore
<1>3. ASSUME NEW roots \in SUBSET Pos, Show(roots)
      PROVE  CachedValuesCurrent'
      BY <1>3, ShowKeepsCaches
<1>4. ASSUME NEW pos \in Pos, IsIsolated(pos), ClearCell(pos)
      PROVE  CachedValuesCurrent'
      BY <1>4, ClearKeepsCaches
<1>5. ASSUME NEW exception \in Exception, Throw(exception)
      PROVE  CachedValuesCurrent'
      BY <1>1, <1>5 DEF Throw
<1>6. CASE UNCHANGED vars
      BY <1>1, <1>6 DEF vars
<1>. QED BY <1>1, <1>2, <1>3, <1>4, <1>5, <1>6, CarefulStepCases

\* No cache of a careful caller's table is stale: InvalidateCache forgets
\* whatever a call could have changed, and GetValue stores what it computed.
THEOREM CachesStayCurrent == CarefulSpec => []CachedValuesCurrent
<1>1. Linked /\ SettledTyped /\ SettledTyped' /\ CachedValuesCurrent /\ [CarefulNext]_vars
         => CachedValuesCurrent'
      BY CarefulKeepsCurrent
<1>2. Linked => SettledTyped
      BY SettledType DEF Linked, IInv, SettledTyped
<1>3. Init => CachedValuesCurrent
      BY DEF Init, CachedValuesCurrent, Occupied
<1>4. Linked /\ NeverCrashes /\ [CarefulNext]_vars => Linked' /\ NeverCrashes'
      BY CarefulKeepsLinked
<1>5. Init => Linked /\ NeverCrashes
      BY InitLinked
<1>. QED BY <1>1, <1>2, <1>3, <1>4, <1>5, PTL DEF CarefulSpec

---------------------------------------------------------------------------
(***************************************************************************)
(* The contract.  What a formula shows is well defined to begin with:      *)
(* texts whose references form no cycle have one table of values.          *)
(***************************************************************************)
StoredText == Text \ BadFormulaText

RefsIn(c) == [p \in Pos |-> Refs(c[p])]

---------------------------------------------------------------------------
(***************************************************************************)
(* The values that belong to a table of texts.                             *)
(***************************************************************************)

\* The contract's copies of the operators that look at no variable.
LEMMA ContractConstants ==
    /\ Contract!Pos = Pos
    /\ \A pos : Contract!IsValid(pos) <=> IsValid(pos)
    /\ Contract!Text = Text
    /\ \A text : Contract!Refs(text) = Refs(text)
    /\ \A text, v : Contract!Computed(text, v) = Computed(text, v)
    /\ \A next : Contract!IsAcyclic(next) <=> IsAcyclic(next)
<1>1. Contract!Pos = Pos
      BY DEF Contract!Pos, Pos
<1>2. \A pos : Contract!IsValid(pos) <=> IsValid(pos)
      BY DEF Contract!IsValid, IsValid
<1>3. Contract!Text = Text
      BY DEF Contract!Text, Text
<1>4. \A text : Contract!Refs(text) = Refs(text)
      BY DEF Contract!Refs, Refs
<1>5. \A text, v : Contract!Computed(text, v) = Computed(text, v)
      BY DEF Contract!Computed, Computed
<1>6. \A next : Contract!IsAcyclic(next) <=> IsAcyclic(next)
      BY DEF Contract!IsAcyclic, IsAcyclic
<1>. QED BY <1>1, <1>2, <1>3, <1>4, <1>5, <1>6

\* GetValue of a text over a table of values: a value, which depends on the
\* cells the text references and on no other.
LEMMA ComputedIsLocal ==
    ASSUME NEW text \in StoredText, NEW v \in [Pos -> Value]
    PROVE  /\ Computed(text, v) \in Value
           /\ \A w \in [Pos -> Value] :
                 (\A q \in Refs(text) : v[q] = w[q]) => Computed(text, w) = Computed(text, v)
<1>1. CASE text = EmptyText
      BY <1>1, TextAssumption, ValueAssumption DEF Computed
<1>2. CASE text \in PlainText
      BY <1>2, TextAssumption, ValueAssumption DEF Computed
<1>3. CASE text \in FormulaText
      <2>1. \A w : Computed(text, w) = Evaluate(text, w)
            BY <1>3, TextAssumption DEF Computed
      <2>. QED BY <1>3, <2>1, EvaluateAssumption, EvaluationIsLocal
<1>. QED BY <1>1, <1>2, <1>3 DEF StoredText, Text

\* Texts whose references form no cycle have one table of values.
LEMMA OneDisplay ==
    ASSUME NEW c \in [Pos -> StoredText], IsAcyclic(RefsIn(c))
    PROVE  /\ Contract!Displays(c) # {}
           /\ \A v, w \in Contract!Displays(c) : v = w
<1>. DEFINE next == RefsIn(c)
            rule == [p \in Pos |-> [v \in [Pos -> Value] |-> Computed(c[p], v)]]
<1>1. next \in [Pos -> SUBSET Pos] /\ \A p \in Pos : next[p] = Refs(c[p])
      BY RefsType DEF RefsIn
<1>2. \A p \in Pos, v \in [Pos -> Value] : rule[p][v] = Computed(c[p], v)
      OBVIOUS
<1>3. \A v : v \in Contract!Displays(c)
                <=> v \in [Pos -> Value] /\ \A p \in Pos : v[p] = rule[p][v]
      BY <1>2, ContractConstants DEF Contract!Displays
<1>. HIDE DEF next, rule
<1>4. \A p \in Pos, v \in [Pos -> Value] : rule[p][v] \in Value
      BY <1>2, ComputedIsLocal
<1>5. IsLocal(Pos, Value, next, rule)
      BY <1>1, <1>2, ComputedIsLocal DEF IsLocal
<1>6. IsAcyclic(next) /\ Zero \in Value
      BY ValueAssumption DEF next
<1>7. \E v \in [Pos -> Value] : Solves(v, Pos, next, rule)
      BY <1>1, <1>4, <1>5, <1>6, SolutionExists
<1>8. Contract!Displays(c) # {}
      BY <1>3, <1>7 DEF Solves
<1>. QED BY <1>1, <1>3, <1>5, <1>6, <1>8, SolutionIsUnique

---------------------------------------------------------------------------
(***************************************************************************)
(* What the table shows is what its texts define.                          *)
(***************************************************************************)

Current == Linked /\ NeverCrashes /\ SettledTyped /\ CachedValuesCurrent

ShowsItsTexts == /\ Content \in [Pos -> StoredText]
                 /\ RefsIn(Content) = References
                 /\ IsAcyclic(References)
                 /\ Display \in Contract!Displays(Content)

\* The table holds texts that parse, without a cycle.
LEMMA ContentType ==
    ASSUME Current
    PROVE  /\ Content \in [Pos -> StoredText]
           /\ \A p \in Pos : Content[p] = TextAt(p)
           /\ RefsIn(Content) = References
           /\ IsAcyclic(References)
<1>1. \A p \in Pos : TextAt(p) \in StoredText
      BY TextAssumption
         DEF Current, Linked, IInv, TypeOK, TextAt, StoredText, Text
<1>2. RefsIn(Content) = References
      BY DEF RefsIn, Content, References
<1>. QED BY <1>1, <1>2 DEF Content, Current, Linked, IInv, ReferencesAcyclic

\* A formula without a current value aside, GetValue answers what evaluation over the
\* values shown would: the caches are current.
LEMMA KnownIsComputed ==
    ASSUME Current, NEW v \in [Pos -> Value], NEW p \in Pos \ Pending,
           TextAt(p) \in FormulaText =>
              \A q \in Reads(TextAt(p), Settled) \ Pending : v[q] = KnownValue(q)
    PROVE  KnownValue(p) = Computed(TextAt(p), v)
<1>1. CASE cells[p] = Null
      BY <1>1, TextAssumption DEF KnownValue, TextAt, Computed
<1>2. CASE cells[p] # Null /\ TextAt(p) \notin FormulaText
      <2>1. TextAt(p) = impl[cells[p]]
            BY <1>2 DEF TextAt
      <2>2. TextAt(p) = EmptyText \/ TextAt(p) \in PlainText
            BY <1>2, ContentType DEF StoredText, Text
      <2>3. CASE TextAt(p) = EmptyText
            BY <1>2, <2>1, <2>3 DEF KnownValue, Computed
      <2>4. CASE TextAt(p) \in PlainText
            <3>1. TextAt(p) # EmptyText
                  BY <2>4, TextAssumption
            <3>. QED BY <1>2, <2>1, <2>4, <3>1 DEF KnownValue, Computed
      <2>. QED BY <2>2, <2>3, <2>4
<1>3. CASE cells[p] # Null /\ TextAt(p) \in FormulaText
      <2>1. p \in Occupied \ Pending /\ TextAt(p) = impl[cells[p]]
            BY <1>3 DEF Occupied, TextAt
      <2>2. /\ Reads(TextAt(p), Settled) \cap Pending = {}
            /\ cache[cells[p]] = Evaluate(TextAt(p), Settled)
            BY <1>3, <2>1 DEF Current, CachedValuesCurrent, Settled
      <2>3. Settled \in [Pos -> Value] /\ Reads(TextAt(p), Settled) \subseteq Pos
            BY <1>3, EvaluateAssumption DEF Current, SettledTyped
      <2>4. \A q \in Pos \ Pending : Settled[q] = KnownValue(q)
            BY DEF Settled, Values
      <2>5. \A q \in Reads(TextAt(p), Settled) : Settled[q] = v[q]
            BY <1>3, <2>2, <2>3, <2>4
      <2>6. Evaluate(TextAt(p), v) = Evaluate(TextAt(p), Settled)
            BY <1>3, <2>3, <2>5, EvaluateAssumption
      <2>7. /\ TextAt(p) # EmptyText /\ TextAt(p) \notin PlainText
            BY <1>3, TextAssumption
      <2>8. KnownValue(p) = cache[cells[p]]
            BY <1>3, <2>1, <2>7 DEF KnownValue
      <2>9. Computed(TextAt(p), v) = Evaluate(TextAt(p), v)
            BY <1>3, <2>7 DEF Computed
      <2>. QED BY <2>2, <2>6, <2>8, <2>9
<1>. QED BY <1>1, <1>2, <1>3

\* What the recursion of GetValue computes is the table of values of the texts.
LEMMA EvaluationIsDisplay ==
    ASSUME Current, NEW w \in [Pending -> Value], IsEvaluation(w)
    PROVE  Values(w) \in Contract!Displays(Content)
<1>. DEFINE v == Values(w)
<1>1. /\ v \in [Pos -> Value]
      /\ DOMAIN w = Pending
      /\ \A q \in Pending : v[q] = w[q]
      /\ \A q \in Pos \ Pending : v[q] = KnownValue(q)
      <2>1. Pending \subseteq Pos
            BY DEF Pending, Occupied
      <2>2. v \in [Pos -> Value]
            BY ValuesType DEF Current, Linked, IInv
      <2>. QED BY <2>1, <2>2 DEF Values
<1>2. \A q \in Pending : w[q] = Evaluate(TextAt(q), v)
      BY <1>1 DEF IsEvaluation
<1>. HIDE DEF v
<1>3. ASSUME NEW p \in Pos
      PROVE  v[p] = Computed(TextAt(p), v)
      <2>1. CASE p \in Pending
            <3>1. /\ TextAt(p) \in FormulaText /\ TextAt(p) # EmptyText
                  /\ TextAt(p) \notin PlainText
                  BY <2>1, TextAssumption DEF Pending
            <3>2. Computed(TextAt(p), v) = Evaluate(TextAt(p), v)
                  BY <3>1 DEF Computed
            <3>. QED BY <1>1, <1>2, <2>1, <3>2
      <2>2. CASE p \notin Pending
            <3>1. TextAt(p) \in FormulaText => Reads(TextAt(p), Settled) \subseteq Pos
                  BY EvaluateAssumption DEF Current, SettledTyped
            <3>2. KnownValue(p) = Computed(TextAt(p), v)
                  BY <1>1, <2>2, <3>1, KnownIsComputed
            <3>. QED BY <1>1, <2>2, <3>2
      <2>. QED BY <2>1, <2>2
<1>4. \A p \in Pos : Content[p] = TextAt(p)
      BY ContentType
<1>5. \A p \in Pos : v[p] = Computed(Content[p], v)
      BY <1>3, <1>4
<1>6. v \in Contract!Displays(Content)
      BY <1>1, <1>5, ContractConstants DEF Contract!Displays
<1>. QED BY <1>6 DEF v

\* The recursion finds values: those of the texts, for the formulas that have none.
LEMMA EvaluationExists ==
    ASSUME Current
    PROVE  \E w \in [Pending -> Value] : IsEvaluation(w)
<1>1. PICK v \in Contract!Displays(Content) : TRUE
      BY ContentType, OneDisplay
<1>2. v \in [Pos -> Value] /\ \A p \in Pos : v[p] = Computed(TextAt(p), v)
      BY <1>1, ContentType, ContractConstants DEF Contract!Displays
<1>3. Pending \subseteq Pos
      BY DEF Pending, Occupied
<1>. DEFINE w == [p \in Pending |-> v[p]]
            S == {p \in Pos \ Pending : v[p] # KnownValue(p)}
<1>4. w \in [Pending -> Value]
      BY <1>2, <1>3
<1>5. S = {}
      <2>1. SUFFICES ASSUME S # {} PROVE FALSE
            OBVIOUS
      <2>2. PICK x \in S : References[x] \cap S = {}
            BY <2>1, ContentType DEF IsAcyclic, References
      <2>3. TextAt(x) \in FormulaText =>
               /\ Reads(TextAt(x), Settled) \subseteq References[x]
               /\ References[x] \subseteq Pos
            BY EvaluateAssumption, ReferencesType
               DEF Current, SettledTyped, References, Refs
      <2>4. TextAt(x) \in FormulaText =>
               \A q \in Reads(TextAt(x), Settled) \ Pending : v[q] = KnownValue(q)
            BY <2>2, <2>3
      <2>5. KnownValue(x) = Computed(TextAt(x), v)
            BY <1>2, <2>4, KnownIsComputed
      <2>. QED BY <1>2, <2>5
<1>6. Values(w) = v
      <2>1. \A p \in Pos : Values(w)[p] = v[p]
            BY <1>3, <1>5 DEF Values
      <2>2. Values(w) = [p \in Pos |-> Values(w)[p]]
            BY DEF Values
      <2>3. v = [p \in Pos |-> v[p]]
            BY <1>2
      <2>. HIDE DEF w
      <2>. QED BY <2>1, <2>2, <2>3
<1>7. ASSUME NEW p \in Pending
      PROVE  w[p] = Evaluate(TextAt(p), v)
      <2>1. /\ TextAt(p) \in FormulaText /\ TextAt(p) # EmptyText
            /\ TextAt(p) \notin PlainText
            BY TextAssumption DEF Pending
      <2>2. Computed(TextAt(p), v) = Evaluate(TextAt(p), v)
            BY <2>1 DEF Computed
      <2>. QED BY <1>2, <1>3, <2>2
<1>8. DOMAIN w = Pending
      OBVIOUS
<1>. HIDE DEF w
<1>9. IsEvaluation(w)
      BY <1>6, <1>7, <1>8 DEF IsEvaluation
<1>. QED BY <1>4, <1>9

\* So what is shown is the one table of values the texts have.
LEMMA CurrentShowsItsTexts == Current => ShowsItsTexts
<1>1. SUFFICES ASSUME Current PROVE ShowsItsTexts
      OBVIOUS
<1>. DEFINE w == CHOOSE w \in [Pending -> Value] : IsEvaluation(w)
<1>2. w \in [Pending -> Value] /\ IsEvaluation(w)
      BY <1>1, EvaluationExists
<1>. HIDE DEF w
<1>3. Values(w) \in Contract!Displays(Content)
      BY <1>1, <1>2, EvaluationIsDisplay
<1>. USE DEF w
<1>. QED BY <1>1, <1>3, ContentType DEF ShowsItsTexts, Display

---------------------------------------------------------------------------
(***************************************************************************)
(* Every call does what the contract says.                                 *)
(***************************************************************************)

\* The steps on record are those of a careful caller.
LEMMA RecordedIsCareful ==
    ASSUME [RecordedNext]_<<vars, refused>>
    PROVE  [CarefulNext]_vars
BY DEF RecordedNext, Refused, Accepted, CarefulNext, Call, SetCell

\* And so nothing crashes, and no cache gets stale.
LEMMA CurrentKept == Current /\ [RecordedNext]_<<vars, refused>> => Current'
<1>1. Linked /\ NeverCrashes /\ [CarefulNext]_vars => Linked' /\ NeverCrashes'
      BY CarefulKeepsLinked
<1>2. Linked => SettledTyped
      BY SettledType DEF Linked, IInv, SettledTyped
<1>3. Linked /\ SettledTyped /\ SettledTyped' /\ CachedValuesCurrent /\ [CarefulNext]_vars
         => CachedValuesCurrent'
      BY CarefulKeepsCurrent
<1>4. [RecordedNext]_<<vars, refused>> => [CarefulNext]_vars
      BY RecordedIsCareful
<1>5. Current <=> Linked /\ NeverCrashes /\ SettledTyped /\ CachedValuesCurrent
      BY DEF Current
<1>. QED BY <1>1, <1>2, <1>3, <1>4, <1>5, PTL

\* Where the texts stay, so do the values: there is but one table of them.
LEMMA DisplayStays ==
    ASSUME ShowsItsTexts, ShowsItsTexts', Content' = Content
    PROVE  Display' = Display
BY OneDisplay DEF ShowsItsTexts

\* The cycle the contract speaks of is one in the references of the table.
LEMMA ClosesInTable ==
    ASSUME ShowsItsTexts, NEW pos \in Pos, NEW text
    PROVE  Contract!Closes(Content, pos, text)
              <=> ~IsAcyclic([References EXCEPT ![pos] = Refs(text)])
<1>1. [p \in Pos |-> Contract!Refs(IF p = pos THEN text ELSE Content[p])]
         = [References EXCEPT ![pos] = Refs(text)]
      <2>1. \A p \in Pos : References[p] = Refs(Content[p])
            BY DEF References, Content
      <2>. QED BY <2>1, ContractConstants DEF References
<1>. QED BY <1>1, ContractConstants DEF Contract!Closes

\* An exception leaves texts and values as they were.
LEMMA ThrowImplements ==
    ASSUME ShowsItsTexts, ShowsItsTexts', NEW exception, NEW arguments,
           Throw(exception), refused' = arguments
    PROVE  Contract!Throw(exception, arguments)
<1>1. Content' = Content
      BY DEF Throw, Content, TextAt
<1>. QED BY <1>1, DisplayStays DEF Throw, Contract!Throw

\* A refused text does not parse, or closes a cycle.
LEMMA RefusedImplements ==
    ASSUME Current, ShowsItsTexts, ShowsItsTexts', NEW pos \in ArgPos, Refused(pos)
    PROVE  Contract!Next
<1>1. CASE RejectPosition(pos) /\ refused' = <<pos>>
      <2>1. Contract!Throw("InvalidPositionException", <<pos>>)
            BY <1>1, ThrowImplements DEF RejectPosition
      <2>2. ~Contract!IsValid(pos)
            BY <1>1, ContractConstants DEF RejectPosition
      <2>. QED BY <2>1, <2>2 DEF Contract!Next
<1>2. ASSUME NEW text \in Text, SetCellBadFormula(pos, text), refused' = <<pos, text>>
      PROVE  Contract!Next
      <2>1. Contract!Throw("FormulaException", <<pos, text>>)
            BY <1>2, ThrowImplements DEF SetCellBadFormula
      <2>2. Contract!SetCell(pos, text)
            BY <1>2, <2>1 DEF SetCellBadFormula, Contract!SetCell
      <2>3. Contract!IsValid(pos) /\ text \in Contract!Text
            BY <1>2, ContractConstants DEF SetCellBadFormula
      <2>. QED BY <2>2, <2>3 DEF Contract!Next
<1>3. ASSUME NEW text \in Text, SetCellCircular(pos, text), refused' = <<pos, text>>
      PROVE  Contract!Next
      <2>1. Contract!Throw("CircularDependencyException", <<pos, text>>)
            BY <1>3, ThrowImplements DEF SetCellCircular
      <2>2. pos \in Pos
            BY <1>3, ArgPosAssumption, BoundsAssumption DEF SetCellCircular, IsValid, Pos
      <2>3. ~IsAcyclic([References EXCEPT ![pos] = Refs(text)])
            BY <1>3, <2>2, RefusedClosesCycle
               DEF SetCellCircular, Current, Linked, IInv
      <2>4. Contract!Closes(Content, pos, text)
            BY <2>2, <2>3, ClosesInTable
      <2>5. Contract!SetCell(pos, text)
            BY <1>3, <2>1, <2>4 DEF SetCellCircular, Contract!SetCell
      <2>6. Contract!IsValid(pos) /\ text \in Contract!Text
            BY <1>3, ContractConstants DEF SetCellCircular
      <2>. QED BY <2>5, <2>6 DEF Contract!Next
<1>. QED BY <1>1, <1>2, <1>3 DEF Refused

\* A text that is written, or taken away, is all the difference to the texts; the values
\* shown afterwards are those of the new ones.
LEMMA WriteImplements ==
    ASSUME ShowsItsTexts, ShowsItsTexts', NEW pos \in Pos, NEW text,
           outcome' = "ok", refused' = <<>>,
           \A p \in Pos : TextAt(p)' = IF p = pos THEN text ELSE TextAt(p)
    PROVE  Contract!Write(pos, text)
<1>1. Content' = [Content EXCEPT ![pos] = text]
      <2>1. Content' = [p \in Pos |-> IF p = pos THEN text ELSE TextAt(p)]
            BY DEF Content
      <2>. QED BY <2>1 DEF Content
<1>2. Display' \in Contract!Displays(Content')
      BY DEF ShowsItsTexts
<1>. QED BY <1>1, <1>2 DEF Contract!Write

\* An accepted text closes no cycle, and is written.
LEMMA StoreImplements ==
    ASSUME Current, ShowsItsTexts, ShowsItsTexts', NEW pos \in ArgPos, NEW text \in Text,
           SetCellStore(pos, text), refused' = <<>>
    PROVE  Contract!Next
<1>1. pos \in Pos /\ text \in Text \ BadFormulaText /\ IsValid(pos) /\ ~IsCircular(pos, text)
      BY ArgPosAssumption, BoundsAssumption DEF SetCellStore, IsValid, Pos
<1>2. PICK fresh \in Injection(Created(pos, Refs(text)), Addr \ Live) :
         StoreAt(pos, text, fresh)
      BY DEF SetCellStore
<1>3. outcome' = "ok"
      BY <1>1, <1>2, CarefulStore DEF Current
<1>4. \A p \in Pos : TextAt(p)' = IF p = pos THEN text ELSE TextAt(p)
      BY <1>1, <1>2, <1>3, StoreWritesText DEF Current, Linked, IInv
<1>5. Contract!Write(pos, text)
      BY <1>1, <1>3, <1>4, WriteImplements
<1>6. ~Contract!Closes(Content, pos, text)
      BY <1>1, AcceptedClosesNoCycle, ClosesInTable DEF Current, Linked, IInv
<1>7. Contract!SetCell(pos, text)
      BY <1>1, <1>5, <1>6 DEF Contract!SetCell
<1>8. Contract!IsValid(pos) /\ text \in Contract!Text
      BY <1>1, ContractConstants
<1>. QED BY <1>7, <1>8 DEF Contract!Next

\* Clearing takes the text of one position away.
LEMMA ClearImplements ==
    ASSUME Current, ShowsItsTexts, ShowsItsTexts', NEW pos \in ArgPos, ClearCell(pos),
           refused' = <<>>
    PROVE  Contract!Next
<1>1. pos \in Pos /\ IsValid(pos) /\ outcome' = "ok"
      BY ArgPosAssumption, BoundsAssumption DEF ClearCell, IsValid, Pos
<1>2. \A p \in Pos : TextAt(p)' = IF p = pos THEN EmptyText ELSE TextAt(p)
      <2>1. CASE cells[pos] = Null /\ UNCHANGED <<cells, impl>>
            BY <2>1 DEF TextAt
      <2>2. CASE /\ cells[pos] # Null
                 /\ cells' = [cells EXCEPT ![pos] = Null]
                 /\ impl' = [impl EXCEPT ![cells[pos]] = EmptyText]
            <3>1. \A p \in Pos \ {pos} : /\ cells'[p] = cells[p]
                                         /\ cells[p] # Null => cells[p] # cells[pos]
                  BY <1>1, <2>2 DEF Current, Linked, IInv, TypeOK, OneOwner, Occupied
            <3>2. cells'[pos] = Null
                  BY <1>1, <2>2 DEF Current, Linked, IInv, TypeOK
            <3>3. \A p \in Pos \ {pos} : cells[p] # Null => impl'[cells[p]] = impl[cells[p]]
                  BY <2>2, <3>1 DEF Current, Linked, IInv, TypeOK
            <3>. QED BY <3>1, <3>2, <3>3 DEF TextAt
      <2>. QED BY <2>1, <2>2 DEF ClearCell
<1>3. Contract!Write(pos, EmptyText)
      BY <1>1, <1>2, WriteImplements
<1>4. Contract!ClearCell(pos)
      BY <1>3 DEF Contract!ClearCell
<1>5. Contract!IsValid(pos)
      BY <1>1, ContractConstants
<1>. QED BY <1>4, <1>5 DEF Contract!Next

\* Looking fills caches, which nobody sees.
LEMMA ShowImplements ==
    ASSUME ShowsItsTexts, ShowsItsTexts', NEW roots, Show(roots), refused' = <<>>
    PROVE  Contract!Next
<1>1. /\ Content' = Content
      /\ outcome' = "ok"
      BY DEF Show, Content, TextAt
<1>2. Contract!Look
      BY <1>1, DisplayStays DEF Contract!Look
<1>. QED BY <1>2 DEF Contract!Next

\* Every step of the table is one of the contract, or none.
LEMMA StepImplements ==
    ASSUME Current, ShowsItsTexts, ShowsItsTexts', [RecordedNext]_<<vars, refused>>
    PROVE  [Contract!Next]_(Contract!vars)
<1>1. ASSUME NEW pos \in ArgPos, Refused(pos)
      PROVE  Contract!Next
      BY <1>1, RefusedImplements
<1>2. ASSUME NEW pos \in ArgPos, Accepted(pos), refused' = <<>>
      PROVE  Contract!Next
      BY <1>2, StoreImplements, ClearImplements, ShowImplements DEF Accepted, GetValue
<1>3. CASE PrintValues /\ refused' = <<>>
      BY <1>3, ShowImplements DEF PrintValues
<1>4. CASE UNCHANGED <<vars, refused>>
      <2>1. Content' = Content /\ UNCHANGED <<outcome, refused>>
            BY <1>4 DEF vars, Content, TextAt
      <2>. QED BY <2>1, DisplayStays DEF Contract!vars
<1>. QED BY <1>1, <1>2, <1>3, <1>4 DEF RecordedNext

\* The table starts as the empty one.
LEMMA InitImplements ==
    ASSUME RecordedInit, ShowsItsTexts
    PROVE  Contract!Init
<1>1. Content = [p \in Contract!Pos |-> EmptyText]
      BY ContractConstants DEF RecordedInit, Init, Content, TextAt
<1>. QED BY <1>1 DEF ShowsItsTexts, RecordedInit, Init, Contract!Init

\* SheetInterface keeps its contract with every caller that clears isolated cells
\* only: SetCell refuses a text exactly when it does not parse or closes a cycle,
\* what GetValue returns is what the texts define, whatever has been cached, and
\* neither a refused call nor a look changes anything to see.
THEOREM TableKeepsContract == RecordedSpec => ImplementsContract
<1>1. RecordedInit => Current
      <2>1. Init => CachedValuesCurrent
            BY DEF Init, CachedValuesCurrent, Occupied
      <2>2. Linked => SettledTyped
            BY SettledType DEF Linked, IInv, SettledTyped
      <2>. QED BY <2>1, <2>2, InitLinked DEF RecordedInit, Current
<1>2. Current /\ [RecordedNext]_<<vars, refused>> => Current'
      BY CurrentKept
<1>3. Current => ShowsItsTexts
      BY CurrentShowsItsTexts
<1>4. RecordedInit /\ ShowsItsTexts => Contract!Init
      BY InitImplements
<1>5. Current /\ ShowsItsTexts /\ ShowsItsTexts' /\ [RecordedNext]_<<vars, refused>>
         => [Contract!Next]_(Contract!vars)
      BY StepImplements
<1>. QED BY <1>1, <1>2, <1>3, <1>4, <1>5, PTL
         DEF RecordedSpec, ImplementsContract, Contract!Spec
===========================================================================
