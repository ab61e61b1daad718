----------------------- MODULE RecalculationTheorems ----------------------
(***************************************************************************)
(* For every table without cycles, every set of formulas, and any of them  *)
(* cached with any value it has over some values of the cells: the         *)
(* recursion of GetValue goes along references and so                      *)
(* comes to no formula that is being evaluated already, and it evaluates   *)
(* none that has a value.  What it caches on the way belongs to the one    *)
(* table of values that Show takes for granted.                            *)
(***************************************************************************)
EXTENDS Recalculation, GeneralTheorems, SequenceTheorems, TLAPS

Number == -MaxDouble..MaxDouble

Machine == [stack : Seq(Number), read : SUBSET Pos, thrown : Category \cup {"none"}]

Evaluation == [pos : Pos, done : Nat, machine : Machine]

---------------------------------------------------------------------------
(***************************************************************************)
(* One node.                                                               *)
(***************************************************************************)

\* What is left below the value on top.
LEMMA FrontOfStack ==
    ASSUME NEW S, NEW st \in Seq(S), Len(st) >= 1
    PROVE  /\ Front(st) \in Seq(S)
           /\ Len(Front(st)) = Len(st) - 1
           /\ Last(st) \in S
           /\ \A i \in 1..Len(st) - 1 : Front(st)[i] = st[i]
<1>. DEFINE n == Len(st) - 1
            f == Front(st)
<1>1. Len(st) \in Nat \ {0} /\ n \in Nat
      BY LenProperties
<1>2. (\A i \in 1..n : st[i] \in S) /\ st[Len(st)] \in S
      BY <1>1, ElementOfSeq
<1>3. f = SubSeq(st, 1, n)
      BY DEF Front
<1>4. /\ f \in Seq(S)
      /\ Len(f) = IF 1 <= n THEN n - 1 + 1 ELSE 0
      /\ \A i \in 1..n - 1 + 1 : f[i] = st[1 + i - 1]
      <2>. HIDE DEF n, f
      <2>1. 1 \in Int /\ n \in Int
            BY <1>1
      <2>. QED BY <1>2, <1>3, <2>1, SubSeqProperties
<1>5. Len(f) = n /\ \A i \in 1..n : f[i] = st[i]
      <2>. HIDE DEF n, f
      <2>. QED BY <1>1, <1>4
<1>. QED BY <1>2, <1>4, <1>5 DEF Last

\* A value on top of the others.
LEMMA PushOnStack ==
    ASSUME NEW S, NEW st \in Seq(S), NEW e \in S
    PROVE  /\ Append(st, e) \in Seq(S)
           /\ Len(Append(st, e)) = Len(st) + 1
           /\ Append(st, e)[Len(st) + 1] = e
           /\ \A i \in 1..Len(st) : Append(st, e)[i] = st[i]
BY AppendProperties

\* Every node finds its operands on the stack and leaves a finite number there, or
\* throws: CellExpr, NumberExpr, UnaryOpExpr and BinaryOpExpr.
LEMMA NodeEvaluated ==
    ASSUME NEW program \in Seq(ProgramToken), NEW height \in StackHeights(program),
           NEW i \in 1..Len(program), NEW m \in Machine, m.thrown = "none",
           Len(m.stack) = height[i-1],
           NEW value, DOMAIN value = Pos,
           program[i][1] = "cell" => value[program[i][2]] \in Value
    PROVE  /\ EvaluateToken(m, program[i], value) \in Machine
           /\ EvaluateToken(m, program[i], value).thrown = "none" =>
                 Len(EvaluateToken(m, program[i], value).stack) = height[i]
<1>. DEFINE t   == program[i]
            new == EvaluateToken(m, t, value)
<1>1. /\ t \in ProgramToken
      /\ i - 1 \in 0..Len(program) /\ i \in 0..Len(program)
      <2>1. Len(program) \in Nat
            BY LenProperties
      <2>. QED BY <2>1, ElementOfSeq
<1>2. height[i-1] \in Nat /\ height[i] \in Nat
      BY <1>1 DEF StackHeights
<1>3. /\ m.stack \in Seq(Number) /\ m.read \in SUBSET Pos /\ m.thrown \in Category \cup {"none"}
      /\ m = [stack |-> m.stack, read |-> m.read, thrown |-> m.thrown]
      BY DEF Machine
<1>4. CASE t[1] = "cell"
      <2>1. t[2] \in Pos /\ value[t[2]] \in Value /\ height[i] = height[i-1] + 1
            BY <1>1, <1>4 DEF ProgramToken, StackHeights
      <2>2. value[t[2]] \in FormulaValue \/ value[t[2]][1] = "string"
            BY <2>1, ProgramAssumption
      <2>. DEFINE called == [m EXCEPT !.read = @ \cup {t[2]}]
                  got    == value[t[2]]
      <2>3. called \in Machine /\ called.stack = m.stack /\ called.thrown = "none"
            BY <1>3, <2>1 DEF Machine
      <2>4. new = CASE got[1] = "double" -> Push(called, got[2])
                    [] got[1] = "error"  -> Fail(called, got[2])
                    [] got[1] = "string" -> Fail(called, "Value")
            BY <1>4, <2>1 DEF EvaluateToken, EvaluateCell
      <2>5. CASE got[1] = "double"
            <3>1. got[2] \in Number
                  BY <2>2, <2>5 DEF FormulaValue, Double, FormulaError, Number
            <3>2. new = Push(called, got[2])
                  BY <2>4, <2>5
            <3>3. /\ Append(m.stack, got[2]) \in Seq(Number)
                  /\ Len(Append(m.stack, got[2])) = Len(m.stack) + 1
                  <4>1. m.stack \in Seq(Number)
                        BY <1>3
                  <4>. HIDE DEF got, new, called
                  <4>. QED BY ONLY <3>1, <4>1, PushOnStack
            <3>4. new \in Machine /\ new.stack = Append(m.stack, got[2])
                  BY <2>3, <3>2, <3>3 DEF Push, Machine
            <3>. QED BY <2>1, <3>3, <3>4
      <2>6. CASE got[1] = "error"
            <3>1. got[2] \in Category
                  BY <2>2, <2>6 DEF FormulaValue, Double, FormulaError
            <3>2. new = Fail(called, got[2])
                  BY <2>4, <2>6
            <3>. QED BY <2>3, <3>1, <3>2 DEF Fail, Machine, Category
      <2>7. CASE got[1] = "string"
            <3>1. new = Fail(called, "Value")
                  BY <2>4, <2>7
            <3>. QED BY <2>3, <3>1 DEF Fail, Machine, Category
      <2>8. got[1] \in {"double", "error", "string"}
            BY <2>2 DEF FormulaValue, Double, FormulaError
      <2>. QED BY <2>5, <2>6, <2>7, <2>8
<1>5. CASE t[1] = "number"
      <2>1. t[2] \in Number /\ height[i] = height[i-1] + 1
            BY <1>1, <1>5 DEF ProgramToken, StackHeights, Number
      <2>2. new = Push(m, t[2])
            BY <1>5 DEF EvaluateToken
      <2>3. /\ Append(m.stack, t[2]) \in Seq(Number)
            /\ Len(Append(m.stack, t[2])) = Len(m.stack) + 1
            BY <1>3, <2>1, PushOnStack
      <2>. QED BY <1>3, <2>1, <2>2, <2>3 DEF Push, Machine
<1>6. CASE t[1] = "unary"
      <2>1. height[i-1] >= 1 /\ height[i] = height[i-1]
            BY <1>6 DEF StackHeights
      <2>. DEFINE x == Last(m.stack)
                  y == IF t[2] = "-" THEN -x ELSE x
      <2>2. new = [m EXCEPT !.stack = Append(Front(@), y)]
            BY <1>6 DEF EvaluateToken, EvaluateUnary
      <2>3. Front(m.stack) \in Seq(Number) /\ Len(Front(m.stack)) = Len(m.stack) - 1 /\ x \in Number
            BY <1>3, <2>1, FrontOfStack
      <2>4. y \in Number
            BY <2>3, MaxDoubleAssumption DEF Number
      <2>5. /\ Append(Front(m.stack), y) \in Seq(Number)
            /\ Len(Append(Front(m.stack), y)) = Len(Front(m.stack)) + 1
            BY <2>3, <2>4, PushOnStack
      <2>6. Len(Append(Front(m.stack), y)) = height[i]
            BY <1>2, <2>1, <2>3, <2>5
      <2>. HIDE DEF y
      <2>7. /\ new = [stack |-> Append(Front(m.stack), y), read |-> m.read,
                      thrown |-> m.thrown]
            BY <1>3, <2>2
      <2>. QED BY <1>3, <2>5, <2>6, <2>7 DEF Machine
<1>7. CASE t[1] = "binary"
      <2>1. height[i-1] >= 2 /\ height[i] = height[i-1] - 1
            BY <1>7 DEF StackHeights
      <2>. DEFINE below == Front(m.stack)
                  lhs   == Last(below)
                  rhs   == Last(m.stack)
                  y     == Apply(t[2], lhs, rhs)
      <2>2. new = IF (t[2] = "/" /\ rhs = 0) \/ ~IsFinite(y)
                  THEN Fail(m, "Arithmetic")
                  ELSE [m EXCEPT !.stack = Append(Front(below), y)]
            BY <1>7 DEF EvaluateToken, EvaluateBinary
      <2>3. below \in Seq(Number) /\ Len(below) = Len(m.stack) - 1
            <3>1. Len(m.stack) >= 1
                  BY <1>2, <2>1
            <3>. QED BY <1>3, <3>1, FrontOfStack
      <2>. HIDE DEF below, rhs, y
      <2>4. Front(below) \in Seq(Number) /\ Len(Front(below)) = Len(below) - 1
            <3>1. Len(below) >= 1
                  BY <1>2, <2>1, <2>3
            <3>. QED BY <2>3, <3>1, FrontOfStack
      <2>5. CASE (t[2] = "/" /\ rhs = 0) \/ ~IsFinite(y)
            BY <1>3, <2>2, <2>5 DEF Fail, Machine, Category
      <2>6. CASE ~((t[2] = "/" /\ rhs = 0) \/ ~IsFinite(y))
            <3>1. y \in Number
                  BY <2>6 DEF IsFinite, Number
            <3>2. /\ Append(Front(below), y) \in Seq(Number)
                  /\ Len(Append(Front(below), y)) = Len(Front(below)) + 1
                  BY <2>4, <3>1, PushOnStack
            <3>3. Len(Append(Front(below), y)) = height[i]
                  BY <1>2, <2>1, <2>3, <2>4, <3>2
            <3>4. new = [stack |-> Append(Front(below), y), read |-> m.read,
                         thrown |-> m.thrown]
                  BY <1>3, <2>2, <2>6
            <3>. QED BY <1>3, <3>2, <3>3, <3>4 DEF Machine
      <2>. QED BY <2>5, <2>6
<1>. QED BY <1>1, <1>4, <1>5, <1>6, <1>7 DEF ProgramToken

---------------------------------------------------------------------------
(***************************************************************************)
(* The invariant.                                                          *)
(***************************************************************************)

\* The table, which stays as it is while the call runs.
Fixed == /\ cells \in [Pos -> Addr \cup {Null}]
         /\ impl \in [Addr -> Text \ BadFormulaText]
         /\ OneOwner
         /\ ReferencesAcyclic

\* An evaluation has as many values on its stack as its nodes left there.
IsUnderway(f) ==
    /\ f.pos \in Pending
    /\ f.done <= Len(Program(f.pos))
    /\ f.machine.thrown = "none" =>
          \A height \in StackHeights(Program(f.pos)) : Len(f.machine.stack) = height[f.done]

\* It waits for the cell at p.
Asks(f, p) == f.done < Len(Program(f.pos)) /\ Token(f) = <<"cell", p>>

\* Each evaluation under way waits for the next, and none for one below it.
Nested == /\ stack \in Seq(Evaluation)
          /\ \A i \in 1..Len(stack) : IsUnderway(stack[i])
          /\ \A i \in 1..Len(stack) - 1 : Asks(stack[i], stack[i+1].pos)
          /\ \A i, j \in 1..Len(stack) : stack[i].pos = stack[j].pos => i = j

\* A formula has been evaluated only if it had no value; if it has none yet, its
\* evaluation is under way.
Counted ==
    /\ evaluations \in [Pos -> Nat]
    /\ \A p \in Pos :
          /\ evaluations[p] <= 1
          /\ evaluations[p] # 0 => p \in Occupied /\ before[cells[p]] = NoValue
          /\ p \in Pending /\ (\A i \in 1..Len(stack) : stack[i].pos # p) => evaluations[p] = 0

RInv == /\ Fixed
        /\ cache \in [Addr -> Value \cup {NoValue}]
        /\ \A a \in Addr : before[a] # NoValue => cache[a] # NoValue
        /\ todo \subseteq roots
        /\ Nested
        /\ Counted
        /\ returned => stack = <<>> /\ todo = {}

\* The program of a formula without a value is one.
LEMMA PendingProgram ==
    ASSUME Fixed, NEW p \in Pending
    PROVE  /\ p \in Pos /\ cells[p] \in Addr
           /\ Program(p) \in FormulaText
           /\ Program(p) \in Seq(ProgramToken)
           /\ References[p] = RefsOf(Program(p))
<1>1. p \in Pos /\ cells[p] # Null /\ TextAt(p) \in FormulaText
      BY DEF Pending, Occupied
<1>. QED BY <1>1, ProgramAssumption DEF Fixed, Program, References, Refs

\* A cell asked for is a reference.
LEMMA AskedIsReferenced ==
    ASSUME Fixed, NEW f \in Evaluation, f.pos \in Pending, NEW p, Asks(f, p)
    PROVE  p \in References[f.pos]
<1>1. /\ Program(f.pos) \in FormulaText /\ Program(f.pos) \in Seq(ProgramToken)
      /\ References[f.pos] = RefsOf(Program(f.pos))
      BY PendingProgram
<1>2. f.done + 1 \in DOMAIN Program(f.pos)
      <2>1. Len(Program(f.pos)) \in Nat /\ DOMAIN Program(f.pos) = 1..Len(Program(f.pos))
            BY <1>1, LenProperties
      <2>. QED BY <2>1 DEF Evaluation, Asks
<1>3. Program(f.pos)[f.done + 1][1] = "cell" /\ Program(f.pos)[f.done + 1][2] = p
      BY DEF Asks, Token
<1>4. p \in FormulaReferencedCells(Program(f.pos))
      BY <1>2, <1>3 DEF FormulaReferencedCells
<1>. QED BY <1>1, <1>4, ProgramAssumption

\* What the innermost evaluation asks for is not being evaluated: references
\* form no cycle.
LEMMA AskedIsNew ==
    ASSUME Fixed, Nested, stack # <<>>, NEW p, Asks(Top, p)
    PROVE  \A i \in 1..Len(stack) : stack[i].pos # p
<1>. DEFINE n == Len(stack)
<1>1. stack \in Seq(Evaluation) /\ n \in Nat \ {0}
      BY EmptySeq, LenProperties DEF Nested
<1>2. SUFFICES ASSUME NEW i \in 1..n, stack[i].pos = p PROVE FALSE
      OBVIOUS
<1>. DEFINE S == {stack[k].pos : k \in i..n}
<1>3. \A k \in 1..n : stack[k] \in Evaluation /\ stack[k].pos \in Pending /\ stack[k].pos \in Pos
      <2>1. \A k \in 1..n : stack[k] \in Evaluation
            BY <1>1, ElementOfSeq
      <2>. QED BY <2>1 DEF Nested, IsUnderway, Pending, Occupied
<1>4. \A k \in i..n : References[stack[k].pos] \cap S # {}
      <2>1. SUFFICES ASSUME NEW k \in i..n PROVE References[stack[k].pos] \cap S # {}
            OBVIOUS
      <2>2. k \in 1..n
            BY <1>1
      <2>3. CASE k = n
            <3>1. p \in References[stack[k].pos]
                  BY <1>3, <2>2, <2>3, AskedIsReferenced DEF Top, Last
            <3>2. p \in S
                  BY <1>1, <1>2
            <3>. QED BY <3>1, <3>2
      <2>4. CASE k # n
            <3>1. k \in 1..n - 1 /\ k + 1 \in i..n
                  BY <1>1, <2>4
            <3>2. stack[k+1].pos \in References[stack[k].pos]
                  BY <1>3, <2>2, <3>1, AskedIsReferenced DEF Nested
            <3>. QED BY <3>1, <3>2
      <2>. QED BY <2>3, <2>4
<1>5. S \in SUBSET Pos /\ S # {}
      BY <1>1, <1>3
<1>6. \A x \in S : References[x] \cap S # {}
      BY <1>4
<1>7. DOMAIN References = Pos
      BY DEF References
<1>. HIDE DEF S
<1>. QED BY <1>5, <1>6, <1>7 DEF Fixed, ReferencesAcyclic, IsAcyclic

\* GetValue of a cell that is not pending returns a value at once.
LEMMA ShownIsValue ==
    ASSUME Fixed, cache \in [Addr -> Value \cup {NoValue}], NEW p \in Pos, p \notin Pending
    PROVE  Shown[p] \in Value
<1>1. CASE cells[p] = Null
      BY <1>1, ValueAssumption DEF Shown, KnownValue
<1>2. CASE cells[p] # Null
      <2>1. p \in Occupied /\ cells[p] \in Addr /\ TextAt(p) = impl[cells[p]]
            BY <1>2 DEF Occupied, Fixed, TextAt
      <2>2. impl[cells[p]] \in {EmptyText} \cup PlainText \cup FormulaText
            BY <2>1 DEF Fixed, Text
      <2>3. impl[cells[p]] \in FormulaText => cache[cells[p]] \in Value
            BY <2>1 DEF Pending
      <2>4. Shown[p] = CASE impl[cells[p]] = EmptyText    -> Zero
                         [] impl[cells[p]] \in PlainText   -> TextValue(impl[cells[p]])
                         [] impl[cells[p]] \in FormulaText -> cache[cells[p]]
            BY <1>2 DEF Shown, KnownValue
      <2>. QED BY <2>2, <2>3, <2>4, TextAssumption, ValueAssumption
<1>. QED BY <1>1, <1>2

---------------------------------------------------------------------------
(***************************************************************************)
(* The steps.                                                              *)
(***************************************************************************)

\* The table is the same after a step.
LEMMA TableStays ==
    ASSUME Fixed, UNCHANGED table
    PROVE  /\ Fixed'
           /\ Occupied' = Occupied
           /\ \A p : Program(p)' = Program(p)
           /\ cache' = cache => Pending' = Pending
<1>1. cells' = cells /\ impl' = impl
      BY DEF table
<1>2. Occupied' = Occupied /\ References' = References /\ \A p : TextAt(p)' = TextAt(p)
      BY <1>1 DEF Occupied, References, TextAt
<1>3. OneOwner' /\ ReferencesAcyclic'
      BY <1>1, <1>2 DEF Fixed, OneOwner, ReferencesAcyclic
<1>4. cache' = cache => Pending' = Pending
      BY <1>1, <1>2 DEF Pending
<1>. QED BY <1>1, <1>2, <1>3, <1>4 DEF Fixed, Program

\* The frame of p is an evaluation with nothing done.
LEMMA FrameIsUnderway ==
    ASSUME Fixed, NEW p \in Pending
    PROVE  Frame(p) \in Evaluation /\ IsUnderway(Frame(p)) /\ Frame(p).pos = p
<1>1. p \in Pos /\ Program(p) \in Seq(ProgramToken)
      BY PendingProgram
<1>2. Len(Program(p)) \in Nat
      BY <1>1, LenProperties
<1>3. <<>> \in Seq(Number) /\ Len(<<>>) = 0
      BY EmptySeq
<1>4. Frame(p) \in Evaluation
      BY <1>1, <1>3 DEF Frame, Started, Evaluation, Machine
<1>5. \A height \in StackHeights(Program(p)) : height[0] = 0
      BY DEF StackHeights
<1>. QED BY <1>2, <1>3, <1>4, <1>5 DEF Frame, Started, IsUnderway

\* Evaluate() of a formula without a value begins, asked for by the call or by the
\* innermost evaluation.
LEMMA BeginKeeps ==
    ASSUME RInv, ~returned, UNCHANGED <<table, roots, before>>,
           NEW p \in Pending, Begin(p), todo' \in SUBSET todo,
           \A i \in 1..Len(stack) : stack[i].pos # p,
           stack # <<>> => Asks(Top, p)
    PROVE  RInv'
<1>. DEFINE n == Len(stack)
            e == Frame(p)
<1>1. /\ stack' = Append(stack, e)
      /\ evaluations' = [evaluations EXCEPT ![p] = @ + 1]
      /\ cache' = cache /\ returned' = returned
      BY DEF Begin
<1>2. /\ Fixed' /\ Occupied' = Occupied /\ Pending' = Pending
      /\ \A q : Program(q)' = Program(q)
      BY <1>1, TableStays DEF RInv
<1>3. stack \in Seq(Evaluation) /\ n \in Nat /\ p \in Pos
      BY LenProperties DEF RInv, Nested, Pending, Occupied
<1>4. e \in Evaluation /\ IsUnderway(e) /\ e.pos = p
      BY FrameIsUnderway DEF RInv
<1>5. /\ stack' \in Seq(Evaluation) /\ Len(stack') = n + 1
      /\ stack'[n+1] = e
      /\ \A i \in 1..n : stack'[i] = stack[i]
      <2>. HIDE DEF e
      <2>. QED BY <1>1, <1>3, <1>4, PushOnStack
<1>. HIDE DEF e
<1>6. \A f : (IsUnderway(f)' <=> IsUnderway(f)) /\ \A q : (Asks(f, q)' <=> Asks(f, q))
      BY <1>2 DEF IsUnderway, Asks, Token
<1>7. \A i \in 1..n + 1 : IsUnderway(stack'[i])
      BY <1>3, <1>4, <1>5 DEF RInv, Nested
<1>8. \A i \in 1..n : Asks(stack'[i], stack'[i+1].pos)
      <2>1. SUFFICES ASSUME NEW i \in 1..n PROVE Asks(stack'[i], stack'[i+1].pos)
            OBVIOUS
      <2>2. CASE i = n
            <3>1. stack # <<>>
                  BY <1>3, <2>2, EmptySeq
            <3>. QED BY <1>4, <1>5, <2>2, <3>1 DEF Top, Last
      <2>3. CASE i # n
            <3>1. i \in 1..n - 1 /\ i + 1 \in 1..n
                  BY <1>3, <2>3
            <3>. QED BY <1>5, <3>1 DEF RInv, Nested
      <2>. QED BY <2>2, <2>3
<1>9. \A i, j \in 1..n + 1 : stack'[i].pos = stack'[j].pos => i = j
      BY <1>3, <1>4, <1>5 DEF RInv, Nested
<1>10. Nested'
      <2>1. 1..Len(stack') = 1..n + 1 /\ 1..Len(stack') - 1 = 1..n
            BY <1>3, <1>5
      <2>. QED BY <1>5, <1>6, <1>7, <1>8, <1>9, <2>1 DEF Nested
<1>11. Counted'
      <2>1. evaluations \in [Pos -> Nat] /\ evaluations[p] = 0
            BY <1>3 DEF RInv, Counted
      <2>2. /\ evaluations' \in [Pos -> Nat] /\ evaluations'[p] = 1
            /\ \A q \in Pos : q # p => evaluations'[q] = evaluations[q]
            BY <1>1, <1>3, <2>1
      <2>3. p \in Occupied /\ before[cells[p]] = NoValue
            BY PendingProgram DEF RInv, Pending
      <2>4. ASSUME NEW q \in Pos
            PROVE  /\ evaluations'[q] <= 1
                   /\ evaluations'[q] # 0 => q \in Occupied /\ before[cells[q]] = NoValue
                   /\ q \in Pending /\ (\A i \in 1..n + 1 : stack'[i].pos # q)
                         => evaluations'[q] = 0
            <3>1. CASE q = p
                  BY <1>3, <1>4, <1>5, <2>2, <2>3, <3>1
            <3>2. CASE q # p
                  <4>1. (\A i \in 1..n + 1 : stack'[i].pos # q)
                           => (\A i \in 1..n : stack[i].pos # q)
                        BY <1>3, <1>5
                  <4>. QED BY <2>2, <3>2, <4>1 DEF RInv, Counted
            <3>. QED BY <3>1, <3>2
      <2>. QED BY <1>2, <1>5, <2>2, <2>4 DEF Counted, table
<1>. QED BY <1>1, <1>2, <1>10, <1>11 DEF RInv

\* A formula of the call is shown.
LEMMA ShowNextKeeps ==
    ASSUME RInv, ~returned, UNCHANGED <<table, roots, before>>, NEW p, ShowNext(p)
    PROVE  RInv'
<1>1. stack = <<>> /\ Len(stack) = 0 /\ todo' \in SUBSET todo
      BY EmptySeq DEF ShowNext
<1>2. CASE p \in Pending
      <2>1. Begin(p)
            BY <1>2 DEF ShowNext
      <2>. QED BY <1>1, <1>2, <2>1, BeginKeeps
<1>3. CASE p \notin Pending
      <2>1. UNCHANGED <<cache, stack, returned, evaluations>>
            BY <1>3 DEF ShowNext
      <2>2. Fixed' /\ Occupied' = Occupied /\ Pending' = Pending
            BY <2>1, TableStays DEF RInv
      <2>3. Nested'
            BY <1>1, <2>1, EmptySeq DEF Nested
      <2>4. Counted'
            BY <2>1, <2>2 DEF RInv, Counted, table
      <2>. QED BY <1>1, <2>1, <2>2, <2>3, <2>4 DEF RInv
<1>. QED BY <1>2, <1>3

\* CellExpr asks a formula without a value.
LEMMA AskKeeps ==
    ASSUME RInv, ~returned, UNCHANGED <<table, roots, before>>, NEW p, Ask(p)
    PROVE  RInv'
<1>1. stack # <<>> /\ p \in Pending /\ Begin(p) /\ todo' \in SUBSET todo
      BY DEF Ask
<1>2. stack \in Seq(Evaluation) /\ Len(stack) \in 1..Len(stack)
      BY <1>1, EmptySeq, LenProperties DEF RInv, Nested
<1>3. Asks(Top, p)
      <2>1. Top \in Evaluation /\ IsUnderway(Top)
            BY <1>2, ElementOfSeq DEF RInv, Nested, Top, Last
      <2>2. Len(Program(Top.pos)) \in Nat
            BY <2>1, PendingProgram, LenProperties DEF RInv, IsUnderway
      <2>. QED BY <2>1, <2>2 DEF Ask, IsOver, Asks, IsUnderway, Evaluation
<1>4. \A i \in 1..Len(stack) : stack[i].pos # p
      BY <1>1, <1>3, AskedIsNew DEF RInv
<1>. QED BY <1>1, <1>3, <1>4, BeginKeeps

\* Any other node is evaluated.
LEMMA EvaluateNodeKeeps ==
    ASSUME RInv, ~returned, UNCHANGED <<table, roots, before>>, EvaluateNode
    PROVE  RInv'
<1>. DEFINE n == Len(stack)
            f == stack[n]
            m == EvaluateToken(f.machine, Token(f), Shown)
            new == [pos |-> f.pos, done |-> f.done + 1, machine |-> m]
<1>1. /\ stack # <<>> /\ ~IsOver(f)
      /\ ~(Token(f)[1] = "cell" /\ Token(f)[2] \in Pending)
      /\ stack' = [stack EXCEPT ![n] = new]
      /\ UNCHANGED <<todo, cache, returned, evaluations>>
      BY DEF EvaluateNode, Top, Last
<1>2. /\ Fixed' /\ Occupied' = Occupied /\ Pending' = Pending
      /\ \A q : Program(q)' = Program(q)
      BY <1>1, TableStays DEF RInv
<1>3. stack \in Seq(Evaluation) /\ n \in Nat \ {0}
      BY <1>1, EmptySeq, LenProperties DEF RInv, Nested
<1>4. f \in Evaluation /\ IsUnderway(f)
      BY <1>3, ElementOfSeq DEF RInv, Nested
<1>5. new \in Evaluation /\ IsUnderway(new)
      <2>. DEFINE program == Program(f.pos)
      <2>1. /\ program \in Seq(ProgramToken) /\ Len(program) \in Nat
            /\ program \in FormulaText
            BY <1>4, PendingProgram, LenProperties DEF RInv, IsUnderway
      <2>2. /\ f.machine \in Machine /\ f.machine.thrown = "none"
            /\ f.done \in Nat /\ f.done + 1 \in 1..Len(program)
            /\ f.pos \in Pos
            BY <1>1, <1>4, <2>1 DEF IsOver, IsUnderway, Evaluation
      <2>3. Token(f) = program[f.done + 1]
            BY DEF Token
      <2>4. program[f.done + 1] \in ProgramToken
            BY <2>1, <2>2, ElementOfSeq
      <2>5. program[f.done + 1][1] = "cell" => Shown[program[f.done + 1][2]] \in Value
            <3>1. SUFFICES ASSUME program[f.done + 1][1] = "cell"
                  PROVE  Shown[program[f.done + 1][2]] \in Value
                  OBVIOUS
            <3>2. program[f.done + 1][2] \in Pos
                  BY <2>4, <3>1 DEF ProgramToken
            <3>. QED BY <1>1, <2>3, <3>1, <3>2, ShownIsValue DEF RInv
      <2>6. DOMAIN Shown = Pos
            BY DEF Shown
      <2>7. ASSUME NEW height \in StackHeights(program)
            PROVE  m \in Machine /\ (m.thrown = "none" => Len(m.stack) = height[f.done + 1])
            <3>1. Len(f.machine.stack) = height[f.done + 1 - 1]
                  BY <1>4, <2>2 DEF IsUnderway
            <3>2. m = EvaluateToken(f.machine, program[f.done + 1], Shown)
                  BY <2>3
            <3>. HIDE DEF program, f, m
            <3>. DEFINE k == f.done + 1
            <3>3. k \in 1..Len(program) /\ Len(f.machine.stack) = height[k-1]
                  BY <2>2, <3>1
            <3>4. program[k][1] = "cell" => Shown[program[k][2]] \in Value
                  BY <2>5
            <3>5. m = EvaluateToken(f.machine, program[k], Shown)
                  BY <3>2
            <3>. HIDE DEF k
            <3>6. m \in Machine /\ (m.thrown = "none" => Len(m.stack) = height[k])
                  BY <2>1, <2>2, <2>6, <3>3, <3>4, <3>5, NodeEvaluated
            <3>. QED BY <3>6 DEF k
      <2>8. StackHeights(program) # {}
            BY <2>1, ProgramAssumption
      <2>9. m \in Machine
            BY <2>7, <2>8
      <2>. HIDE DEF m
      <2>10. new \in Evaluation
            BY <2>2, <2>9 DEF Evaluation
      <2>11. new.done <= Len(Program(new.pos))
            BY <2>2
      <2>12. new.pos \in Pending
            BY <1>4 DEF IsUnderway
      <2>. QED BY <2>7, <2>10, <2>11, <2>12 DEF IsUnderway
<1>. HIDE DEF m
<1>6. /\ stack' \in Seq(Evaluation) /\ Len(stack') = n
      /\ stack'[n] = new
      /\ \A i \in 1..n - 1 : stack'[i] = stack[i]
      <2>. HIDE DEF new
      <2>. QED BY <1>1, <1>3, <1>5, ExceptSeq
<1>7. \A i \in 1..n : stack'[i].pos = stack[i].pos
      BY <1>3, <1>6
<1>8. \A g : (IsUnderway(g)' <=> IsUnderway(g)) /\ \A q : (Asks(g, q)' <=> Asks(g, q))
      BY <1>2 DEF IsUnderway, Asks, Token
<1>. HIDE DEF new, f
<1>9. \A i \in 1..n : IsUnderway(stack'[i])
      BY <1>3, <1>5, <1>6 DEF RInv, Nested
<1>10. \A i \in 1..n - 1 : Asks(stack'[i], stack'[i+1].pos)
      <2>1. SUFFICES ASSUME NEW i \in 1..n - 1 PROVE Asks(stack'[i], stack'[i+1].pos)
            OBVIOUS
      <2>2. stack'[i] = stack[i] /\ stack'[i+1].pos = stack[i+1].pos
            BY <1>3, <1>6, <1>7
      <2>. QED BY <2>2 DEF RInv, Nested
<1>11. Nested'
      <2>1. \A i, j \in 1..n : stack'[i].pos = stack'[j].pos => i = j
            BY <1>7 DEF RInv, Nested
      <2>. QED BY <1>6, <1>8, <1>9, <1>10, <2>1 DEF Nested
<1>12. Counted'
      <2>1. \A q : (\A i \in 1..Len(stack') : stack'[i].pos # q)
                      => (\A i \in 1..Len(stack) : stack[i].pos # q)
            BY <1>6, <1>7
      <2>. QED BY <1>1, <1>2, <2>1 DEF RInv, Counted, table
<1>. QED BY <1>1, <1>2, <1>3, <1>11, <1>12 DEF RInv

\* What an evaluation comes to is a value.
LEMMA ResultIsValue ==
    ASSUME Fixed, NEW f \in Evaluation, IsUnderway(f), IsOver(f)
    PROVE  Cached(f) \in Value
<1>. DEFINE program == Program(f.pos)
<1>1. program \in FormulaText /\ f.machine \in Machine
      BY PendingProgram DEF IsUnderway, Evaluation
<1>2. CASE f.machine.thrown = "none"
      <2>1. PICK height \in StackHeights(program) : TRUE
            BY <1>1, ProgramAssumption
      <2>2. Len(f.machine.stack) = height[Len(program)]
            BY <1>2, <2>1 DEF IsUnderway, IsOver
      <2>3. height[Len(program)] = 1
            BY DEF StackHeights
      <2>4. f.machine.stack \in Seq(Number)
            BY <1>1 DEF Machine
      <2>. HIDE DEF program
      <2>5. Last(f.machine.stack) \in Number
            <3>1. Len(f.machine.stack) >= 1
                  BY <2>2, <2>3
            <3>. QED BY <2>4, <3>1, FrontOfStack
      <2>6. Double(Last(f.machine.stack)) \in FormulaValue
            BY <2>5 DEF FormulaValue, Number
      <2>. QED BY <1>2, <2>6, ProgramAssumption DEF Cached, Result
<1>3. CASE f.machine.thrown # "none"
      <2>1. f.machine.thrown \in Category
            BY <1>1, <1>3 DEF Machine
      <2>2. FormulaError(f.machine.thrown) \in FormulaValue
            BY <2>1 DEF FormulaValue
      <2>. QED BY <1>3, <2>2, ProgramAssumption DEF Cached, Result
<1>. QED BY <1>2, <1>3

\* An evaluation ends, and its formula has a value.
LEMMA FinishKeeps ==
    ASSUME RInv, ~returned, UNCHANGED <<table, roots, before>>, Finish
    PROVE  RInv'
<1>. DEFINE n == Len(stack)
            f == stack[n]
            x == Cached(f)
<1>1. /\ stack # <<>> /\ IsOver(f)
      /\ cache' = [cache EXCEPT ![cells[f.pos]] = x]
      /\ stack' = Front(stack)
      /\ UNCHANGED <<todo, returned, evaluations>>
      BY DEF Finish, Top, Last
<1>2. Fixed' /\ Occupied' = Occupied /\ \A q : Program(q)' = Program(q)
      BY TableStays DEF RInv
<1>3. stack \in Seq(Evaluation) /\ n \in Nat \ {0}
      BY <1>1, EmptySeq, LenProperties DEF RInv, Nested
<1>4. f \in Evaluation /\ IsUnderway(f)
      BY <1>3, ElementOfSeq DEF RInv, Nested
<1>5. x \in Value /\ x # NoValue
      BY <1>1, <1>4, ResultIsValue, NoValueAssumption DEF RInv
<1>6. f.pos \in Pos /\ f.pos \in Occupied /\ cells[f.pos] \in Addr
      BY <1>4, PendingProgram DEF RInv, IsUnderway, Pending
<1>7. /\ stack' \in Seq(Evaluation) /\ Len(stack') = n - 1
      /\ \A i \in 1..n - 1 : stack'[i] = stack[i]
      BY <1>1, <1>3, FrontOfStack
<1>8. \A i \in 1..n - 1 : stack[i].pos # f.pos
      BY <1>3 DEF RInv, Nested
<1>. HIDE DEF x, f
<1>9. /\ cache' \in [Addr -> Value \cup {NoValue}]
      /\ cache'[cells[f.pos]] # NoValue
      /\ \A a \in Addr : a # cells[f.pos] => cache'[a] = cache[a]
      BY <1>1, <1>5, <1>6 DEF RInv
<1>10. Pending' = Pending \ {f.pos}
      <2>1. \A p \in Occupied : cells[p] \in Addr /\ (cells[p] = cells[f.pos] => p = f.pos)
            BY <1>6 DEF RInv, Fixed, OneOwner, Occupied
      <2>2. cells' = cells /\ \A p : TextAt(p)' = TextAt(p)
            BY <1>2 DEF Program, table
      <2>3. Pending' = {p \in Occupied : TextAt(p) \in FormulaText /\ cache'[cells[p]] = NoValue}
            BY <1>2, <2>2 DEF Pending
      <2>. QED BY <1>9, <2>1, <2>3 DEF Pending
<1>11. Nested'
      <2>1. 1..Len(stack') = 1..n - 1
            BY <1>7
      <2>2. \A g : (IsUnderway(g)' <=> IsUnderway(g) /\ g.pos # f.pos)
                   /\ \A q : (Asks(g, q)' <=> Asks(g, q))
            BY <1>2, <1>10 DEF IsUnderway, Asks, Token
      <2>3. \A i \in 1..n - 1 : IsUnderway(stack'[i]) /\ stack'[i].pos # f.pos
            BY <1>3, <1>7, <1>8 DEF RInv, Nested
      <2>4. \A i \in 1..n - 1 - 1 : Asks(stack'[i], stack'[i+1].pos)
            <3>1. SUFFICES ASSUME NEW i \in 1..n - 1 - 1
                  PROVE  Asks(stack'[i], stack'[i+1].pos)
                  OBVIOUS
            <3>2. i \in 1..n - 1 /\ i + 1 \in 1..n - 1
                  BY <1>3
            <3>. QED BY <1>7, <3>2 DEF RInv, Nested
      <2>5. \A i, j \in 1..n - 1 : stack'[i].pos = stack'[j].pos => i = j
            BY <1>3, <1>7 DEF RInv, Nested
      <2>6. 1..Len(stack') - 1 = 1..n - 1 - 1
            BY <1>7
      <2>. QED BY <1>7, <2>1, <2>2, <2>3, <2>4, <2>5, <2>6 DEF Nested
<1>12. Counted'
      <2>1. ASSUME NEW p \in Pos, p \in Pending', \A i \in 1..Len(stack') : stack'[i].pos # p
            PROVE  evaluations[p] = 0
            <3>1. p \in Pending /\ p # f.pos
                  BY <1>10, <2>1
            <3>2. \A i \in 1..n : stack[i].pos # p
                  BY <1>3, <1>7, <2>1, <3>1 DEF f
            <3>. QED BY <3>1, <3>2 DEF RInv, Counted
      <2>. QED BY <1>1, <1>2, <2>1 DEF RInv, Counted, table
<1>. QED BY <1>1, <1>2, <1>9, <1>11, <1>12 DEF RInv

\* A step that changes nothing but returned.
LEMMA ReturnKeeps ==
    ASSUME RInv, UNCHANGED <<table, roots, before, todo, cache, stack, evaluations>>,
           returned' => stack = <<>> /\ todo = {}
    PROVE  RInv'
<1>1. /\ Fixed' /\ Occupied' = Occupied /\ Pending' = Pending
      /\ \A q : Program(q)' = Program(q)
      BY TableStays DEF RInv
<1>2. \A g : (IsUnderway(g)' <=> IsUnderway(g)) /\ \A q : (Asks(g, q)' <=> Asks(g, q))
      BY <1>1 DEF IsUnderway, Asks, Token
<1>3. Nested'
      BY <1>2 DEF RInv, Nested
<1>4. Counted'
      BY <1>1 DEF RInv, Counted, table
<1>. QED BY <1>1, <1>3, <1>4 DEF RInv

\* A call starts with no evaluation under way.
LEMMA RecalculationInitInv == RecalculationInit => RInv
<1>1. SUFFICES ASSUME RecalculationInit PROVE RInv
      OBVIOUS
<1>2. /\ cells \in Layouts /\ OneOwner = TRUE /\ ReferencesAcyclic = TRUE
      /\ impl \in [Addr -> Text \ BadFormulaText]
      /\ todo = roots /\ before = cache /\ stack = <<>> /\ returned = FALSE
      /\ evaluations = [p \in Pos |-> 0]
      /\ cache \in {c \in [Addr -> Value \cup {NoValue}] :
                      \A a \in Addr : c[a] # NoValue =>
                         /\ impl[a] \in FormulaText
                         /\ c[a] \in PossibleValues[impl[a]]}
      BY <1>1, Zenon DEF RecalculationInit
<1>3. Fixed
      <2>1. cells \in [Pos -> Addr \cup {Null}]
            BY <1>2, LayoutsAssumption
      <2>2. OneOwner /\ ReferencesAcyclic
            BY <1>2
      <2>. QED BY <1>2, <2>1, <2>2 DEF Fixed
<1>4. cache \in [Addr -> Value \cup {NoValue}]
      BY <1>2
<1>5. Nested
      BY <1>2, EmptySeq DEF Nested
<1>6. Counted
      BY <1>2 DEF Counted
<1>. QED BY <1>2, <1>3, <1>4, <1>5, <1>6 DEF RInv

\* RInv is inductive.
LEMMA RecalculationStep == RInv /\ [Step]_allVars => RInv'
<1>1. SUFFICES ASSUME RInv, [Step]_allVars PROVE RInv'
      OBVIOUS
<1>2. CASE UNCHANGED allVars
      BY <1>1, <1>2, ReturnKeeps DEF allVars, walk, RInv
<1>3. CASE Step
      <2>1. ~returned /\ UNCHANGED <<table, roots, before>>
            BY <1>3 DEF Step
      <2>2. CASE \E p \in Pos : ShowNext(p) \/ Ask(p)
            BY <1>1, <2>1, <2>2, ShowNextKeeps, AskKeeps
      <2>3. CASE EvaluateNode
            BY <1>1, <2>1, <2>3, EvaluateNodeKeeps
      <2>4. CASE Finish
            BY <1>1, <2>1, <2>4, FinishKeeps
      <2>5. CASE Return
            BY <1>1, <2>1, <2>5, ReturnKeeps DEF Return
      <2>. QED BY <1>3, <2>2, <2>3, <2>4, <2>5 DEF Step
<1>. QED BY <1>1, <1>2, <1>3

---------------------------------------------------------------------------
\* The evaluations under way are nested: each but the first was begun by the one
\* before it, which waits at the node that asked (CellExpr::Evaluate), and what is
\* cached in the end is a value.
THEOREM RecalculationKeepsType == RecalculationSpec => []RecalculationTypeOK
<1>1. RInv => RecalculationTypeOK
      <2>1. SUFFICES ASSUME RInv PROVE RecalculationTypeOK
            OBVIOUS
      <2>2. DOMAIN stack = 1..Len(stack)
            BY <2>1, LenProperties DEF RInv, Nested
      <2>3. \A i \in DOMAIN stack : stack[i].pos \in Pending
            BY <2>1, <2>2 DEF RInv, Nested, IsUnderway
      <2>4. \A i \in 1..Len(stack) - 1 : Token(stack[i]) = <<"cell", stack[i+1].pos>>
            BY <2>1 DEF RInv, Nested, Asks
      <2>. QED BY <2>1, <2>3, <2>4 DEF RInv, RecalculationTypeOK
<1>. QED BY <1>1, RecalculationInitInv, RecalculationStep, PTL DEF RecalculationSpec

\* However many formulas read a formula, GetValue evaluates it once, and only if it
\* had no value in cache_ (FormulaImpl::GetValue).
THEOREM NoneEvaluatedTwice == RecalculationSpec => []EvaluatedOnce
<1>1. RInv => EvaluatedOnce
      BY DEF RInv, Counted, EvaluatedOnce
<1>. QED BY <1>1, RecalculationInitInv, RecalculationStep, PTL DEF RecalculationSpec

---------------------------------------------------------------------------
(***************************************************************************)
(* Execute of FormulaAST, which is what the nodes come to one by one.      *)
(***************************************************************************)

IsRun(r, program, value) ==
    r = [i \in 0..Len(program) |->
            IF i = 0 THEN Started ELSE EvaluateToken(r[i-1], program[i], value)]

\* The machine after each number of tokens, all cells having the values given.
Run(program, value) == CHOOSE r : IsRun(r, program, value)

\* There is such a run, of any number of tokens, and Execute is its end.
LEMMA RunExists ==
    ASSUME NEW program, Len(program) \in Nat, NEW value
    PROVE  /\ Run(program, value)[0] = Started
           /\ \A i \in 1..Len(program) :
                 Run(program, value)[i] = EvaluateToken(Run(program, value)[i-1], program[i], value)
           /\ Execute(program, value) = Run(program, value)[Len(program)]
<1>. DEFINE Entry(r, i) == IF i = 0 THEN Started ELSE EvaluateToken(r[i-1], program[i], value)
            IsPart(r, n) == r = [i \in 0..n |-> Entry(r, i)]
            S == {n \in Nat : ~ \E r : IsPart(r, n)}
<1>1. S = {}
      <2>1. SUFFICES ASSUME S # {} PROVE FALSE
            OBVIOUS
      <2>2. PICK n \in S : \A m \in S : n <= m
            BY <2>1, LeastNatural
      <2>3. n \in Nat /\ ~ \E r : IsPart(r, n)
            OBVIOUS
      <2>4. CASE n = 0
            <3>1. IsPart([i \in 0..0 |-> Started], 0)
                  OBVIOUS
            <3>. QED BY <2>3, <2>4, <3>1
      <2>5. CASE n # 0
            <3>1. n - 1 \in Nat /\ n - 1 \notin S
                  <4>1. n \in Nat
                        BY <2>3
                  <4>. HIDE DEF S
                  <4>2. n - 1 \in Nat /\ ~(n <= n - 1)
                        BY ONLY <2>5, <4>1
                  <4>. QED BY ONLY <2>2, <4>2
            <3>2. PICK r : IsPart(r, n - 1)
                  BY <3>1
            <3>. DEFINE q == [i \in 0..n |-> Entry(r, i)]
            <3>3. \A i \in 0..n - 1 : r[i] = Entry(r, i)
                  BY <3>2
            <3>4. \A i \in 0..n - 1 : q[i] = r[i]
                  BY <2>3, <3>3
            <3>5. \A i \in 0..n : Entry(q, i) = Entry(r, i)
                  <4>. HIDE DEF q
                  <4>. QED BY <2>3, <3>4
            <3>6. IsPart(q, n)
                  BY <3>5
            <3>. QED BY <2>3, <3>6
      <2>. QED BY <2>4, <2>5
<1>2. \E r : IsRun(r, program, value)
      BY <1>1 DEF IsRun
<1>3. IsRun(Run(program, value), program, value)
      BY <1>2 DEF Run
<1>4. Execute(program, value) = Run(program, value)[Len(program)]
      BY DEF Execute, Run, IsRun
<1>. HIDE DEF Entry, IsPart, S
<1>5. \A i \in 0..Len(program) :
         Run(program, value)[i] = IF i = 0 THEN Started
                                  ELSE EvaluateToken(Run(program, value)[i-1], program[i], value)
      <2>. DEFINE r == Run(program, value)
      <2>1. r = [i \in 0..Len(program) |->
                    IF i = 0 THEN Started ELSE EvaluateToken(r[i-1], program[i], value)]
            BY <1>3 DEF IsRun
      <2>. HIDE DEF r
      <2>2. \A i \in 0..Len(program) :
               r[i] = IF i = 0 THEN Started ELSE EvaluateToken(r[i-1], program[i], value)
            BY <2>1
      <2>. QED BY <2>2 DEF r
<1>. QED BY <1>4, <1>5

\* A node calls GetValue of the cell it is, if it is one.
LEMMA NodeReads ==
    ASSUME NEW t \in ProgramToken, NEW m \in Machine, m.thrown = "none",
           NEW value, DOMAIN value = Pos, t[1] = "cell" => value[t[2]] \in Value
    PROVE  EvaluateToken(m, t, value).read
              = IF t[1] = "cell" THEN m.read \cup {t[2]} ELSE m.read
<1>1. CASE t[1] = "cell"
      <2>1. t[2] \in Pos /\ EvaluateToken(m, t, value) = EvaluateCell(m, t[2], value)
            BY <1>1 DEF ProgramToken, EvaluateToken
      <2>2. value[t[2]][1] \in {"double", "error", "string"}
            BY <1>1, ProgramAssumption DEF FormulaValue, Double, FormulaError
      <2>. QED BY <1>1, <2>1, <2>2 DEF EvaluateCell, Push, Fail, Machine
<1>2. CASE t[1] = "number"
      BY <1>2 DEF EvaluateToken, Push, Machine
<1>3. CASE t[1] = "unary"
      BY <1>3 DEF EvaluateToken, EvaluateUnary, Machine
<1>4. CASE t[1] = "binary"
      BY <1>4 DEF EvaluateToken, EvaluateBinary, Fail, Machine
<1>. QED BY <1>1, <1>2, <1>3, <1>4 DEF ProgramToken

\* A run reads more and more cells, and stops at an error.
LEMMA RunKeeps ==
    ASSUME NEW program \in Seq(ProgramToken), StackHeights(program) # {},
           NEW value \in [Pos -> Value],
           NEW i \in 0..Len(program), NEW j \in i..Len(program)
    PROVE  /\ Run(program, value)[j] \in Machine
           /\ Run(program, value)[i].read \subseteq Run(program, value)[j].read
           /\ Run(program, value)[i].thrown # "none"
                 => Run(program, value)[j] = Run(program, value)[i]
<1>. DEFINE r == Run(program, value)
            n == Len(program)
<1>1. n \in Nat
      BY LenProperties
<1>2. PICK height \in StackHeights(program) : TRUE
      OBVIOUS
<1>3. r[0] = Started /\ \A k \in 1..n : r[k] = EvaluateToken(r[k-1], program[k], value)
      BY <1>1, RunExists
<1>4. \A k \in 1..n : program[k] \in ProgramToken
                      /\ (program[k][1] = "cell" => value[program[k][2]] \in Value)
      <2>1. \A k \in 1..n : program[k] \in ProgramToken
            BY ElementOfSeq
      <2>. QED BY <2>1 DEF ProgramToken
<1>. DEFINE Typed(k) == r[k] \in Machine /\ (r[k].thrown = "none" => Len(r[k].stack) = height[k])
<1>. HIDE DEF r, n
<1>5. Typed(0)
      <2>1. <<>> \in Seq(Number) /\ Len(<<>>) = 0
            BY EmptySeq
      <2>. QED BY <1>2, <1>3, <2>1 DEF Started, Machine, StackHeights
<1>6. ASSUME NEW k \in 1..n, Typed(k-1)
      PROVE  /\ Typed(k)
             /\ r[k-1].read \subseteq r[k].read
             /\ r[k-1].thrown # "none" => r[k] = r[k-1]
      <2>1. r[k] = EvaluateToken(r[k-1], program[k], value)
            BY <1>3
      <2>2. CASE r[k-1].thrown = "none"
            <3>1. Len(r[k-1].stack) = height[k-1] /\ r[k-1] \in Machine /\ DOMAIN value = Pos
                  BY <1>6, <2>2
            <3>2. Typed(k)
                  BY <1>4, <2>1, <2>2, <3>1, NodeEvaluated DEF n
            <3>3. EvaluateToken(r[k-1], program[k], value).read
                     = IF program[k][1] = "cell" THEN r[k-1].read \cup {program[k][2]}
                       ELSE r[k-1].read
                  BY <1>4, <2>2, <3>1, NodeReads
            <3>. QED BY <2>1, <2>2, <3>2, <3>3
      <2>3. CASE r[k-1].thrown # "none"
            <3>1. r[k] = r[k-1]
                  BY <2>1, <2>3 DEF EvaluateToken
            <3>. QED BY <1>6, <2>3, <3>1
      <2>. QED BY <2>2, <2>3
<1>. HIDE DEF Typed
<1>. DEFINE Bad == {k \in Nat : k <= n /\ ~Typed(k)}
<1>7. Bad = {}
      <2>1. SUFFICES ASSUME Bad # {} PROVE FALSE
            OBVIOUS
      <2>2. PICK k \in Bad : \A m \in Bad : k <= m
            BY <2>1, LeastNatural
      <2>3. k # 0 /\ k \in 1..n /\ k - 1 \in Nat /\ k - 1 <= n
            BY <1>1, <1>5
      <2>4. Typed(k - 1)
            BY <2>2, <2>3
      <2>. QED BY <1>6, <2>2, <2>3, <2>4
<1>8. \A k \in 0..n : Typed(k)
      BY <1>1, <1>7
<1>. DEFINE Kept(k) == /\ r[i].read \subseteq r[k].read
                       /\ r[i].thrown # "none" => r[k] = r[i]
            Lost == {k \in Nat : i <= k /\ k <= n /\ ~Kept(k)}
<1>. HIDE DEF Bad
<1>9. Lost = {}
      <2>1. SUFFICES ASSUME Lost # {} PROVE FALSE
            OBVIOUS
      <2>2. PICK k \in Lost : \A m \in Lost : k <= m
            BY <2>1, LeastNatural
      <2>3. k # i /\ k \in 1..n /\ k - 1 \in 0..n /\ i <= k - 1
            BY <1>1 DEF n
      <2>4. Kept(k - 1)
            BY <2>2, <2>3
      <2>5. /\ r[k-1].read \subseteq r[k].read
            /\ r[k-1].thrown # "none" => r[k] = r[k-1]
            BY <1>6, <1>8, <2>3
      <2>6. Kept(k)
            BY <2>4, <2>5
      <2>. QED BY <2>2, <2>6
<1>10. j \in 0..n /\ j \in Nat /\ i <= j /\ j <= n
       BY <1>1 DEF n
<1>11. Kept(j)
       BY <1>9, <1>10
<1>. QED BY <1>8, <1>10, <1>11 DEF Typed, r

---------------------------------------------------------------------------
(***************************************************************************)
(* What the call is to find: the values of the formulas that have none,    *)
(* over the values that are known when it begins.                          *)
(***************************************************************************)
Open == {p \in Occupied : TextAt(p) \in FormulaText /\ before[cells[p]] = NoValue}

KnownBefore(p) ==
    IF cells[p] = Null THEN Zero
    ELSE LET text == impl[cells[p]]
         IN CASE text = EmptyText    -> Zero
              [] text \in PlainText   -> TextValue(text)
              [] text \in FormulaText -> before[cells[p]]

IsAnswer(v) ==
    \A p \in Pos : v[p] = IF p \in Open THEN Evaluate(TextAt(p), v) ELSE KnownBefore(p)

Answer == CHOOSE v : v \in [Pos -> Value] /\ IsAnswer(v)

\* The formulas that are read for the call, each by one read before.
ReadNext == [p \in Pos |-> IF p \in Open THEN Reads(TextAt(p), Answer) \cap Open ELSE {}]

Asked == ReachableFrom(roots \cap Open, ReadNext)

BeforeTyped == before \in [Addr -> Value \cup {NoValue}]

\* The call can find it: references form no cycle.
LEMMA AnswerExists ==
    ASSUME Fixed, BeforeTyped
    PROVE  Answer \in [Pos -> Value] /\ IsAnswer(Answer)
<1>. DEFINE rule == [p \in Pos |-> [v \in [Pos -> Value] |->
                        IF p \in Open THEN Evaluate(TextAt(p), v) ELSE KnownBefore(p)]]
<1>1. \A p \in Pos, v \in [Pos -> Value] :
         rule[p][v] = IF p \in Open THEN Evaluate(TextAt(p), v) ELSE KnownBefore(p)
      OBVIOUS
<1>2. ASSUME NEW p \in Pos, p \notin Open
      PROVE  KnownBefore(p) \in Value
      <2>1. CASE cells[p] = Null
            BY <2>1, ValueAssumption DEF KnownBefore
      <2>2. CASE cells[p] # Null
            <3>1. p \in Occupied /\ cells[p] \in Addr /\ TextAt(p) = impl[cells[p]]
                  BY <2>2 DEF Occupied, Fixed, TextAt
            <3>2. impl[cells[p]] \in {EmptyText} \cup PlainText \cup FormulaText
                  BY <3>1 DEF Fixed, Text
            <3>3. impl[cells[p]] \in FormulaText => before[cells[p]] \in Value
                  BY <1>2, <3>1 DEF Open, BeforeTyped
            <3>4. KnownBefore(p) = CASE impl[cells[p]] = EmptyText    -> Zero
                                     [] impl[cells[p]] \in PlainText   -> TextValue(impl[cells[p]])
                                     [] impl[cells[p]] \in FormulaText -> before[cells[p]]
                  BY <2>2 DEF KnownBefore
            <3>. QED BY <3>2, <3>3, <3>4, TextAssumption, ValueAssumption
      <2>. QED BY <2>1, <2>2
<1>3. \A p \in Open : TextAt(p) \in FormulaText /\ References[p] = RefsOf(TextAt(p))
      BY DEF Open, Occupied, References, Refs
<1>. HIDE DEF rule
<1>4. \A p \in Pos, v \in [Pos -> Value] : rule[p][v] \in Value
      BY <1>1, <1>2, <1>3, EvaluateAssumption
<1>5. IsLocal(Pos, Value, References, rule)
      <2>1. ASSUME NEW p \in Pos, NEW v \in [Pos -> Value], NEW w \in [Pos -> Value],
                   \A q \in References[p] : v[q] = w[q]
            PROVE  rule[p][v] = rule[p][w]
            <3>1. CASE p \in Open
                  <4>1. Reads(TextAt(p), v) \subseteq References[p]
                        BY <1>3, <3>1, EvaluateAssumption
                  <4>2. \A q \in Reads(TextAt(p), v) : v[q] = w[q]
                        BY <2>1, <4>1
                  <4>3. Evaluate(TextAt(p), w) = Evaluate(TextAt(p), v)
                        BY <1>3, <3>1, <4>2, EvaluateAssumption
                  <4>. QED BY <1>1, <3>1, <4>3
            <3>2. CASE p \notin Open
                  BY <1>1, <3>2
            <3>. QED BY <3>1, <3>2
      <2>. QED BY <2>1 DEF IsLocal
<1>6. References \in [Pos -> SUBSET Pos] /\ IsAcyclic(References) /\ Zero \in Value
      <2>1. \A t : Refs(t) \in SUBSET Pos
            BY EvaluateAssumption DEF Refs
      <2>. QED BY <2>1, ValueAssumption DEF Fixed, ReferencesAcyclic, References
<1>7. PICK v \in [Pos -> Value] : Solves(v, Pos, References, rule)
      BY <1>4, <1>5, <1>6, SolutionExists
<1>8. IsAnswer(v)
      BY <1>1, <1>7 DEF Solves, IsAnswer
<1>. QED BY <1>8 DEF Answer

\* It stays the same while the call runs.
LEMMA AnswerStays ==
    ASSUME UNCHANGED <<table, roots, before>>
    PROVE  /\ Open' = Open /\ Answer' = Answer /\ Asked' = Asked
           /\ cells' = cells /\ before' = before /\ roots' = roots /\ outcome' = outcome
           /\ BeforeTyped' = BeforeTyped
           /\ \A p : Program(p)' = Program(p)
<1>1. /\ cells' = cells /\ impl' = impl /\ before' = before /\ roots' = roots
      /\ outcome' = outcome
      BY DEF table
<1>2. Occupied' = Occupied /\ \A p : TextAt(p)' = TextAt(p)
      BY <1>1 DEF Occupied, TextAt
<1>3. Open' = Open
      BY <1>1, <1>2 DEF Open
<1>4. \A p : KnownBefore(p)' = KnownBefore(p)
      BY <1>1 DEF KnownBefore
<1>5. \A v : IsAnswer(v)' <=> IsAnswer(v)
      BY <1>2, <1>3, <1>4 DEF IsAnswer
<1>6. Answer' = Answer
      BY <1>5 DEF Answer
<1>7. ReadNext' = ReadNext
      BY <1>2, <1>3, <1>6 DEF ReadNext
<1>8. Asked' = Asked
      BY <1>1, <1>3, <1>7 DEF Asked
<1>. QED BY <1>1, <1>2, <1>3, <1>6, <1>8 DEF Program, BeforeTyped

---------------------------------------------------------------------------
(***************************************************************************)
(* On the way to it.                                                       *)
(***************************************************************************)

\* The machine of f is where it would be were all values known.
IsOnTheWay(f) == /\ f.machine = Run(Program(f.pos), Answer)[f.done]
                 /\ f.machine.read \cap Pending = {}
                 /\ f.pos \in Asked

\* Caches are as before or as they are to be; what has a value was asked for, and
\* so had what it reads; and what the call was asked for has its value or gets it.
OnTheWay ==
    /\ BeforeTyped
    /\ roots \subseteq Pos
    /\ outcome = "ok"
    /\ \A a \in Addr : \/ cache[a] = before[a]
                       \/ \E p \in Open : cells[p] = a /\ cache[a] = Answer[p]
    /\ \A i \in 1..Len(stack) : IsOnTheWay(stack[i])
    /\ \A p \in Open \ Pending : /\ Reads(TextAt(p), Answer) \cap Pending = {}
                                 /\ p \in Asked
    /\ \A p \in roots \ todo : p \in Pending => \E i \in 1..Len(stack) : stack[i].pos = p

\* What is pending was so when the call began; what is not shows its final value.
LEMMA NotPendingIsAnswered ==
    ASSUME RInv, OnTheWay
    PROVE  /\ Pending \subseteq Open
           /\ \A p \in Pos \ Pending : KnownValue(p) = Answer[p]
<1>1. Pending \subseteq Open
      BY DEF RInv, Fixed, Pending, Open, Occupied
<1>2. Answer \in [Pos -> Value] /\ IsAnswer(Answer)
      BY AnswerExists DEF RInv, OnTheWay
<1>3. ASSUME NEW p \in Pos \ Pending
      PROVE  KnownValue(p) = Answer[p]
      <2>1. CASE cells[p] # Null /\ TextAt(p) \in FormulaText
            <3>1. /\ p \in Occupied /\ cells[p] \in Addr /\ TextAt(p) = impl[cells[p]]
                  /\ cache[cells[p]] # NoValue
                  BY <2>1 DEF RInv, Fixed, Occupied, TextAt, Pending
            <3>2. KnownValue(p) = cache[cells[p]] /\ KnownBefore(p) = before[cells[p]]
                  BY <2>1, <3>1, TextAssumption DEF KnownValue, KnownBefore
            <3>3. CASE cache[cells[p]] = before[cells[p]]
                  <4>1. p \notin Open
                        BY <3>1, <3>3 DEF Open
                  <4>. QED BY <1>2, <3>2, <3>3, <4>1 DEF IsAnswer
            <3>4. ASSUME NEW q \in Open, cells[q] = cells[p], cache[cells[p]] = Answer[q]
                  PROVE  KnownValue(p) = Answer[p]
                  <4>1. q = p
                        BY <3>1, <3>4 DEF RInv, Fixed, OneOwner, Open
                  <4>. QED BY <3>2, <3>4, <4>1
            <3>. QED BY <3>1, <3>3, <3>4 DEF OnTheWay
      <2>2. CASE ~(cells[p] # Null /\ TextAt(p) \in FormulaText)
            <3>1. p \notin Open
                  BY <2>2 DEF Open, Occupied
            <3>2. KnownValue(p) = KnownBefore(p)
                  <4>1. CASE cells[p] = Null
                        BY <4>1 DEF KnownValue, KnownBefore
                  <4>2. CASE cells[p] # Null
                        <5>1. impl[cells[p]] \notin FormulaText
                              BY <2>2, <4>2 DEF TextAt
                        <5>2. impl[cells[p]] \in {EmptyText} \cup PlainText
                              BY <4>2, <5>1 DEF RInv, Fixed, Text
                        <5>. QED BY <4>2, <5>1, <5>2, TextAssumption
                                 DEF KnownValue, KnownBefore
                  <4>. QED BY <4>1, <4>2
            <3>. QED BY <1>2, <3>1, <3>2 DEF IsAnswer
      <2>. QED BY <2>1, <2>2
<1>. QED BY <1>1, <1>3

\* How a run goes on, for a formula under way.
LEMMA RunOf ==
    ASSUME RInv, OnTheWay, NEW f \in Evaluation, IsUnderway(f)
    PROVE  /\ f.pos \in Open /\ f.pos \in Pos /\ f.done \in 0..Len(Program(f.pos))
           /\ Program(f.pos) = TextAt(f.pos)
           /\ Program(f.pos) \in Seq(ProgramToken)
           /\ \A k \in 1..Len(Program(f.pos)) : Program(f.pos)[k] \in ProgramToken
           /\ Run(Program(f.pos), Answer)[0] = Started
           /\ \A k \in 1..Len(Program(f.pos)) :
                 Run(Program(f.pos), Answer)[k]
                    = EvaluateToken(Run(Program(f.pos), Answer)[k-1], Program(f.pos)[k], Answer)
           /\ \A k \in 0..Len(Program(f.pos)) :
                 /\ Run(Program(f.pos), Answer)[k] \in Machine
                 /\ Run(Program(f.pos), Answer)[k].read \subseteq Reads(TextAt(f.pos), Answer)
                 /\ k = Len(Program(f.pos)) \/ Run(Program(f.pos), Answer)[k].thrown # "none"
                       => /\ Reads(TextAt(f.pos), Answer) = Run(Program(f.pos), Answer)[k].read
                          /\ Answer[f.pos] = Result(Run(Program(f.pos), Answer)[k])
<1>. DEFINE program == Program(f.pos)
            r == Run(program, Answer)
            n == Len(program)
<1>1. /\ f.pos \in Pending /\ f.pos \in Open /\ f.pos \in Pos
      /\ program \in FormulaText /\ program \in Seq(ProgramToken)
      /\ program = TextAt(f.pos)
      BY PendingProgram, NotPendingIsAnswered DEF RInv, IsUnderway, Program
<1>2. n \in Nat /\ f.done \in 0..n
      BY <1>1, LenProperties DEF IsUnderway, Evaluation
<1>3. Answer \in [Pos -> Value] /\ IsAnswer(Answer)
      BY AnswerExists DEF RInv, OnTheWay
<1>4. StackHeights(program) # {}
      BY <1>1, ProgramAssumption
<1>5. /\ r[0] = Started
      /\ \A k \in 1..n : r[k] = EvaluateToken(r[k-1], program[k], Answer)
      /\ Execute(program, Answer) = r[n]
      BY <1>2, RunExists
<1>6. /\ Reads(program, Answer) = r[n].read
      /\ Answer[f.pos] = Result(r[n])
      <2>1. /\ Evaluate(program, Answer) = FormulaEvaluate(program, Answer)
            /\ Reads(program, Answer) = FormulaReads(program, Answer)
            BY <1>1, <1>3, ProgramAssumption
      <2>2. Answer[f.pos] = Evaluate(program, Answer)
            BY <1>1, <1>3 DEF IsAnswer
      <2>. QED BY <1>5, <2>1, <2>2 DEF FormulaEvaluate, FormulaReads, Result
<1>. HIDE DEF program, r, n
<1>7. ASSUME NEW k \in 0..n
      PROVE  /\ r[k] \in Machine
             /\ r[k].read \subseteq r[n].read
             /\ r[k].thrown # "none" => r[n] = r[k]
      <2>1. n \in k..n /\ k \in k..n
            BY <1>2
      <2>. QED BY <1>1, <1>3, <1>4, <2>1, RunKeeps DEF r, n
<1>8. \A k \in 1..n : program[k] \in ProgramToken
      BY <1>1, ElementOfSeq DEF n
<1>9. \A k \in 0..n : /\ r[k] \in Machine
                      /\ r[k].read \subseteq Reads(program, Answer)
                      /\ k = n \/ r[k].thrown # "none"
                            => /\ Reads(program, Answer) = r[k].read
                               /\ Answer[f.pos] = Result(r[k])
      BY <1>6, <1>7
<1>. QED BY <1>1, <1>2, <1>5, <1>8, <1>9 DEF program, r, n

---------------------------------------------------------------------------
(***************************************************************************)
(* The steps again.                                                        *)
(***************************************************************************)

\* Evaluate() of p begins: of a formula the call is for, or one that is read.
LEMMA BeginOnTheWay ==
    ASSUME RInv, OnTheWay, UNCHANGED <<table, roots, before>>,
           NEW p \in Pending, Begin(p), p \in Asked,
           todo' = todo \/ todo' = todo \ {p}
    PROVE  OnTheWay'
<1>. DEFINE n == Len(stack)
            e == Frame(p)
<1>1. /\ stack' = Append(stack, e) /\ cache' = cache
      /\ stack \in Seq(Evaluation) /\ n \in Nat
      /\ e \in Evaluation /\ IsUnderway(e) /\ e.pos = p
      BY FrameIsUnderway, LenProperties DEF Begin, RInv, Nested
<1>2. /\ Open' = Open /\ Answer' = Answer /\ Asked' = Asked /\ BeforeTyped' = BeforeTyped
      /\ cells' = cells /\ before' = before /\ roots' = roots /\ outcome' = outcome
      /\ \A q : Program(q)' = Program(q)
      BY AnswerStays
<1>3. Pending' = Pending
      BY <1>1, TableStays DEF RInv
<1>4. IsOnTheWay(e)
      <2>1. Run(Program(p), Answer)[0] = Started
            BY <1>1, RunOf
      <2>. QED BY <2>1 DEF IsOnTheWay, Frame, Started
<1>. HIDE DEF e
<1>5. /\ Len(stack') = n + 1 /\ stack'[n+1] = e
      /\ \A i \in 1..n : stack'[i] = stack[i]
      BY <1>1, PushOnStack
<1>6. \A f : IsOnTheWay(f)' <=> IsOnTheWay(f)
      BY <1>2, <1>3 DEF IsOnTheWay
<1>7. \A i \in 1..n + 1 : IsOnTheWay(stack'[i])
      BY <1>1, <1>4, <1>5 DEF OnTheWay
<1>8. \A q \in roots \ todo' : q \in Pending => \E i \in 1..n + 1 : stack'[i].pos = q
      <2>1. SUFFICES ASSUME NEW q \in roots \ todo', q \in Pending
                     PROVE  \E i \in 1..n + 1 : stack'[i].pos = q
            OBVIOUS
      <2>2. CASE q = p
            <3>1. n + 1 \in 1..n + 1
                  BY <1>1
            <3>. QED BY <1>1, <1>5, <2>2, <3>1
      <2>3. CASE q # p
            <3>1. PICK i \in 1..n : stack[i].pos = q
                  BY <2>1, <2>3 DEF OnTheWay
            <3>2. i \in 1..n + 1
                  BY <1>1
            <3>. QED BY <1>5, <3>1, <3>2
      <2>. QED BY <2>2, <2>3
<1>9. \A q : TextAt(q)' = TextAt(q)
      BY <1>2 DEF Program
<1>. QED BY <1>1, <1>2, <1>3, <1>5, <1>6, <1>7, <1>8, <1>9 DEF OnTheWay

\* GetValue of the next cell shown.
LEMMA ShowNextOnTheWay ==
    ASSUME RInv, OnTheWay, UNCHANGED <<table, roots, before>>, NEW p \in Pos, ShowNext(p)
    PROVE  OnTheWay'
<1>1. todo' = todo \ {p} /\ p \in roots
      BY DEF ShowNext, IsFirst, RInv
<1>2. CASE p \in Pending
      <2>1. p \in roots \cap Open /\ roots \cap Open \in SUBSET Pos
            BY <1>1, <1>2, NotPendingIsAnswered DEF Open, Occupied
      <2>2. ReadNext \in [Pos -> SUBSET Pos]
            BY DEF ReadNext, Open, Occupied
      <2>3. p \in Asked
            BY <2>1, <2>2, ReachableIsClosed DEF Asked
      <2>. QED BY <1>1, <1>2, <2>3, BeginOnTheWay DEF ShowNext
<1>3. CASE p \notin Pending
      <2>1. UNCHANGED <<cache, stack>>
            BY <1>3 DEF ShowNext
      <2>2. Pending' = Pending
            BY <2>1, TableStays DEF RInv
      <2>3. /\ Open' = Open /\ Answer' = Answer /\ Asked' = Asked /\ BeforeTyped' = BeforeTyped
            /\ cells' = cells /\ before' = before /\ roots' = roots /\ outcome' = outcome
            /\ \A q : Program(q)' = Program(q)
            BY AnswerStays
      <2>4. \A q : TextAt(q)' = TextAt(q)
            BY <2>3 DEF Program
      <2>5. \A f : IsOnTheWay(f)' <=> IsOnTheWay(f)
            BY <2>2, <2>3 DEF IsOnTheWay
      <2>. QED BY <1>1, <1>3, <2>1, <2>2, <2>3, <2>4, <2>5 DEF OnTheWay
<1>. QED BY <1>2, <1>3

\* The innermost evaluation, when its next node is evaluated or asks for a cell.
LEMMA TopOfStack ==
    ASSUME RInv, OnTheWay, stack # <<>>
    PROVE  /\ stack \in Seq(Evaluation) /\ Len(stack) \in Nat \ {0}
           /\ Top = stack[Len(stack)]
           /\ Top \in Evaluation /\ IsUnderway(Top) /\ IsOnTheWay(Top)
           /\ ~IsOver(Top) => /\ Top.done + 1 \in 1..Len(Program(Top.pos))
                              /\ Top.machine.thrown = "none"
                              /\ Token(Top) = Program(Top.pos)[Top.done + 1]
                              /\ Token(Top) \in ProgramToken
                              /\ Top.machine \in Machine
<1>1. stack \in Seq(Evaluation) /\ Len(stack) \in Nat \ {0}
      BY EmptySeq, LenProperties DEF RInv, Nested
<1>2. Top = stack[Len(stack)] /\ Top \in Evaluation /\ IsUnderway(Top) /\ IsOnTheWay(Top)
      BY <1>1, ElementOfSeq DEF RInv, Nested, Top, Last, OnTheWay
<1>3. /\ Top.done \in 0..Len(Program(Top.pos))
      /\ \A k \in 1..Len(Program(Top.pos)) : Program(Top.pos)[k] \in ProgramToken
      /\ Len(Program(Top.pos)) \in Nat
      BY <1>2, RunOf, LenProperties
<1>4. ASSUME ~IsOver(Top)
      PROVE  Top.done + 1 \in 1..Len(Program(Top.pos)) /\ Top.machine.thrown = "none"
      BY <1>3, <1>4 DEF IsOver
<1>5. Top.machine \in Machine /\ Token(Top) = Program(Top.pos)[Top.done + 1]
      BY <1>2 DEF Evaluation, Token
<1>. QED BY <1>1, <1>2, <1>3, <1>4, <1>5

\* CellExpr asks a formula without a value, which it therefore reads.
LEMMA AskOnTheWay ==
    ASSUME RInv, OnTheWay, UNCHANGED <<table, roots, before>>, NEW p \in Pos, Ask(p)
    PROVE  OnTheWay'
<1>. DEFINE f == Top
            k == f.done + 1
            r == Run(Program(f.pos), Answer)
<1>1. /\ stack # <<>> /\ ~IsOver(f) /\ Token(f) = <<"cell", p>>
      /\ p \in Pending /\ Begin(p) /\ todo' = todo
      BY DEF Ask
<1>2. /\ f \in Evaluation /\ IsUnderway(f) /\ IsOnTheWay(f)
      /\ k \in 1..Len(Program(f.pos)) /\ f.machine.thrown = "none"
      /\ Program(f.pos)[k] = <<"cell", p>>
      /\ Program(f.pos)[k] \in ProgramToken
      /\ f.machine \in Machine /\ f.done \in Nat
      BY <1>1, TopOfStack DEF Evaluation
<1>3. /\ f.pos \in Open /\ f.pos \in Pos
      /\ r[k] = EvaluateToken(r[k-1], Program(f.pos)[k], Answer)
      /\ r[k].read \subseteq Reads(TextAt(f.pos), Answer)
      <2>. HIDE DEF f, k
      <2>1. k \in 0..Len(Program(f.pos))
            BY <1>2
      <2>. QED BY <1>2, <2>1, RunOf
<1>4. r[k-1] = f.machine
      BY <1>2 DEF IsOnTheWay
<1>5. Answer \in [Pos -> Value]
      BY AnswerExists DEF RInv, OnTheWay
<1>. HIDE DEF f, k, r
<1>6. p \in r[k].read
      <2>1. EvaluateToken(f.machine, <<"cell", p>>, Answer).read = f.machine.read \cup {p}
            <3>1. <<"cell", p>> \in ProgramToken /\ <<"cell", p>>[1] = "cell" /\ <<"cell", p>>[2] = p
                  BY <1>2
            <3>2. DOMAIN Answer = Pos /\ Answer[p] \in Value
                  BY <1>5
            <3>. QED BY <1>2, <3>1, <3>2, NodeReads
      <2>. QED BY <1>2, <1>3, <1>4, <2>1
<1>7. p \in ReadNext[f.pos]
      <2>1. p \in Open
            BY <1>1, NotPendingIsAnswered
      <2>. QED BY <1>3, <1>6, <2>1 DEF ReadNext
<1>8. p \in Asked
      <2>1. ReadNext \in [Pos -> SUBSET Pos] /\ roots \cap Open \in SUBSET Pos
            BY DEF ReadNext, Open, Occupied
      <2>2. IsClosed(Asked, ReadNext)
            BY <2>1, ReachableIsClosed DEF Asked
      <2>3. f.pos \in Asked
            BY <1>2 DEF IsOnTheWay
      <2>. QED BY <1>7, <2>2, <2>3 DEF IsClosed
<1>. QED BY <1>1, <1>8, BeginOnTheWay

\* A cell without a formula, or with its value, is read as it is in the answer.
LEMMA EvaluateNodeOnTheWay ==
    ASSUME RInv, OnTheWay, ~returned, UNCHANGED <<table, roots, before>>, EvaluateNode
    PROVE  OnTheWay'
<1>. DEFINE n == Len(stack)
            f == Top
            k == f.done + 1
            t == Token(f)
            m == EvaluateToken(f.machine, t, Shown)
            new == [pos |-> f.pos, done |-> k, machine |-> m]
            r == Run(Program(f.pos), Answer)
<1>1. /\ stack # <<>> /\ ~IsOver(f)
      /\ ~(t[1] = "cell" /\ t[2] \in Pending)
      /\ UNCHANGED <<todo, cache>>
      BY DEF EvaluateNode
<1>2. /\ stack \in Seq(Evaluation) /\ n \in Nat \ {0} /\ f = stack[n]
      /\ f \in Evaluation /\ IsUnderway(f) /\ IsOnTheWay(f)
      /\ k \in 1..Len(Program(f.pos)) /\ f.machine.thrown = "none"
      /\ t = Program(f.pos)[k] /\ t \in ProgramToken
      /\ f.machine \in Machine /\ f.done \in Nat
      BY <1>1, TopOfStack DEF Evaluation
<1>3. stack' = [stack EXCEPT ![n] = new]
      BY <1>2 DEF EvaluateNode
<1>4. /\ r[k] = EvaluateToken(r[k-1], Program(f.pos)[k], Answer)
      /\ r[k-1] = f.machine
      <2>. HIDE DEF f, k
      <2>1. r[k] = EvaluateToken(r[k-1], Program(f.pos)[k], Answer)
            BY <1>2, RunOf
      <2>. USE DEF f, k
      <2>2. k - 1 = f.done
            BY <1>2
      <2>. QED BY <1>2, <2>1, <2>2 DEF IsOnTheWay
<1>5. Answer \in [Pos -> Value] /\ DOMAIN Answer = Pos /\ DOMAIN Shown = Pos
      BY AnswerExists DEF RInv, OnTheWay, Shown
<1>6. t[1] = "cell" => t[2] \in Pos \ Pending /\ Shown[t[2]] = Answer[t[2]]
      <2>1. t[1] = "cell" => t[2] \in Pos
            BY <1>2 DEF ProgramToken
      <2>. QED BY <1>1, <2>1, NotPendingIsAnswered DEF Shown
<1>. HIDE DEF f, k, t, r
<1>7. m = r[k]
      <2>1. EvaluateToken(f.machine, t, Shown) = EvaluateToken(f.machine, t, Answer)
            <3>. HIDE DEF Shown
            <3>1. t[1] \in {"cell", "number", "unary", "binary"}
                  BY <1>2 DEF ProgramToken
            <3>2. CASE t[1] = "cell"
                  <4>1. EvaluateCell(f.machine, t[2], Shown) = EvaluateCell(f.machine, t[2], Answer)
                        <5>1. /\ t[2] \in DOMAIN Shown /\ t[2] \in DOMAIN Answer
                              /\ Shown[t[2]] = Answer[t[2]]
                              BY <1>5, <1>6, <3>2
                        <5>2. Answer[t[2]][1] \in {"double", "error", "string"}
                              BY <1>5, <5>1, ProgramAssumption
                                 DEF FormulaValue, Double, FormulaError
                        <5>. QED BY <5>1, <5>2 DEF EvaluateCell
                  <4>2. \A v : EvaluateToken(f.machine, t, v) = EvaluateCell(f.machine, t[2], v)
                        BY <1>2, <3>2 DEF EvaluateToken
                  <4>. QED BY <4>1, <4>2
            <3>3. CASE t[1] # "cell"
                  BY <1>2, <3>1, <3>3 DEF EvaluateToken
            <3>. QED BY <3>1, <3>2, <3>3
      <2>. QED BY <1>2, <1>4, <2>1
<1>8. m.read \cap Pending = {}
      <2>1. m.read = IF t[1] = "cell" THEN f.machine.read \cup {t[2]} ELSE f.machine.read
            <3>1. /\ f.machine \in Machine /\ f.machine.thrown = "none"
                  /\ t \in ProgramToken /\ DOMAIN Shown = Pos
                  /\ t[1] = "cell" => Shown[t[2]] \in Value
                  BY <1>2, <1>5, <1>6
            <3>. QED BY ONLY <3>1, NodeReads
      <2>. HIDE DEF m
      <2>. QED BY <1>2, <1>6, <2>1 DEF IsOnTheWay
<1>. HIDE DEF m
<1>9. IsOnTheWay(new)
      BY <1>2, <1>7, <1>8 DEF IsOnTheWay, r
<1>10. /\ Len(stack') = n /\ DOMAIN stack = 1..n
       /\ \A i \in 1..n : stack'[i] = IF i = n THEN new ELSE stack[i]
       <2>. HIDE DEF new
       <2>1. DOMAIN stack = 1..n
             BY <1>2, LenProperties
       <2>2. /\ DOMAIN stack' = 1..n
             /\ \A i \in 1..n : stack'[i] = IF i = n THEN new ELSE stack[i]
             BY <1>3, <2>1
       <2>3. Len(stack') = n
             <3>1. stack' \in Seq(Evaluation)
                   BY EvaluateNodeKeeps DEF RInv, Nested
             <3>2. Len(stack') \in Nat /\ DOMAIN stack' = 1..Len(stack')
                   BY <3>1, LenProperties
             <3>. QED BY <1>2, <2>2, <3>2
       <2>. QED BY <2>1, <2>2, <2>3
<1>11. \A i \in 1..n : stack'[i].pos = stack[i].pos
       BY <1>2, <1>10
<1>12. /\ Open' = Open /\ Answer' = Answer /\ Asked' = Asked /\ BeforeTyped' = BeforeTyped
       /\ cells' = cells /\ before' = before /\ roots' = roots /\ outcome' = outcome
       /\ \A q : Program(q)' = Program(q)
       BY AnswerStays
<1>13. Pending' = Pending
       BY <1>1, TableStays DEF RInv
<1>14. \A g : IsOnTheWay(g)' <=> IsOnTheWay(g)
       BY <1>12, <1>13 DEF IsOnTheWay
<1>15. \A q : TextAt(q)' = TextAt(q)
       BY <1>12 DEF Program
<1>. HIDE DEF new
<1>16. \A i \in 1..n : IsOnTheWay(stack'[i])
       BY <1>9, <1>10 DEF OnTheWay
<1>. QED BY <1>1, <1>10, <1>11, <1>12, <1>13, <1>14, <1>15, <1>16 DEF OnTheWay

\* An evaluation ends, its formula gets the value it has in the answer.
LEMMA FinishOnTheWay ==
    ASSUME RInv, OnTheWay, UNCHANGED <<table, roots, before>>, Finish
    PROVE  OnTheWay'
<1>. DEFINE n == Len(stack)
            f == Top
            p == f.pos
<1>1. /\ stack # <<>> /\ IsOver(f)
      /\ cache' = [cache EXCEPT ![cells[p]] = Cached(f)]
      /\ stack' = Front(stack)
      /\ todo' = todo
      BY DEF Finish
<1>2. /\ stack \in Seq(Evaluation) /\ n \in Nat \ {0} /\ f = stack[n]
      /\ f \in Evaluation /\ IsUnderway(f) /\ IsOnTheWay(f)
      BY <1>1, TopOfStack
<1>. HIDE DEF f
<1>3. /\ p \in Open /\ p \in Pos /\ p \in Pending /\ cells[p] \in Addr
      /\ Reads(TextAt(p), Answer) = f.machine.read
      /\ Cached(f) = Answer[p]
      <2>1. /\ f.done \in 0..Len(Program(p))
            /\ f.done = Len(Program(p)) \/ f.machine.thrown # "none"
            BY <1>1, <1>2, RunOf DEF IsOver
      <2>2. f.machine = Run(Program(p), Answer)[f.done]
            BY <1>2 DEF IsOnTheWay
      <2>3. /\ Reads(TextAt(p), Answer) = Run(Program(p), Answer)[f.done].read
            /\ Answer[p] = Result(Run(Program(p), Answer)[f.done])
            BY <1>2, <2>1, <2>2, RunOf
      <2>4. /\ p \in Open /\ p \in Pos /\ p \in Pending /\ cells[p] \in Addr
            BY <1>2, RunOf, PendingProgram DEF RInv, IsUnderway
      <2>. QED BY <2>2, <2>3, <2>4 DEF Cached
<1>4. /\ Answer \in [Pos -> Value] /\ Answer[p] \in Value /\ Answer[p] # NoValue
      BY <1>3, AnswerExists, NoValueAssumption DEF RInv, OnTheWay
<1>. HIDE DEF p
<1>5. /\ cache'[cells[p]] = Answer[p]
      /\ \A a \in Addr : a # cells[p] => cache'[a] = cache[a]
      BY <1>1, <1>3 DEF RInv
<1>6. /\ Open' = Open /\ Answer' = Answer /\ Asked' = Asked /\ BeforeTyped' = BeforeTyped
      /\ cells' = cells /\ before' = before /\ roots' = roots /\ outcome' = outcome
      /\ \A q : Program(q)' = Program(q)
      BY AnswerStays
<1>7. \A q : TextAt(q)' = TextAt(q)
      BY <1>6 DEF Program
<1>8. Pending' = Pending \ {p}
      <2>1. \A q \in Occupied : cells[q] \in Addr /\ (cells[q] = cells[p] => q = p)
            BY <1>3 DEF RInv, Fixed, OneOwner, Occupied, Pending
      <2>2. Occupied' = Occupied
            BY TableStays DEF RInv
      <2>3. Pending' = {q \in Occupied : TextAt(q) \in FormulaText /\ cache'[cells[q]] = NoValue}
            BY <1>6, <1>7, <2>2 DEF Pending
      <2>. QED BY <1>4, <1>5, <2>1, <2>3 DEF Pending
<1>9. /\ Len(stack') = n - 1
      /\ \A i \in 1..n - 1 : stack'[i] = stack[i]
      BY <1>1, <1>2, FrontOfStack
<1>10. \A i \in 1..n - 1 : IsOnTheWay(stack[i])'
       <2>1. \A g : IsOnTheWay(g) => IsOnTheWay(g)'
             BY <1>6, <1>8 DEF IsOnTheWay
       <2>. QED BY <1>2, <1>9, <2>1 DEF OnTheWay
<1>11. \A a \in Addr : \/ cache'[a] = before[a]
                       \/ \E q \in Open : cells[q] = a /\ cache'[a] = Answer[q]
       BY <1>3, <1>5 DEF OnTheWay
<1>12. \A q \in Open \ Pending' : Reads(TextAt(q), Answer) \cap Pending' = {} /\ q \in Asked
       <2>1. Reads(TextAt(p), Answer) \cap Pending = {} /\ p \in Asked
             BY <1>2, <1>3 DEF IsOnTheWay, p
       <2>. QED BY <1>8, <2>1 DEF OnTheWay
<1>13. \A q \in roots \ todo : q \in Pending' => \E i \in 1..n - 1 : stack'[i].pos = q
       <2>1. SUFFICES ASSUME NEW q \in roots \ todo, q \in Pending, q # p
                      PROVE  \E i \in 1..n - 1 : stack'[i].pos = q
             BY <1>8
       <2>2. PICK i \in 1..n : stack[i].pos = q
             BY <2>1 DEF OnTheWay
       <2>3. i \in 1..n - 1
             BY <1>2, <2>1, <2>2 DEF p
       <2>. QED BY <1>9, <2>2, <2>3
<1>. QED BY <1>1, <1>6, <1>7, <1>9, <1>10, <1>11, <1>12, <1>13 DEF OnTheWay

\* Nothing but returned changes, if anything does.
LEMMA StillOnTheWay ==
    ASSUME RInv, OnTheWay, UNCHANGED <<table, roots, before, todo, cache, stack>>
    PROVE  OnTheWay'
<1>1. Pending' = Pending
      BY TableStays DEF RInv
<1>2. /\ Open' = Open /\ Answer' = Answer /\ Asked' = Asked /\ BeforeTyped' = BeforeTyped
      /\ cells' = cells /\ before' = before /\ roots' = roots /\ outcome' = outcome
      /\ \A q : Program(q)' = Program(q)
      BY AnswerStays
<1>3. \A q : TextAt(q)' = TextAt(q)
      BY <1>2 DEF Program
<1>4. \A f : IsOnTheWay(f)' <=> IsOnTheWay(f)
      BY <1>1, <1>2 DEF IsOnTheWay
<1>. QED BY <1>1, <1>2, <1>3, <1>4 DEF OnTheWay

\* Every step stays on the way to the answer.
LEMMA OnTheWayStep == RInv /\ OnTheWay /\ [Step]_allVars => OnTheWay'
<1>1. SUFFICES ASSUME RInv, OnTheWay, [Step]_allVars PROVE OnTheWay'
      OBVIOUS
<1>2. CASE UNCHANGED allVars
      BY <1>1, <1>2, StillOnTheWay DEF allVars, walk
<1>3. CASE Step
      <2>1. ~returned /\ UNCHANGED <<table, roots, before>>
            BY <1>3 DEF Step
      <2>2. CASE \E p \in Pos : ShowNext(p) \/ Ask(p)
            BY <1>1, <2>1, <2>2, ShowNextOnTheWay, AskOnTheWay
      <2>3. CASE EvaluateNode
            BY <1>1, <2>1, <2>3, EvaluateNodeOnTheWay
      <2>4. CASE Finish
            BY <1>1, <2>1, <2>4, FinishOnTheWay
      <2>5. CASE Return
            BY <1>1, <2>1, <2>5, StillOnTheWay DEF Return
      <2>. QED BY <1>3, <2>2, <2>3, <2>4, <2>5 DEF Step
<1>. QED BY <1>1, <1>2, <1>3

\* The call begins on the way to the answer: nothing is evaluated yet.
LEMMA OnTheWayInit == RecalculationInit => OnTheWay
<1>1. SUFFICES ASSUME RecalculationInit PROVE OnTheWay
      OBVIOUS
<1>2. /\ roots \in {{p} : p \in Pos} \cup {PrintArea \cap Occupied}
      /\ todo = roots /\ before = cache /\ stack = <<>> /\ outcome = "ok"
      /\ cache \in [Addr -> Value \cup {NoValue}]
      <2>1. RInv
            BY <1>1, RecalculationInitInv
      <2>2. /\ roots \in {{p} : p \in Pos} \cup {PrintArea \cap Occupied}
            /\ todo = roots /\ before = cache /\ stack = <<>> /\ outcome = "ok"
            BY <1>1, Zenon DEF RecalculationInit
      <2>. QED BY <2>1, <2>2 DEF RInv
<1>3. roots \subseteq Pos /\ BeforeTyped /\ Open = Pending /\ 1..Len(stack) = {}
      BY <1>2, EmptySeq DEF PrintArea, BeforeTyped, Open, Pending
<1>. QED BY <1>2, <1>3 DEF OnTheWay

---------------------------------------------------------------------------
(***************************************************************************)
(* The call as its caller sees it.                                         *)
(***************************************************************************)

\* Before the call returns, Table is the table on which it was made.
LEMMA SeenBefore ==
    ASSUME ~returned
    PROVE  /\ Table!Pos = Pos
           /\ Table!Pending = Open
           /\ \A p : Table!KnownValue(p) = KnownBefore(p) /\ Table!TextAt(p) = TextAt(p)
           /\ \A R, next : Table!ReachableFrom(R, next) = ReachableFrom(R, next)
<1>1. Table!Pos = Pos
      BY DEF Table!Pos, Pos
<1>2. \A p : Table!TextAt(p) = TextAt(p)
      BY DEF Table!TextAt, TextAt
<1>3. Table!Pending = Open
      BY <1>1, <1>2 DEF Table!Pending, Open, Table!Occupied, Occupied
<1>4. \A p : Table!KnownValue(p) = KnownBefore(p)
      BY DEF Table!KnownValue, KnownBefore
<1>5. \A R, next : Table!ReachableFrom(R, next) = ReachableFrom(R, next)
      BY DEF Table!ReachableFrom, ReachableFrom, Table!IsClosed, IsClosed
<1>. QED BY <1>1, <1>2, <1>3, <1>4, <1>5

\* The answer is what IsEvaluation asks for, and EvaluatedBy is what is read for it.
LEMMA AnswerIsEvaluation ==
    ASSUME RInv, OnTheWay, ~returned, NEW w, w = [p \in Open |-> Answer[p]]
    PROVE  /\ w \in [Open -> Value]
           /\ Table!IsEvaluation(w)
           /\ Table!EvaluatedBy(roots, w) = Asked
<1>1. Answer \in [Pos -> Value] /\ IsAnswer(Answer) /\ Open \subseteq Pos
      BY AnswerExists DEF RInv, OnTheWay, Open, Occupied
<1>2. w \in [Open -> Value] /\ DOMAIN w = Open
      BY <1>1
<1>3. Table!Values(w) = Answer
      <2>1. Table!Values(w) = [p \in Pos |-> IF p \in Open THEN w[p] ELSE KnownBefore(p)]
            BY <1>2, SeenBefore DEF Table!Values
      <2>2. \A p \in Pos : (IF p \in Open THEN w[p] ELSE KnownBefore(p)) = Answer[p]
            BY <1>1 DEF IsAnswer
      <2>3. Answer = [p \in Pos |-> Answer[p]]
            BY <1>1
      <2>. QED BY <2>1, <2>2, <2>3
<1>4. Table!IsEvaluation(w)
      BY <1>1, <1>2, <1>3, SeenBefore DEF Table!IsEvaluation, IsAnswer
<1>5. Table!EvaluatedBy(roots, w) = Asked
      BY <1>3, SeenBefore DEF Table!EvaluatedBy, Asked, ReadNext
<1>. QED BY <1>2, <1>4, <1>5

\* In the end the formulas that got a value are those that were to be read.
LEMMA EvaluatedIsAsked ==
    ASSUME RInv, OnTheWay, stack = <<>>, todo = {}
    PROVE  Open \ Pending = Asked
<1>1. /\ ReadNext \in [Pos -> SUBSET Pos] /\ roots \cap Open \in SUBSET Pos
      /\ Open \ Pending \in SUBSET Pos
      BY DEF ReadNext, Open, Occupied
<1>2. roots \cap Open \subseteq Open \ Pending
      BY EmptySeq DEF OnTheWay
<1>3. IsClosed(Open \ Pending, ReadNext)
      BY DEF OnTheWay, IsClosed, ReadNext, Open, Occupied
<1>4. Asked \subseteq Open \ Pending
      BY <1>1, <1>2, <1>3, ReachableIsLeast DEF Asked
<1>. QED BY <1>4 DEF OnTheWay

\* The step that returns is the one Show describes.
LEMMA ReturnShows ==
    ASSUME RInv, OnTheWay, ~returned, UNCHANGED <<table, roots, before>>, Return
    PROVE  Table!Show(roots)
<1>. DEFINE w == [p \in Open |-> Answer[p]]
            at(a) == CHOOSE p \in Asked : cells[p] = a
<1>1. /\ stack = <<>> /\ todo = {} /\ returned' = TRUE /\ cache' = cache
      /\ UNCHANGED <<cells, impl, dependents, print_size, outcome>>
      BY DEF Return, table
<1>2. Open \ Pending = Asked
      BY <1>1, EvaluatedIsAsked
<1>3. /\ w \in [Table!Pending -> Value]
      /\ Table!IsEvaluation(w)
      /\ Table!EvaluatedBy(roots, w) = Asked
      BY AnswerIsEvaluation, SeenBefore
<1>4. ASSUME NEW a \in Addr
      PROVE  cache[a] = IF \E p \in Asked : cells[p] = a THEN w[at(a)] ELSE before[a]
      <2>1. CASE \E p \in Asked : cells[p] = a
            <3>1. at(a) \in Asked /\ cells[at(a)] = a
                  BY <2>1
            <3>. DEFINE p == at(a)
            <3>2. p \in Open /\ p \in Occupied /\ p \notin Pending /\ TextAt(p) \in FormulaText
                  BY <1>2, <3>1 DEF Open
            <3>3. cache[a] # NoValue /\ before[a] = NoValue
                  BY <3>1, <3>2 DEF Pending, Open
            <3>4. PICK q \in Open : cells[q] = a /\ cache[a] = Answer[q]
                  BY <3>3 DEF OnTheWay
            <3>5. q = p
                  BY <3>1, <3>2, <3>4 DEF RInv, Fixed, OneOwner, Open
            <3>. QED BY <2>1, <3>2, <3>4, <3>5
      <2>2. CASE ~\E p \in Asked : cells[p] = a
            <3>1. SUFFICES ASSUME NEW q \in Open, cells[q] = a, cache[a] = Answer[q]
                           PROVE  cache[a] = before[a]
                  BY <2>2 DEF OnTheWay
            <3>2. q \in Pending
                  BY <1>2, <2>2, <3>1
            <3>. QED BY <3>1, <3>2 DEF Pending, Open
      <2>. QED BY <2>1, <2>2
<1>5. cache = [a \in Addr |-> IF \E p \in Asked : cells[p] = a THEN w[at(a)] ELSE before[a]]
      <2>1. cache = [a \in Addr |-> cache[a]]
            BY DEF RInv
      <2>. HIDE DEF w, at
      <2>. QED BY <1>4, <2>1
<1>6. outcome' = "ok"
      BY <1>1 DEF OnTheWay
<1>. HIDE DEF w
<1>. QED BY <1>1, <1>3, <1>5, <1>6 DEF Table!Show

\* Every other step is one the caller does not see.
LEMMA StepShows ==
    ASSUME RInv, OnTheWay, [Step]_allVars
    PROVE  [Table!Show(roots)]_(Table!vars)
<1>1. CASE UNCHANGED allVars
      BY <1>1 DEF allVars, table, walk, Table!vars
<1>2. CASE Step
      <2>1. ~returned /\ UNCHANGED <<table, roots, before>>
            BY <1>2 DEF Step
      <2>2. CASE Return
            BY <2>1, <2>2, ReturnShows
      <2>3. ASSUME returned' = returned
            PROVE  UNCHANGED Table!vars
            BY <2>1, <2>3 DEF table, Table!vars
      <2>4. CASE (\E p \in Pos : ShowNext(p) \/ Ask(p)) \/ EvaluateNode \/ Finish
            BY <2>3, <2>4 DEF ShowNext, Ask, Begin, EvaluateNode, Finish
      <2>. QED BY <1>2, <2>2, <2>4 DEF Step
<1>. QED BY <1>1, <1>2

\* Evaluated node by node, each cell asked when it is come to and errors thrown from
\* where they occur (FormulaImpl::GetValue, CellExpr::Evaluate), the call does what
\* the one action of the Sheet module says, for every table and every formula.
THEOREM StepsImplementShow == RecalculationSpec => ImplementsShow
<1>1. RecalculationInit => RInv /\ OnTheWay
      BY RecalculationInitInv, OnTheWayInit
<1>2. RInv /\ OnTheWay /\ [Step]_allVars => (RInv /\ OnTheWay)'
      BY RecalculationStep, OnTheWayStep
<1>3. RInv /\ OnTheWay /\ [Step]_allVars => [Table!Show(roots)]_(Table!vars)
      BY StepShows
<1>. QED BY <1>1, <1>2, <1>3, PTL DEF RecalculationSpec, ImplementsShow
===========================================================================
