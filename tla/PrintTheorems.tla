--------------------------- MODULE PrintTheorems --------------------------
(***************************************************************************)
(* For all numbers, every number of operators and every formula: the text  *)
(* of a cell, entered again, is the text of the cell and has its value, in *)
(* exact arithmetic, but for the exceptions the properties name; and each  *)
(* pair of parentheses of a text groups something.                         *)
(*                                                                         *)
(* The text of a tree need not be read as the tree: a sign goes to the     *)
(* first factor, and where no parentheses are printed operators of one     *)
(* priority are regrouped from the left.  Reread gives, for every tree, a  *)
(* Normal one of the same text and value; NormalReads and WholeIsUnique    *)
(* say that the grammar derives this tree of the text, and no other.       *)
(***************************************************************************)
EXTENDS FormulaText, ParserTheorems

---------------------------------------------------------------------------
(***************************************************************************)
(* Trees.                                                                  *)
(***************************************************************************)

NumberTrees == {<<"NUMBER", l>> : l \in DOMAIN Number}

\* The trees with n operators, f giving those with fewer.
TreesOf(f, n) ==
    IF n = 0 THEN NumberTrees
    ELSE ({"unary"} \X AddSub \X f[n - 1])
         \cup UNION {{"binary"} \X Operator \X f[k] \X f[n - 1 - k] : k \in 0..(n - 1)}

\* What a tree is depends on the trees with fewer operators only.
LEMMA TreesAreLocal ==
    ASSUME NEW n \in Nat, NEW f, NEW g, \A k \in 0..n-1 : f[k] = g[k]
    PROVE  TreesOf(f, n) = TreesOf(g, n)
<1>1. CASE n = 0
      BY <1>1 DEF TreesOf
<1>2. CASE n # 0
      <2>1. n - 1 \in 0..n-1 /\ \A k \in 0..n-1 : n - 1 - k \in 0..n-1
            BY <1>2
      <2>2. {{"binary"} \X Operator \X f[k] \X f[n - 1 - k] : k \in 0..(n - 1)}
               = {{"binary"} \X Operator \X g[k] \X g[n - 1 - k] : k \in 0..(n - 1)}
            BY <2>1
      <2>. QED BY <1>2, <2>1, <2>2 DEF TreesOf
<1>. QED BY <1>1, <1>2

\* The equation of Trees has a solution.
LEMMA TreesExist == \A n \in 0..MaxOperators : Trees[n] = TreesOf(Trees, n)
<1>. DEFINE m == MaxOperators
            Solved(r, n) == r = [k \in 0..n |-> TreesOf(r, k)]
            S == {n \in Nat : ~ \E r : Solved(r, n)}
            Eq(f) == f = [k \in 0..m |-> TreesOf(f, k)]
<1>1. S = {}
      <2>1. SUFFICES ASSUME S # {} PROVE FALSE
            OBVIOUS
      <2>2. PICK n \in S : \A k \in S : n <= k
            <3>. S \in SUBSET Nat
                 OBVIOUS
            <3>. HIDE DEF S
            <3>. QED BY <2>1, LeastNatural
      <2>3. n \in Nat /\ ~ \E r : Solved(r, n)
            OBVIOUS
      <2>4. \E r : \A k \in 0..n-1 : r[k] = TreesOf(r, k)
            <3>1. CASE n = 0
                  BY <3>1
            <3>2. CASE n # 0
                  <4>1. n - 1 \in Nat /\ n - 1 \notin S
                        <5>1. n - 1 \in Nat /\ ~(n <= n - 1)
                              BY ONLY <2>3, <3>2
                        <5>. HIDE DEF S
                        <5>. QED BY ONLY <2>2, <5>1
                  <4>2. PICK r : Solved(r, n - 1)
                        BY <4>1
                  <4>. QED BY <4>2
            <3>. QED BY <3>1, <3>2
      <2>5. PICK r : \A k \in 0..n-1 : r[k] = TreesOf(r, k)
            BY <2>4
      <2>. DEFINE q == [k \in 0..n |-> TreesOf(r, k)]
      <2>6. ASSUME NEW k \in 0..n
            PROVE  TreesOf(r, k) = TreesOf(q, k)
            <3>1. k \in Nat /\ \A i \in 0..k-1 : i \in 0..n-1 /\ i \in 0..n
                  BY <2>3
            <3>2. \A i \in 0..k-1 : r[i] = q[i]
                  BY <2>5, <3>1
            <3>. HIDE DEF q
            <3>. QED BY <3>1, <3>2, TreesAreLocal
      <2>7. Solved(q, n)
            BY <2>6
      <2>. QED BY <2>3, <2>7
<1>2. \E f : Eq(f)
      <2>1. m \in Nat
            BY LiteralsAssumption
      <2>. QED BY <1>1, <2>1
<1>. DEFINE f == CHOOSE f : Eq(f)
<1>3. Eq(f)
      <2>. HIDE DEF Eq
      <2>. QED BY <1>2
<1>4. Trees = f
      BY DEF Trees, TreesOf, NumberTrees
<1>. QED BY <1>3, <1>4

\* A tree is a number, a sign and a tree, or an operator and two.
LEMMA TreeCases ==
    ASSUME NEW n \in 0..MaxOperators, NEW t
    PROVE  t \in Trees[n] <=>
              \/ n = 0 /\ \E l \in DOMAIN Number : t = <<"NUMBER", l>>
              \/ n # 0 /\ \E op \in AddSub, u \in Trees[n-1] : t = <<"unary", op, u>>
              \/ n # 0 /\ \E k \in 0..n-1 : \E op \in Operator, u \in Trees[k], v \in Trees[n-1-k] :
                              t = <<"binary", op, u, v>>
<1>1. Trees[n] = TreesOf(Trees, n)
      BY TreesExist
<1>2. CASE n = 0
      BY <1>1, <1>2 DEF TreesOf, NumberTrees
<1>3. CASE n # 0
      <2>1. t \in Trees[n] <=>
               \/ t \in {"unary"} \X AddSub \X Trees[n-1]
               \/ \E k \in 0..n-1 : t \in {"binary"} \X Operator \X Trees[k] \X Trees[n-1-k]
            BY <1>1, <1>3 DEF TreesOf
      <2>2. t \in {"unary"} \X AddSub \X Trees[n-1]
               <=> \E op \in AddSub, u \in Trees[n-1] : t = <<"unary", op, u>>
            OBVIOUS
      <2>3. ASSUME NEW k \in 0..n-1
            PROVE  t \in {"binary"} \X Operator \X Trees[k] \X Trees[n-1-k]
                     <=> \E op \in Operator, u \in Trees[k], v \in Trees[n-1-k] : t = <<"binary", op, u, v>>
            OBVIOUS
      <2>. QED BY <1>3, <2>1, <2>2, <2>3
<1>. QED BY <1>2, <1>3

\* What holds of the numbers, and of what is made of trees of which it holds, holds
\* of all trees.
LEMMA TreeInduction ==
    ASSUME NEW S,
           \A l \in DOMAIN Number : <<"NUMBER", l>> \in S,
           \A op \in AddSub, u \in S \cap Formula :
              <<"unary", op, u>> \in Formula => <<"unary", op, u>> \in S,
           \A op \in Operator, u \in S \cap Formula, v \in S \cap Formula :
              <<"binary", op, u, v>> \in Formula => <<"binary", op, u, v>> \in S
    PROVE  Formula \subseteq S
<1>. DEFINE B == {n \in 0..MaxOperators : ~(Trees[n] \subseteq S)}
<1>1. MaxOperators \in Nat
      BY LiteralsAssumption
<1>2. SUFFICES ASSUME B # {} PROVE FALSE
      BY DEF Formula
<1>3. PICK n \in B : \A k \in B : n <= k
      <2>. B \in SUBSET Nat
           OBVIOUS
      <2>. HIDE DEF B
      <2>. QED BY <1>2, LeastNatural
<1>4. n \in 0..MaxOperators /\ n \in Nat
      OBVIOUS
<1>5. PICK t \in Trees[n] : t \notin S
      OBVIOUS
<1>6. \A k \in 0..n-1 : k \in 0..MaxOperators /\ Trees[k] \subseteq S \cap Formula
      <2>1. SUFFICES ASSUME NEW k \in 0..n-1
                     PROVE  k \in 0..MaxOperators /\ Trees[k] \subseteq S \cap Formula
            OBVIOUS
      <2>2. k \in 0..MaxOperators /\ ~(n <= k)
            BY <1>1, <1>4
      <2>3. k \notin B
            <3>. HIDE DEF B
            <3>. QED BY <1>3, <2>2
      <2>. QED BY <2>2, <2>3 DEF Formula
<1>7. t \in Formula
      BY <1>4, <1>5 DEF Formula
<1>. HIDE DEF B
<1>8. CASE n = 0 /\ \E l \in DOMAIN Number : t = <<"NUMBER", l>>
      BY <1>5, <1>8
<1>9. CASE n # 0 /\ \E op \in AddSub, u \in Trees[n-1] : t = <<"unary", op, u>>
      <2>1. n - 1 \in 0..n-1
            BY <1>4, <1>9
      <2>2. PICK op \in AddSub, u \in Trees[n-1] : t = <<"unary", op, u>>
            BY <1>9
      <2>3. u \in S \cap Formula
            BY <1>6, <2>1
      <2>. QED BY <1>5, <1>7, <2>2, <2>3
<1>10. CASE n # 0 /\ \E k \in 0..n-1 : \E op \in Operator, u \in Trees[k], v \in Trees[n-1-k] :
                              t = <<"binary", op, u, v>>
      <2>1. PICK k \in 0..n-1 : \E op \in Operator, u \in Trees[k], v \in Trees[n-1-k] :
                              t = <<"binary", op, u, v>>
            BY <1>10
      <2>2. PICK op \in Operator, u \in Trees[k], v \in Trees[n-1-k] : t = <<"binary", op, u, v>>
            BY <2>1
      <2>3. n - 1 - k \in 0..n-1
            BY <1>4
      <2>4. u \in S \cap Formula /\ v \in S \cap Formula
            BY <1>6, <2>3
      <2>. QED BY <1>5, <1>7, <2>2, <2>4
<1>. QED BY <1>4, <1>5, <1>8, <1>9, <1>10, TreeCases

\* The trees a tree is made of.
SubTreesOf(t) == IF IsAtom(t) THEN {} ELSE IF IsUnary(t) THEN {t[3]} ELSE {t[3], t[4]}

SubTrees == [t \in Formula |-> SubTreesOf(t)]

\* What each tree is.
LEMMA FormulaCases ==
    ASSUME NEW t \in Formula
    PROVE  \/ \E l \in DOMAIN Number : t = <<"NUMBER", l>>
           \/ \E op \in AddSub, u \in Formula : t = <<"unary", op, u>>
           \/ \E op \in Operator, u \in Formula, v \in Formula : t = <<"binary", op, u, v>>
<1>. DEFINE S == {s \in Formula : \/ \E l \in DOMAIN Number : s = <<"NUMBER", l>>
                                  \/ \E op \in AddSub, u \in Formula : s = <<"unary", op, u>>
                                  \/ \E op \in Operator, u \in Formula, v \in Formula : s = <<"binary", op, u, v>>}
<1>1. \A l \in DOMAIN Number : <<"NUMBER", l>> \in S
      <2>1. 0 \in 0..MaxOperators
            BY LiteralsAssumption
      <2>2. \A l \in DOMAIN Number : <<"NUMBER", l>> \in Formula
            BY <2>1, TreeCases DEF Formula
      <2>. QED BY <2>2
<1>2. \A op \in AddSub, u \in S \cap Formula :
              <<"unary", op, u>> \in Formula => <<"unary", op, u>> \in S
      OBVIOUS
<1>3. \A op \in Operator, u \in S \cap Formula, v \in S \cap Formula :
              <<"binary", op, u, v>> \in Formula => <<"binary", op, u, v>> \in S
      OBVIOUS
<1>4. Formula \subseteq S
      <2>. HIDE DEF S
      <2>. QED BY <1>1, <1>2, <1>3, TreeInduction
<1>. QED BY <1>4

\* A tree consists of smaller ones.
LEMMA SubTreesAcyclic ==
    /\ SubTrees \in [Formula -> SUBSET Formula]
    /\ IsAcyclic(SubTrees)
<1>1. ASSUME NEW t \in Formula PROVE SubTreesOf(t) \in SUBSET Formula
      BY FormulaCases DEF SubTreesOf, IsAtom, IsUnary
<1>2. ASSUME NEW S \in SUBSET Formula, \A x \in S : SubTreesOf(x) \cap S # {}
      PROVE  S = {}
      <2>. DEFINE T == Formula \ S
      <2>1. \A l \in DOMAIN Number : <<"NUMBER", l>> \in T
            <3>1. SUFFICES ASSUME NEW l \in DOMAIN Number PROVE <<"NUMBER", l>> \in T
                  OBVIOUS
            <3>2. 0 \in 0..MaxOperators
                  BY LiteralsAssumption
            <3>3. <<"NUMBER", l>> \in Formula
                  BY <3>2, TreeCases DEF Formula
            <3>4. SubTreesOf(<<"NUMBER", l>>) = {}
                  BY DEF SubTreesOf, IsAtom
            <3>. QED BY <1>2, <3>3, <3>4
      <2>2. \A op \in AddSub, u \in T \cap Formula :
              <<"unary", op, u>> \in Formula => <<"unary", op, u>> \in T
            <3>1. SUFFICES ASSUME NEW op \in AddSub, NEW u \in T, <<"unary", op, u>> \in Formula
                           PROVE  <<"unary", op, u>> \in T
                  OBVIOUS
            <3>2. SubTreesOf(<<"unary", op, u>>) = {u}
                  BY DEF SubTreesOf, IsAtom, IsUnary
            <3>. QED BY <1>2, <3>1, <3>2
      <2>3. \A op \in Operator, u \in T \cap Formula, v \in T \cap Formula :
              <<"binary", op, u, v>> \in Formula => <<"binary", op, u, v>> \in T
            <3>1. SUFFICES ASSUME NEW op \in Operator, NEW u \in T, NEW v \in T, <<"binary", op, u, v>> \in Formula
                           PROVE  <<"binary", op, u, v>> \in T
                  OBVIOUS
            <3>2. SubTreesOf(<<"binary", op, u, v>>) = {u, v}
                  BY DEF SubTreesOf, IsAtom, IsUnary
            <3>. QED BY <1>2, <3>1, <3>2
      <2>4. Formula \subseteq T
            <3>. HIDE DEF T
            <3>. QED BY <2>1, <2>2, <2>3, TreeInduction
      <2>. QED BY <2>4
<1>. QED BY <1>1, <1>2 DEF SubTrees, IsAcyclic

---------------------------------------------------------------------------
(***************************************************************************)
(* The numerals a stream prints.                                           *)
(***************************************************************************)

\* u is the unit in which n is printed.
IsUnitOf(n, u) == n < u * Limit /\ (u > 1 => n >= (u \div 10) * Limit)

\* A tenth and a half of each unit.
LEMMA Tens ==
    /\ 1 \div 10 = 0 /\ 10 \div 10 = 1 /\ 100 \div 10 = 10 /\ 1000 \div 10 = 100 /\ 10000 \div 10 = 1000
    /\ 100000 \div 10 = 10000 /\ 1000000 \div 10 = 100000
OBVIOUS

\* There is one unit.
LEMMA UnitExists ==
    ASSUME NEW n \in 0..100000 * Limit
    PROVE  \E u \in Unit : IsUnitOf(n, u)
<1>1. Limit \in Nat \ {0}
      BY LiteralsAssumption
<1>. QED BY <1>1, Tens DEF Unit, IsUnitOf

\* No number is printed in two units.
LEMMA UnitIsUnique ==
    ASSUME NEW n \in Nat, NEW u \in Unit, NEW w \in Unit, IsUnitOf(n, u), IsUnitOf(n, w)
    PROVE  u = w
<1>1. Limit \in Nat \ {0}
      BY LiteralsAssumption
<1>. QED BY <1>1, Tens DEF Unit, IsUnitOf

\* What is done with n once its unit is known.
RoundedTo(n, u) ==
    (IF 2 * (n % u) > u \/ (2 * (n % u) = u /\ (n \div u) % 2 = 1) THEN n \div u + 1 ELSE n \div u) * u

\* Rounded in terms of the unit.
LEMMA RoundedBy ==
    ASSUME NEW n \in Nat, NEW u \in Unit, IsUnitOf(n, u)
    PROVE  Rounded(n) = RoundedTo(n, u)
<1>. DEFINE unit == CHOOSE w \in Unit : IsUnitOf(n, w)
<1>1. Rounded(n) = RoundedTo(n, unit)
      BY DEF Rounded, RoundedTo, UnitOf, IsUnitOf
<1>2. unit \in Unit /\ IsUnitOf(n, unit)
      OBVIOUS
<1>. HIDE DEF unit
<1>3. unit = u
      BY <1>2, UnitIsUnique
<1>. QED BY <1>1, <1>3

\* What is a multiple of its unit is printed as it is.
LEMMA MultipleStays ==
    ASSUME NEW k \in Nat, NEW u \in Unit, IsUnitOf(k * u, u)
    PROVE  Rounded(k * u) = k * u
<1>1. k * u \in Nat
      BY DEF Unit
<1>2. Rounded(k * u) = RoundedTo(k * u, u)
      BY <1>1, RoundedBy
<1>3. (k * u) \div u = k /\ (k * u) % u = 0 /\ u > 0
      BY DEF Unit
<1>4. RoundedTo(k * u, u) = k * u
      BY <1>1, <1>3 DEF RoundedTo, Unit
<1>. QED BY <1>2, <1>4

\* A number of no more digits than are printed is printed as it is.
LEMMA RoundedTwice ==
    ASSUME NEW n \in 0..100000 * Limit, Rounded(n) \in 0..100000 * Limit
    PROVE  Rounded(Rounded(n)) = Rounded(n)
<1>1. PICK b \in Nat \ {0} : Limit = 10 * b
      <2>1. Limit \in Nat \ {0} /\ Limit % 10 = 0
            BY LiteralsAssumption
      <2>2. Limit = 10 * (Limit \div 10) /\ Limit \div 10 \in Nat \ {0}
            BY <2>1
      <2>. QED BY <2>2
<1>2. PICK u \in Unit : IsUnitOf(n, u)
      BY UnitExists
<1>3. n \in Nat
      BY <1>1
<1>4. PICK k \in {n \div u, n \div u + 1} : Rounded(n) = k * u
      <2>1. Rounded(n) = RoundedTo(n, u)
            BY <1>2, <1>3, RoundedBy
      <2>. QED BY <2>1 DEF RoundedTo
<1>5. k \in Nat /\ k <= 10 * b /\ (u > 1 => k >= b)
      BY <1>1, <1>2, <1>3, Tens DEF Unit, IsUnitOf
<1>6. CASE k < 10 * b
      <2>1. IsUnitOf(k * u, u)
            BY <1>1, <1>5, <1>6, Tens DEF Unit, IsUnitOf
      <2>. QED BY <1>4, <1>5, <2>1, MultipleStays
<1>7. CASE k = 10 * b
      <2>. DEFINE w == 10 * u
      <2>1. k * u = b * w
            BY <1>1, <1>7 DEF Unit
      <2>2. u # 1000000
            BY <1>1, <1>4, <1>7
      <2>3. w \in Unit /\ IsUnitOf(b * w, w)
            BY <1>1, <2>2, Tens DEF Unit, IsUnitOf
      <2>. HIDE DEF w
      <2>4. Rounded(b * w) = b * w
            BY <1>1, <1>4, <2>1, <2>3, MultipleStays
      <2>. QED BY <1>4, <2>1, <2>4
<1>. QED BY <1>5, <1>6, <1>7, <1>1

---------------------------------------------------------------------------
(***************************************************************************)
(* Functions on trees that are defined by recursion.                       *)
(***************************************************************************)

\* What an operation with two operands gives is given by these.
Operands2(Val) == Operator \X Formula \X Formula \X Val \X Val

\* The value of t, v giving those of the trees it is made of.
ValueBy(v, t, a, b, c) ==
    IF IsAtom(t) THEN a[t[2]]
    ELSE IF IsUnary(t) THEN b[<<t[2], t[3], v[t[3]]>>]
    ELSE c[<<t[2], t[3], t[4], v[t[3]], v[t[4]]>>]

\* The three kinds of trees are told apart by their first component.
LEMMA TreeShapes ==
    /\ \A l : /\ IsAtom(<<"NUMBER", l>>) /\ ~IsUnary(<<"NUMBER", l>>)
              /\ GetPrecedence(<<"NUMBER", l>>) = "atom"
    /\ \A op, u : /\ ~IsAtom(<<"unary", op, u>>) /\ IsUnary(<<"unary", op, u>>)
                  /\ GetPrecedence(<<"unary", op, u>>) = "unary"
    /\ \A op, u, v : /\ ~IsAtom(<<"binary", op, u, v>>) /\ ~IsUnary(<<"binary", op, u, v>>)
                     /\ GetPrecedence(<<"binary", op, u, v>>) = op
BY DEF IsAtom, IsUnary, GetPrecedence

\* A recursion over trees has a solution.
HasValues(Val, a, b, c) ==
    \E v \in [Formula -> Val] : \A t \in Formula : v[t] = ValueBy(v, t, a, b, c)

\* A recursion over trees has a solution with values in Val.
LEMMA TreeRecursion ==
    ASSUME NEW Val, NEW a \in [DOMAIN Number -> Val], NEW b \in [AddSub \X Formula \X Val -> Val],
           NEW c \in [Operands2(Val) -> Val]
    PROVE  HasValues(Val, a, b, c)
<1>. USE DEF HasValues
<1>. DEFINE rule == [t \in Formula |-> [v \in [Formula -> Val] |-> ValueBy(v, t, a, b, c)]]
<1>1. SubTrees \in [Formula -> SUBSET Formula] /\ IsAcyclic(SubTrees)
      BY SubTreesAcyclic
<1>2. ASSUME NEW t \in Formula, NEW v \in [Formula -> Val]
      PROVE  ValueBy(v, t, a, b, c) \in Val
      <2>1. CASE \E l \in DOMAIN Number : t = <<"NUMBER", l>>
            BY <2>1, TreeShapes DEF ValueBy
      <2>2. CASE \E op \in AddSub, u \in Formula : t = <<"unary", op, u>>
            <3>1. PICK op \in AddSub, u \in Formula : t = <<"unary", op, u>>
                  BY <2>2
            <3>2. ValueBy(v, t, a, b, c) = b[<<op, u, v[u]>>]
                  BY <3>1, TreeShapes DEF ValueBy
            <3>. QED BY <3>2
      <2>3. CASE \E op \in Operator, u \in Formula, w \in Formula : t = <<"binary", op, u, w>>
            <3>1. PICK op \in Operator, u \in Formula, w \in Formula : t = <<"binary", op, u, w>>
                  BY <2>3
            <3>2. ValueBy(v, t, a, b, c) = c[<<op, u, w, v[u], v[w]>>]
                  BY <3>1, TreeShapes DEF ValueBy
            <3>3. <<op, u, w, v[u], v[w]>> \in Operands2(Val)
                  BY DEF Operands2
            <3>. QED BY <3>2, <3>3
      <2>. QED BY <2>1, <2>2, <2>3, FormulaCases
<1>3. ASSUME NEW t \in Formula, NEW v \in [Formula -> Val], NEW w \in [Formula -> Val],
             \A u \in SubTrees[t] : v[u] = w[u]
      PROVE  ValueBy(v, t, a, b, c) = ValueBy(w, t, a, b, c)
      BY <1>3 DEF ValueBy, SubTrees, SubTreesOf
<1>4. IsLocal(Formula, Val, SubTrees, rule)
      BY <1>3 DEF IsLocal
<1>5. \A t \in Formula, v \in [Formula -> Val] : rule[t][v] \in Val
      BY <1>2
<1>6. CASE Val # {}
      <2>1. PICK any \in Val : TRUE
            BY <1>6
      <2>2. PICK v \in [Formula -> Val] : Solves(v, Formula, SubTrees, rule)
            <3>. HIDE DEF rule
            <3>. QED BY <1>1, <1>4, <1>5, SolutionExists
      <2>3. \A t \in Formula : v[t] = ValueBy(v, t, a, b, c)
            BY <2>2 DEF Solves
      <2>. QED BY <2>3
<1>7. CASE Val = {}
      <2>1. \A t : t \notin DOMAIN Number
            BY <1>7
      <2>2. Formula \subseteq {}
            BY <2>1, TreeInduction
      <2>. DEFINE v == [t \in {} |-> {}]
      <2>3. v \in [Formula -> Val] /\ \A t \in Formula : FALSE
            BY <2>2
      <2>. QED BY <2>3
<1>. QED BY <1>6, <1>7

\* A literal alone is a tree.
LEMMA NumbersAreTrees == \A l \in DOMAIN Number : <<"NUMBER", l>> \in Formula
<1>1. 0 \in 0..MaxOperators
      BY LiteralsAssumption
<1>. QED BY <1>1, TreeCases DEF Formula

\* The tokens of a text that is printed.
Printed == {x \in Token : ~IsLastToken(x)}

\* The tokens of operators, parentheses and literals.
LEMMA SymbolsPrinted == \A c \in Operator \cup Bracket : Symbol(c) \in Printed /\ Symbol(c).kind = c
<1>1. SUFFICES ASSUME NEW c \in Operator \cup Bracket PROVE Symbol(c) \in Printed
      BY DEF Symbol
<1>2. c \notin {"EOF", "error"}
      BY DEF Operator, Bracket
<1>. QED BY <1>2, SymbolType DEF Symbol, Printed, IsLastToken

LEMMA LiteralPrinted == \A l \in DOMAIN Number : [kind |-> "NUMBER", chars |-> l] \in Printed
<1>1. \A l \in DOMAIN Number : l \in Seq(Character)
      BY LiteralsAssumption, TextOfToken
<1>. QED BY <1>1 DEF Printed, Token, Kind, IsLastToken

\* What is printed of a literal is one.
LEMMA NumeralPrinted ==
    ASSUME NEW l \in DOMAIN Number
    PROVE  /\ Numeral(Number[l]).kind = "NUMBER"
           /\ Numeral(Number[l]) \in Printed
           /\ Numeral(Number[l]).chars \in DOMAIN Number
           /\ Number[Numeral(Number[l]).chars] = Rounded(Number[l])
           /\ Rounded(Number[l]) \in 0..100000 * Limit
<1>. DEFINE m == CHOOSE m \in DOMAIN Number : Number[m] = Rounded(Number[l])
<1>1. m \in DOMAIN Number /\ Number[m] = Rounded(Number[l])
      BY LiteralsAssumption
<1>4. Numeral(Number[l]) = [kind |-> "NUMBER", chars |-> m]
      BY DEF Numeral
<1>. HIDE DEF m
<1>3. Number[m] \in 0..100000 * Limit
      BY <1>1, LiteralsAssumption
<1>2. Numeral(Number[l]).kind = "NUMBER" /\ Numeral(Number[l]).chars = m
      BY <1>4
<1>5. Numeral(Number[l]) \in Printed
      BY <1>1, <1>4, LiteralPrinted
<1>. QED BY <1>1, <1>2, <1>3, <1>5

\* Parentheses are two tokens.
LEMMA InParensType ==
    ASSUME NEW s \in Seq(Printed)
    PROVE  InParens(s) \in Seq(Printed) /\ Len(InParens(s)) = Len(s) + 2
<1>1. Symbol("(") \in Printed /\ Symbol(")") \in Printed
      BY SymbolsPrinted DEF Bracket
<1>. QED BY <1>1 DEF InParens

\* With parentheses or without, a text.
LEMMA PrintFormulaType ==
    ASSUME NEW s \in Seq(Printed), NEW u, NEW parent, NEW parens
    PROVE  PrintFormula(u, s, parent, parens) \in Seq(Printed)
BY InParensType DEF PrintFormula

\* DoPrintFormula of each kind of tree.
LEMMA PrintUnfolds ==
    /\ DoPrintFormula \in [Formula -> Seq(Printed)]
    /\ \A l \in DOMAIN Number : DoPrintFormula[<<"NUMBER", l>>] = <<Numeral(Number[l])>>
    /\ \A op \in AddSub, u \in Formula :
          <<"unary", op, u>> \in Formula =>
             DoPrintFormula[<<"unary", op, u>>] = <<Symbol(op)>> \o PrintFormula(u, DoPrintFormula[u], "unary", ParensLeft)
    /\ \A op \in Operator, u \in Formula, v \in Formula :
          <<"binary", op, u, v>> \in Formula =>
             DoPrintFormula[<<"binary", op, u, v>>]
               = PrintFormula(u, DoPrintFormula[u], op, ParensLeft) \o <<Symbol(op)>>
                   \o PrintFormula(v, DoPrintFormula[v], op, ParensRight)
<1>. DEFINE Val == Seq(Printed)
            a == [l \in DOMAIN Number |-> <<Numeral(Number[l])>>]
            b == [z \in AddSub \X Formula \X Val |-> <<Symbol(z[1])>> \o PrintFormula(z[2], z[3], "unary", ParensLeft)]
            c == [z \in Operands2(Val) |-> PrintFormula(z[2], z[4], z[1], ParensLeft) \o <<Symbol(z[1])>>
                   \o PrintFormula(z[3], z[5], z[1], ParensRight)]
            Step(f, t) ==
                LET Child(u, parens) == PrintFormula(u, f[u], GetPrecedence(t), parens)
                IN CASE IsAtom(t)  -> <<Numeral(Number[t[2]])>>
                     [] IsUnary(t) -> <<Symbol(t[2])>> \o Child(t[3], ParensLeft)
                     [] OTHER      -> Child(t[3], ParensLeft) \o <<Symbol(t[2])>> \o Child(t[4], ParensRight)
            Eq(f) == f = [t \in Formula |->
                LET Child(u, parens) == PrintFormula(u, f[u], GetPrecedence(t), parens)
                IN CASE IsAtom(t)  -> <<Numeral(Number[t[2]])>>
                     [] IsUnary(t) -> <<Symbol(t[2])>> \o Child(t[3], ParensLeft)
                     [] OTHER      -> Child(t[3], ParensLeft) \o <<Symbol(t[2])>> \o Child(t[4], ParensRight)]
<1>1. ASSUME NEW l \in DOMAIN Number PROVE <<Numeral(Number[l])>> \in Val
      BY NumeralPrinted
<1>2. ASSUME NEW op \in AddSub, NEW u \in Formula, NEW s \in Val
      PROVE  <<Symbol(op)>> \o PrintFormula(u, s, "unary", ParensLeft) \in Val
      <2>1. Symbol(op) \in Printed
            BY SymbolsPrinted DEF AddSub, Operator
      <2>2. PrintFormula(u, s, "unary", ParensLeft) \in Val
            BY PrintFormulaType
      <2>. QED BY ONLY <2>1, <2>2
<1>3. ASSUME NEW op \in Operator, NEW u \in Formula, NEW w \in Formula, NEW s \in Val, NEW r \in Val
      PROVE  PrintFormula(u, s, op, ParensLeft) \o <<Symbol(op)>>
                   \o PrintFormula(w, r, op, ParensRight) \in Val
      <2>1. Symbol(op) \in Printed
            BY SymbolsPrinted
      <2>2. PrintFormula(u, s, op, ParensLeft) \in Val /\ PrintFormula(w, r, op, ParensRight) \in Val
            BY PrintFormulaType
      <2>. QED BY ONLY <2>1, <2>2
<1>4. ASSUME NEW f, NEW l
      PROVE  Step(f, <<"NUMBER", l>>) = <<Numeral(Number[l])>>
      BY ONLY TreeShapes
<1>5. ASSUME NEW f, NEW op, NEW u
      PROVE  Step(f, <<"unary", op, u>>) = <<Symbol(op)>> \o PrintFormula(u, f[u], "unary", ParensLeft)
      BY ONLY TreeShapes
<1>6. ASSUME NEW f, NEW op, NEW u, NEW w
      PROVE  Step(f, <<"binary", op, u, w>>)
                = PrintFormula(u, f[u], op, ParensLeft) \o <<Symbol(op)>>
                   \o PrintFormula(w, f[w], op, ParensRight)
      BY ONLY TreeShapes
<1>. HIDE DEF Val, Step
<1>7. \E v : Eq(v)
      <2>1. a \in [DOMAIN Number -> Val]
            BY <1>1
      <2>2. b \in [AddSub \X Formula \X Val -> Val]
            BY <1>2
      <2>3. c \in [Operands2(Val) -> Val]
            BY <1>3 DEF Operands2
      <2>. HIDE DEF a, b, c
      <2>4. HasValues(Val, a, b, c)
            BY <2>1, <2>2, <2>3, TreeRecursion
      <2>5. PICK v \in [Formula -> Val] : \A t \in Formula : v[t] = ValueBy(v, t, a, b, c)
            BY <2>4 DEF HasValues
      <2>6. ASSUME NEW t \in Formula
            PROVE  v[t] = Step(v, t)
            <3>1. CASE \E l \in DOMAIN Number : t = <<"NUMBER", l>>
                  <4>1. PICK l \in DOMAIN Number : t = <<"NUMBER", l>>
                        BY <3>1
                  <4>2. ValueBy(v, t, a, b, c) = a[l]
                        BY <4>1, TreeShapes DEF ValueBy
                  <4>. QED BY <1>4, <2>5, <4>1, <4>2 DEF a
            <3>2. CASE \E op \in AddSub, u \in Formula : t = <<"unary", op, u>>
                  <4>1. PICK op \in AddSub, u \in Formula : t = <<"unary", op, u>>
                        BY <3>2
                  <4>2. ValueBy(v, t, a, b, c) = b[<<op, u, v[u]>>]
                        BY <4>1, TreeShapes DEF ValueBy
                  <4>3. b[<<op, u, v[u]>>] = <<Symbol(op)>> \o PrintFormula(u, v[u], "unary", ParensLeft)
                        BY DEF b
                  <4>. QED BY <1>5, <2>5, <4>1, <4>2, <4>3
            <3>3. CASE \E op \in Operator, u \in Formula, w \in Formula : t = <<"binary", op, u, w>>
                  <4>1. PICK op \in Operator, u \in Formula, w \in Formula : t = <<"binary", op, u, w>>
                        BY <3>3
                  <4>2. ValueBy(v, t, a, b, c) = c[<<op, u, w, v[u], v[w]>>]
                        BY <4>1, TreeShapes DEF ValueBy
                  <4>3. c[<<op, u, w, v[u], v[w]>>] = PrintFormula(u, v[u], op, ParensLeft) \o <<Symbol(op)>>
                   \o PrintFormula(w, v[w], op, ParensRight)
                        BY DEF c, Operands2
                  <4>4. v[t] = c[<<op, u, w, v[u], v[w]>>]
                        BY <2>5, <4>2
                  <4>5. Step(v, t) = PrintFormula(u, v[u], op, ParensLeft) \o <<Symbol(op)>>
                   \o PrintFormula(w, v[w], op, ParensRight)
                        BY <1>6, <4>1
                  <4>. QED BY ONLY <4>3, <4>4, <4>5
            <3>. QED BY <3>1, <3>2, <3>3, FormulaCases
      <2>. QED BY <2>6 DEF Step
<1>. DEFINE f == CHOOSE f : Eq(f)
<1>8. Eq(f)
      <2>. HIDE DEF Eq
      <2>. QED BY <1>7
<1>9. DoPrintFormula = f
      BY DEF DoPrintFormula
<1>10. f = [t \in Formula |-> Step(f, t)]
       BY <1>8 DEF Step
<1>. HIDE DEF f, Eq
<1>11. \A t \in Formula : f[t] = Step(f, t)
       BY <1>10
<1>12. \A l \in DOMAIN Number : f[<<"NUMBER", l>>] = <<Numeral(Number[l])>>
       BY <1>4, <1>11, NumbersAreTrees
<1>13. ASSUME NEW op \in AddSub, NEW u \in Formula, <<"unary", op, u>> \in Formula
       PROVE  f[<<"unary", op, u>>] = <<Symbol(op)>> \o PrintFormula(u, f[u], "unary", ParensLeft)
       BY <1>5, <1>11, <1>13
<1>14. ASSUME NEW op \in Operator, NEW u \in Formula, NEW w \in Formula, <<"binary", op, u, w>> \in Formula
       PROVE  f[<<"binary", op, u, w>>] = PrintFormula(u, f[u], op, ParensLeft) \o <<Symbol(op)>>
                   \o PrintFormula(w, f[w], op, ParensRight)
       BY <1>6, <1>11, <1>14
<1>15. f \in [Formula -> Val]
       <2>. DEFINE S == {t \in Formula : f[t] \in Val}
       <2>1. \A l \in DOMAIN Number : <<"NUMBER", l>> \in S
             BY <1>1, <1>12, NumbersAreTrees
       <2>2. ASSUME NEW op \in AddSub, NEW u \in S, <<"unary", op, u>> \in Formula
             PROVE  <<"unary", op, u>> \in S
             <3>1. <<Symbol(op)>> \o PrintFormula(u, f[u], "unary", ParensLeft) \in Val
                   BY <1>2
             <3>. QED BY <1>13, <2>2, <3>1
       <2>3. ASSUME NEW op \in Operator, NEW u \in S, NEW w \in S, <<"binary", op, u, w>> \in Formula
             PROVE  <<"binary", op, u, w>> \in S
             <3>1. PrintFormula(u, f[u], op, ParensLeft) \o <<Symbol(op)>>
                   \o PrintFormula(w, f[w], op, ParensRight) \in Val
                   BY <1>3
             <3>. QED BY <1>14, <2>3, <3>1
       <2>4. Formula \subseteq S
             <3>. HIDE DEF S
             <3>. QED BY <2>1, <2>2, <2>3, TreeInduction
       <2>5. \A t \in Formula : f[t] \in Val
             BY <2>4
       <2>6. f = [t \in Formula |-> f[t]]
             BY <1>10, <1>11
       <2>. QED BY ONLY <2>5, <2>6
<1>. QED BY <1>9, <1>12, <1>13, <1>14, <1>15 DEF Val

\* Typed of each kind of tree.
LEMMA TypedUnfolds ==
    /\ Typed \in [Formula -> Seq(Printed)]
    /\ \A l \in DOMAIN Number : Typed[<<"NUMBER", l>>] = <<[kind |-> "NUMBER", chars |-> l]>>
    /\ \A op \in AddSub, u \in Formula :
          <<"unary", op, u>> \in Formula =>
             Typed[<<"unary", op, u>>] = InParens(<<Symbol(op)>> \o Typed[u])
    /\ \A op \in Operator, u \in Formula, v \in Formula :
          <<"binary", op, u, v>> \in Formula =>
             Typed[<<"binary", op, u, v>>]
               = InParens(Typed[u] \o <<Symbol(op)>> \o Typed[v])
<1>. DEFINE Val == Seq(Printed)
            a == [l \in DOMAIN Number |-> <<[kind |-> "NUMBER", chars |-> l]>>]
            b == [z \in AddSub \X Formula \X Val |-> InParens(<<Symbol(z[1])>> \o z[3])]
            c == [z \in Operands2(Val) |-> InParens(z[4] \o <<Symbol(z[1])>> \o z[5])]
            Step(f, t) ==
                CASE IsAtom(t)  -> <<[kind |-> "NUMBER", chars |-> t[2]]>>
                  [] IsUnary(t) -> InParens(<<Symbol(t[2])>> \o f[t[3]])
                  [] OTHER      -> InParens(f[t[3]] \o <<Symbol(t[2])>> \o f[t[4]])
            Eq(f) == f = [t \in Formula |->
                CASE IsAtom(t)  -> <<[kind |-> "NUMBER", chars |-> t[2]]>>
                  [] IsUnary(t) -> InParens(<<Symbol(t[2])>> \o f[t[3]])
                  [] OTHER      -> InParens(f[t[3]] \o <<Symbol(t[2])>> \o f[t[4]])]
<1>1. ASSUME NEW l \in DOMAIN Number PROVE <<[kind |-> "NUMBER", chars |-> l]>> \in Val
      <2>1. [kind |-> "NUMBER", chars |-> l] \in Printed
            BY LiteralPrinted
      <2>. QED BY ONLY <2>1
<1>2. ASSUME NEW op \in AddSub, NEW u \in Formula, NEW s \in Val
      PROVE  InParens(<<Symbol(op)>> \o s) \in Val
      <2>1. Symbol(op) \in Printed
            BY SymbolsPrinted DEF AddSub, Operator
      <2>2. <<Symbol(op)>> \o s \in Seq(Printed)
            BY ONLY <2>1, s \in Val DEF Val
      <2>. QED BY <2>2, InParensType
<1>3. ASSUME NEW op \in Operator, NEW u \in Formula, NEW w \in Formula, NEW s \in Val, NEW r \in Val
      PROVE  InParens(s \o <<Symbol(op)>> \o r) \in Val
      <2>1. Symbol(op) \in Printed
            BY SymbolsPrinted
      <2>2. s \o <<Symbol(op)>> \o r \in Seq(Printed)
            BY ONLY <2>1, s \in Val, r \in Val DEF Val
      <2>. QED BY <2>2, InParensType
<1>4. ASSUME NEW f, NEW l
      PROVE  Step(f, <<"NUMBER", l>>) = <<[kind |-> "NUMBER", chars |-> l]>>
      BY ONLY TreeShapes
<1>5. ASSUME NEW f, NEW op, NEW u
      PROVE  Step(f, <<"unary", op, u>>) = InParens(<<Symbol(op)>> \o f[u])
      BY ONLY TreeShapes
<1>6. ASSUME NEW f, NEW op, NEW u, NEW w
      PROVE  Step(f, <<"binary", op, u, w>>)
                = InParens(f[u] \o <<Symbol(op)>> \o f[w])
      BY ONLY TreeShapes
<1>. HIDE DEF Val, Step
<1>7. \E v : Eq(v)
      <2>1. a \in [DOMAIN Number -> Val]
            BY <1>1
      <2>2. b \in [AddSub \X Formula \X Val -> Val]
            BY <1>2
      <2>3. c \in [Operands2(Val) -> Val]
            BY <1>3 DEF Operands2
      <2>. HIDE DEF a, b, c
      <2>4. HasValues(Val, a, b, c)
            BY <2>1, <2>2, <2>3, TreeRecursion
      <2>5. PICK v \in [Formula -> Val] : \A t \in Formula : v[t] = ValueBy(v, t, a, b, c)
            BY <2>4 DEF HasValues
      <2>6. ASSUME NEW t \in Formula
            PROVE  v[t] = Step(v, t)
            <3>1. CASE \E l \in DOMAIN Number : t = <<"NUMBER", l>>
                  <4>1. PICK l \in DOMAIN Number : t = <<"NUMBER", l>>
                        BY <3>1
                  <4>2. ValueBy(v, t, a, b, c) = a[l]
                        BY <4>1, TreeShapes DEF ValueBy
                  <4>. QED BY <1>4, <2>5, <4>1, <4>2 DEF a
            <3>2. CASE \E op \in AddSub, u \in Formula : t = <<"unary", op, u>>
                  <4>1. PICK op \in AddSub, u \in Formula : t = <<"unary", op, u>>
                        BY <3>2
                  <4>2. ValueBy(v, t, a, b, c) = b[<<op, u, v[u]>>]
                        BY <4>1, TreeShapes DEF ValueBy
                  <4>3. b[<<op, u, v[u]>>] = InParens(<<Symbol(op)>> \o v[u])
                        BY DEF b
                  <4>. QED BY <1>5, <2>5, <4>1, <4>2, <4>3
            <3>3. CASE \E op \in Operator, u \in Formula, w \in Formula : t = <<"binary", op, u, w>>
                  <4>1. PICK op \in Operator, u \in Formula, w \in Formula : t = <<"binary", op, u, w>>
                        BY <3>3
                  <4>2. ValueBy(v, t, a, b, c) = c[<<op, u, w, v[u], v[w]>>]
                        BY <4>1, TreeShapes DEF ValueBy
                  <4>3. c[<<op, u, w, v[u], v[w]>>] = InParens(v[u] \o <<Symbol(op)>> \o v[w])
                        BY DEF c, Operands2
                  <4>4. v[t] = c[<<op, u, w, v[u], v[w]>>]
                        BY <2>5, <4>2
                  <4>5. Step(v, t) = InParens(v[u] \o <<Symbol(op)>> \o v[w])
                        BY <1>6, <4>1
                  <4>. QED BY ONLY <4>3, <4>4, <4>5
            <3>. QED BY <3>1, <3>2, <3>3, FormulaCases
      <2>. QED BY <2>6 DEF Step
<1>. DEFINE f == CHOOSE f : Eq(f)
<1>8. Eq(f)
      <2>. HIDE DEF Eq
      <2>. QED BY <1>7
<1>9. Typed = f
      BY DEF Typed
<1>10. f = [t \in Formula |-> Step(f, t)]
       BY <1>8 DEF Step
<1>. HIDE DEF f, Eq
<1>11. \A t \in Formula : f[t] = Step(f, t)
       BY <1>10
<1>12. \A l \in DOMAIN Number : f[<<"NUMBER", l>>] = <<[kind |-> "NUMBER", chars |-> l]>>
       BY <1>4, <1>11, NumbersAreTrees
<1>13. ASSUME NEW op \in AddSub, NEW u \in Formula, <<"unary", op, u>> \in Formula
       PROVE  f[<<"unary", op, u>>] = InParens(<<Symbol(op)>> \o f[u])
       BY <1>5, <1>11, <1>13
<1>14. ASSUME NEW op \in Operator, NEW u \in Formula, NEW w \in Formula, <<"binary", op, u, w>> \in Formula
       PROVE  f[<<"binary", op, u, w>>] = InParens(f[u] \o <<Symbol(op)>> \o f[w])
       BY <1>6, <1>11, <1>14
<1>15. f \in [Formula -> Val]
       <2>. DEFINE S == {t \in Formula : f[t] \in Val}
       <2>1. \A l \in DOMAIN Number : <<"NUMBER", l>> \in S
             BY <1>1, <1>12, NumbersAreTrees
       <2>2. ASSUME NEW op \in AddSub, NEW u \in S, <<"unary", op, u>> \in Formula
             PROVE  <<"unary", op, u>> \in S
             <3>1. InParens(<<Symbol(op)>> \o f[u]) \in Val
                   BY <1>2
             <3>. QED BY <1>13, <2>2, <3>1
       <2>3. ASSUME NEW op \in Operator, NEW u \in S, NEW w \in S, <<"binary", op, u, w>> \in Formula
             PROVE  <<"binary", op, u, w>> \in S
             <3>1. InParens(f[u] \o <<Symbol(op)>> \o f[w]) \in Val
                   BY <1>3
             <3>. QED BY <1>14, <2>3, <3>1
       <2>4. Formula \subseteq S
             <3>. HIDE DEF S
             <3>. QED BY <2>1, <2>2, <2>3, TreeInduction
       <2>5. \A t \in Formula : f[t] \in Val
             BY <2>4
       <2>6. f = [t \in Formula |-> f[t]]
             BY <1>10, <1>11
       <2>. QED BY ONLY <2>5, <2>6
<1>. QED BY <1>9, <1>12, <1>13, <1>14, <1>15 DEF Val

\* The values of trees: fractions, and the error.
Value == {Arithmetic} \cup (Int \X (Int \ {0}))

\* A denominator is never zero; Z3 has no such fact of products.
LEMMA ProductNotZero == \A i \in Int \ {0}, j \in Int \ {0} : i * j \in Int \ {0}
OBVIOUS

\* The operations give fractions of fractions.
LEMMA FractionType ==
    ASSUME NEW op \in Operator, NEW x \in Value, NEW y \in Value
    PROVE  Fraction(op, x, y) \in Value
<1>1. CASE x = Arithmetic \/ y = Arithmetic
      BY <1>1 DEF Fraction, Value
<1>2. CASE ~(x = Arithmetic \/ y = Arithmetic)
      <2>1. PICK n \in Int, d \in Int \ {0} : x = <<n, d>>
            BY <1>2 DEF Value
      <2>2. PICK m \in Int, e \in Int \ {0} : y = <<m, e>>
            BY <1>2 DEF Value
      <2>3. d * e \in Int \ {0} /\ (m # 0 => d * m \in Int \ {0})
            BY ProductNotZero
      <2>4. CASE op = "+"
            BY <1>2, <2>1, <2>2, <2>3, <2>4 DEF Fraction, Value
      <2>5. CASE op = "-"
            BY <1>2, <2>1, <2>2, <2>3, <2>5 DEF Fraction, Value
      <2>6. CASE op = "*"
            BY <1>2, <2>1, <2>2, <2>3, <2>6 DEF Fraction, Value
      <2>7. CASE op = "/"
            BY <1>2, <2>1, <2>2, <2>3, <2>7 DEF Fraction, Value
      <2>. QED BY <2>4, <2>5, <2>6, <2>7 DEF Operator
<1>. QED BY <1>1, <1>2

\* The trees, and what is made of two.
AnyTree == Formula \cup ({"unary"} \X AddSub \X Formula) \cup ({"binary"} \X Operator \X Formula \X Formula)

\* Evaluate of each kind of tree.
LEMMA EvaluateUnfolds ==
    /\ Evaluate \in [Formula -> Value]
    /\ \A l \in DOMAIN Number : Evaluate[<<"NUMBER", l>>] = <<Number[l], 1>>
    /\ \A op \in AddSub, u \in Formula :
          <<"unary", op, u>> \in Formula =>
             Evaluate[<<"unary", op, u>>] = Fraction(op, <<0, 1>>, Evaluate[u])
    /\ \A op \in Operator, u \in Formula, v \in Formula :
          <<"binary", op, u, v>> \in Formula =>
             Evaluate[<<"binary", op, u, v>>]
               = Fraction(op, Evaluate[u], Evaluate[v])
<1>. DEFINE Val == Value
            a == [l \in DOMAIN Number |-> <<Number[l], 1>>]
            b == [z \in AddSub \X Formula \X Val |-> Fraction(z[1], <<0, 1>>, z[3])]
            c == [z \in Operands2(Val) |-> Fraction(z[1], z[4], z[5])]
            Step(f, t) ==
                CASE IsAtom(t)  -> <<Number[t[2]], 1>>
                  [] IsUnary(t) -> Fraction(t[2], <<0, 1>>, f[t[3]])
                  [] OTHER      -> Fraction(t[2], f[t[3]], f[t[4]])
            Eq(f) == f = [t \in Formula |->
                CASE IsAtom(t)  -> <<Number[t[2]], 1>>
                  [] IsUnary(t) -> Fraction(t[2], <<0, 1>>, f[t[3]])
                  [] OTHER      -> Fraction(t[2], f[t[3]], f[t[4]])]
<1>1. ASSUME NEW l \in DOMAIN Number PROVE <<Number[l], 1>> \in Val
      <2>1. Number[l] \in Int
            BY LiteralsAssumption
      <2>. QED BY <2>1 DEF Value
<1>2. ASSUME NEW op \in AddSub, NEW u \in Formula, NEW s \in Val
      PROVE  Fraction(op, <<0, 1>>, s) \in Val
      <2>1. <<0, 1>> \in Value /\ op \in Operator
            BY DEF Value, AddSub, Operator
      <2>. QED BY <2>1, FractionType
<1>3. ASSUME NEW op \in Operator, NEW u \in Formula, NEW w \in Formula, NEW s \in Val, NEW r \in Val
      PROVE  Fraction(op, s, r) \in Val
      BY FractionType
<1>4. ASSUME NEW f, NEW l
      PROVE  Step(f, <<"NUMBER", l>>) = <<Number[l], 1>>
      BY ONLY TreeShapes
<1>5. ASSUME NEW f, NEW op, NEW u
      PROVE  Step(f, <<"unary", op, u>>) = Fraction(op, <<0, 1>>, f[u])
      BY ONLY TreeShapes
<1>6. ASSUME NEW f, NEW op, NEW u, NEW w
      PROVE  Step(f, <<"binary", op, u, w>>)
                = Fraction(op, f[u], f[w])
      BY ONLY TreeShapes
<1>. HIDE DEF Val, Step
<1>7. \E v : Eq(v)
      <2>1. a \in [DOMAIN Number -> Val]
            BY <1>1
      <2>2. b \in [AddSub \X Formula \X Val -> Val]
            BY <1>2
      <2>3. c \in [Operands2(Val) -> Val]
            BY <1>3 DEF Operands2
      <2>. HIDE DEF a, b, c
      <2>4. HasValues(Val, a, b, c)
            BY <2>1, <2>2, <2>3, TreeRecursion
      <2>5. PICK v \in [Formula -> Val] : \A t \in Formula : v[t] = ValueBy(v, t, a, b, c)
            BY <2>4 DEF HasValues
      <2>6. ASSUME NEW t \in Formula
            PROVE  v[t] = Step(v, t)
            <3>1. CASE \E l \in DOMAIN Number : t = <<"NUMBER", l>>
                  <4>1. PICK l \in DOMAIN Number : t = <<"NUMBER", l>>
                        BY <3>1
                  <4>2. ValueBy(v, t, a, b, c) = a[l]
                        BY <4>1, TreeShapes DEF ValueBy
                  <4>. QED BY <1>4, <2>5, <4>1, <4>2 DEF a
            <3>2. CASE \E op \in AddSub, u \in Formula : t = <<"unary", op, u>>
                  <4>1. PICK op \in AddSub, u \in Formula : t = <<"unary", op, u>>
                        BY <3>2
                  <4>2. ValueBy(v, t, a, b, c) = b[<<op, u, v[u]>>]
                        BY <4>1, TreeShapes DEF ValueBy
                  <4>3. b[<<op, u, v[u]>>] = Fraction(op, <<0, 1>>, v[u])
                        BY DEF b
                  <4>. QED BY <1>5, <2>5, <4>1, <4>2, <4>3
            <3>3. CASE \E op \in Operator, u \in Formula, w \in Formula : t = <<"binary", op, u, w>>
                  <4>1. PICK op \in Operator, u \in Formula, w \in Formula : t = <<"binary", op, u, w>>
                        BY <3>3
                  <4>2. ValueBy(v, t, a, b, c) = c[<<op, u, w, v[u], v[w]>>]
                        BY <4>1, TreeShapes DEF ValueBy
                  <4>3. c[<<op, u, w, v[u], v[w]>>] = Fraction(op, v[u], v[w])
                        BY DEF c, Operands2
                  <4>4. v[t] = c[<<op, u, w, v[u], v[w]>>]
                        BY <2>5, <4>2
                  <4>5. Step(v, t) = Fraction(op, v[u], v[w])
                        BY <1>6, <4>1
                  <4>. QED BY ONLY <4>3, <4>4, <4>5
            <3>. QED BY <3>1, <3>2, <3>3, FormulaCases
      <2>. QED BY <2>6 DEF Step
<1>. DEFINE f == CHOOSE f : Eq(f)
<1>8. Eq(f)
      <2>. HIDE DEF Eq
      <2>. QED BY <1>7
<1>9. Evaluate = f
      BY DEF Evaluate
<1>10. f = [t \in Formula |-> Step(f, t)]
       BY <1>8 DEF Step
<1>. HIDE DEF f, Eq
<1>11. \A t \in Formula : f[t] = Step(f, t)
       BY <1>10
<1>12. \A l \in DOMAIN Number : f[<<"NUMBER", l>>] = <<Number[l], 1>>
       BY <1>4, <1>11, NumbersAreTrees
<1>13. ASSUME NEW op \in AddSub, NEW u \in Formula, <<"unary", op, u>> \in Formula
       PROVE  f[<<"unary", op, u>>] = Fraction(op, <<0, 1>>, f[u])
       BY <1>5, <1>11, <1>13
<1>14. ASSUME NEW op \in Operator, NEW u \in Formula, NEW w \in Formula, <<"binary", op, u, w>> \in Formula
       PROVE  f[<<"binary", op, u, w>>] = Fraction(op, f[u], f[w])
       BY <1>6, <1>11, <1>14
<1>15. f \in [Formula -> Val]
       <2>. DEFINE S == {t \in Formula : f[t] \in Val}
       <2>1. \A l \in DOMAIN Number : <<"NUMBER", l>> \in S
             BY <1>1, <1>12, NumbersAreTrees
       <2>2. ASSUME NEW op \in AddSub, NEW u \in S, <<"unary", op, u>> \in Formula
             PROVE  <<"unary", op, u>> \in S
             <3>1. Fraction(op, <<0, 1>>, f[u]) \in Val
                   BY <1>2
             <3>. QED BY <1>13, <2>2, <3>1
       <2>3. ASSUME NEW op \in Operator, NEW u \in S, NEW w \in S, <<"binary", op, u, w>> \in Formula
             PROVE  <<"binary", op, u, w>> \in S
             <3>1. Fraction(op, f[u], f[w]) \in Val
                   BY <1>3
             <3>. QED BY <1>14, <2>3, <3>1
       <2>4. Formula \subseteq S
             <3>. HIDE DEF S
             <3>. QED BY <2>1, <2>2, <2>3, TreeInduction
       <2>5. \A t \in Formula : f[t] \in Val
             BY <2>4
       <2>6. f = [t \in Formula |-> f[t]]
             BY <1>10, <1>11
       <2>. QED BY ONLY <2>5, <2>6
<1>. QED BY <1>9, <1>12, <1>13, <1>14, <1>15 DEF Val

\* Parts of each kind of tree.
LEMMA PartsUnfold ==
    /\ Parts \in [Formula -> (SUBSET AnyTree)]
    /\ \A l \in DOMAIN Number : Parts[<<"NUMBER", l>>] = {<<"NUMBER", l>>}
    /\ \A op \in AddSub, u \in Formula :
          <<"unary", op, u>> \in Formula =>
             Parts[<<"unary", op, u>>] = {<<"unary", op, u>>} \cup Parts[u]
    /\ \A op \in Operator, u \in Formula, v \in Formula :
          <<"binary", op, u, v>> \in Formula =>
             Parts[<<"binary", op, u, v>>]
               = {<<"binary", op, u, v>>} \cup Parts[u] \cup Parts[v]
<1>. DEFINE Val == (SUBSET AnyTree)
            a == [l \in DOMAIN Number |-> {<<"NUMBER", l>>}]
            b == [z \in AddSub \X Formula \X Val |-> {<<"unary", z[1], z[2]>>} \cup z[3]]
            c == [z \in Operands2(Val) |-> {<<"binary", z[1], z[2], z[3]>>} \cup z[4] \cup z[5]]
            Step(f, t) ==
                {t} \cup CASE IsAtom(t)  -> {}
                           [] IsUnary(t) -> f[t[3]]
                           [] OTHER      -> f[t[3]] \cup f[t[4]]
            Eq(f) == f = [t \in Formula |->
                {t} \cup CASE IsAtom(t)  -> {}
                           [] IsUnary(t) -> f[t[3]]
                           [] OTHER      -> f[t[3]] \cup f[t[4]]]
<1>1. ASSUME NEW l \in DOMAIN Number PROVE {<<"NUMBER", l>>} \in Val
      BY NumbersAreTrees DEF AnyTree
<1>2. ASSUME NEW op \in AddSub, NEW u \in Formula, NEW s \in Val
      PROVE  {<<"unary", op, u>>} \cup s \in Val
      BY DEF AnyTree, Val
<1>3. ASSUME NEW op \in Operator, NEW u \in Formula, NEW w \in Formula, NEW s \in Val, NEW r \in Val
      PROVE  {<<"binary", op, u, w>>} \cup s \cup r \in Val
      BY DEF AnyTree, Val
<1>4. ASSUME NEW f, NEW l
      PROVE  Step(f, <<"NUMBER", l>>) = {<<"NUMBER", l>>}
      BY ONLY TreeShapes
<1>5. ASSUME NEW f, NEW op, NEW u
      PROVE  Step(f, <<"unary", op, u>>) = {<<"unary", op, u>>} \cup f[u]
      BY ONLY TreeShapes
<1>6. ASSUME NEW f, NEW op, NEW u, NEW w
      PROVE  Step(f, <<"binary", op, u, w>>)
                = {<<"binary", op, u, w>>} \cup f[u] \cup f[w]
      BY ONLY TreeShapes
<1>. HIDE DEF Val, Step
<1>7. \E v : Eq(v)
      <2>1. a \in [DOMAIN Number -> Val]
            BY <1>1
      <2>2. b \in [AddSub \X Formula \X Val -> Val]
            BY <1>2
      <2>3. c \in [Operands2(Val) -> Val]
            BY <1>3 DEF Operands2
      <2>. HIDE DEF a, b, c
      <2>4. HasValues(Val, a, b, c)
            BY <2>1, <2>2, <2>3, TreeRecursion
      <2>5. PICK v \in [Formula -> Val] : \A t \in Formula : v[t] = ValueBy(v, t, a, b, c)
            BY <2>4 DEF HasValues
      <2>6. ASSUME NEW t \in Formula
            PROVE  v[t] = Step(v, t)
            <3>1. CASE \E l \in DOMAIN Number : t = <<"NUMBER", l>>
                  <4>1. PICK l \in DOMAIN Number : t = <<"NUMBER", l>>
                        BY <3>1
                  <4>2. ValueBy(v, t, a, b, c) = a[l]
                        BY <4>1, TreeShapes DEF ValueBy
                  <4>. QED BY <1>4, <2>5, <4>1, <4>2 DEF a
            <3>2. CASE \E op \in AddSub, u \in Formula : t = <<"unary", op, u>>
                  <4>1. PICK op \in AddSub, u \in Formula : t = <<"unary", op, u>>
                        BY <3>2
                  <4>2. ValueBy(v, t, a, b, c) = b[<<op, u, v[u]>>]
                        BY <4>1, TreeShapes DEF ValueBy
                  <4>3. b[<<op, u, v[u]>>] = {<<"unary", op, u>>} \cup v[u]
                        BY DEF b
                  <4>. QED BY <1>5, <2>5, <4>1, <4>2, <4>3
            <3>3. CASE \E op \in Operator, u \in Formula, w \in Formula : t = <<"binary", op, u, w>>
                  <4>1. PICK op \in Operator, u \in Formula, w \in Formula : t = <<"binary", op, u, w>>
                        BY <3>3
                  <4>2. ValueBy(v, t, a, b, c) = c[<<op, u, w, v[u], v[w]>>]
                        BY <4>1, TreeShapes DEF ValueBy
                  <4>3. c[<<op, u, w, v[u], v[w]>>] = {<<"binary", op, u, w>>} \cup v[u] \cup v[w]
                        BY DEF c, Operands2
                  <4>4. v[t] = c[<<op, u, w, v[u], v[w]>>]
                        BY <2>5, <4>2
                  <4>5. Step(v, t) = {<<"binary", op, u, w>>} \cup v[u] \cup v[w]
                        BY <1>6, <4>1
                  <4>. QED BY ONLY <4>3, <4>4, <4>5
            <3>. QED BY <3>1, <3>2, <3>3, FormulaCases
      <2>. QED BY <2>6 DEF Step
<1>. DEFINE f == CHOOSE f : Eq(f)
<1>8. Eq(f)
      <2>. HIDE DEF Eq
      <2>. QED BY <1>7
<1>9. Parts = f
      BY DEF Parts
<1>10. f = [t \in Formula |-> Step(f, t)]
       BY <1>8 DEF Step
<1>. HIDE DEF f, Eq
<1>11. \A t \in Formula : f[t] = Step(f, t)
       BY <1>10
<1>12. \A l \in DOMAIN Number : f[<<"NUMBER", l>>] = {<<"NUMBER", l>>}
       BY <1>4, <1>11, NumbersAreTrees
<1>13. ASSUME NEW op \in AddSub, NEW u \in Formula, <<"unary", op, u>> \in Formula
       PROVE  f[<<"unary", op, u>>] = {<<"unary", op, u>>} \cup f[u]
       BY <1>5, <1>11, <1>13
<1>14. ASSUME NEW op \in Operator, NEW u \in Formula, NEW w \in Formula, <<"binary", op, u, w>> \in Formula
       PROVE  f[<<"binary", op, u, w>>] = {<<"binary", op, u, w>>} \cup f[u] \cup f[w]
       BY <1>6, <1>11, <1>14
<1>15. f \in [Formula -> Val]
       <2>. DEFINE S == {t \in Formula : f[t] \in Val}
       <2>1. \A l \in DOMAIN Number : <<"NUMBER", l>> \in S
             BY <1>1, <1>12, NumbersAreTrees
       <2>2. ASSUME NEW op \in AddSub, NEW u \in S, <<"unary", op, u>> \in Formula
             PROVE  <<"unary", op, u>> \in S
             <3>1. {<<"unary", op, u>>} \cup f[u] \in Val
                   BY <1>2
             <3>. QED BY <1>13, <2>2, <3>1
       <2>3. ASSUME NEW op \in Operator, NEW u \in S, NEW w \in S, <<"binary", op, u, w>> \in Formula
             PROVE  <<"binary", op, u, w>> \in S
             <3>1. {<<"binary", op, u, w>>} \cup f[u] \cup f[w] \in Val
                   BY <1>3
             <3>. QED BY <1>14, <2>3, <3>1
       <2>4. Formula \subseteq S
             <3>. HIDE DEF S
             <3>. QED BY <2>1, <2>2, <2>3, TreeInduction
       <2>5. \A t \in Formula : f[t] \in Val
             BY <2>4
       <2>6. f = [t \in Formula |-> f[t]]
             BY <1>10, <1>11
       <2>. QED BY ONLY <2>5, <2>6
<1>. QED BY <1>9, <1>12, <1>13, <1>14, <1>15 DEF Val

\* Unsigned of each kind of tree.
LEMMA UnsignedUnfolds ==
    /\ Unsigned \in [Formula -> AnyTree]
    /\ \A l \in DOMAIN Number : Unsigned[<<"NUMBER", l>>] = <<"NUMBER", l>>
    /\ \A op \in AddSub, u \in Formula :
          <<"unary", op, u>> \in Formula =>
             Unsigned[<<"unary", op, u>>] = Unsigned[u]
    /\ \A op \in Operator, u \in Formula, v \in Formula :
          <<"binary", op, u, v>> \in Formula =>
             Unsigned[<<"binary", op, u, v>>]
               = <<"binary", op, u, v>>
<1>. DEFINE Val == AnyTree
            a == [l \in DOMAIN Number |-> <<"NUMBER", l>>]
            b == [z \in AddSub \X Formula \X Val |-> z[3]]
            c == [z \in Operands2(Val) |-> <<"binary", z[1], z[2], z[3]>>]
            Step(f, t) ==
                IF IsUnary(t) THEN f[t[3]] ELSE t
            Eq(f) == f = [t \in Formula |->
                IF IsUnary(t) THEN f[t[3]] ELSE t]
<1>1. ASSUME NEW l \in DOMAIN Number PROVE <<"NUMBER", l>> \in Val
      BY NumbersAreTrees DEF AnyTree
<1>2. ASSUME NEW op \in AddSub, NEW u \in Formula, NEW s \in Val
      PROVE  s \in Val
      OBVIOUS
<1>3. ASSUME NEW op \in Operator, NEW u \in Formula, NEW w \in Formula, NEW s \in Val, NEW r \in Val
      PROVE  <<"binary", op, u, w>> \in Val
      BY DEF AnyTree
<1>4. ASSUME NEW f, NEW l
      PROVE  Step(f, <<"NUMBER", l>>) = <<"NUMBER", l>>
      BY ONLY TreeShapes
<1>5. ASSUME NEW f, NEW op, NEW u
      PROVE  Step(f, <<"unary", op, u>>) = f[u]
      BY ONLY TreeShapes
<1>6. ASSUME NEW f, NEW op, NEW u, NEW w
      PROVE  Step(f, <<"binary", op, u, w>>)
                = <<"binary", op, u, w>>
      BY ONLY TreeShapes
<1>. HIDE DEF Val, Step
<1>7. \E v : Eq(v)
      <2>1. a \in [DOMAIN Number -> Val]
            BY <1>1
      <2>2. b \in [AddSub \X Formula \X Val -> Val]
            BY <1>2
      <2>3. c \in [Operands2(Val) -> Val]
            BY <1>3 DEF Operands2
      <2>. HIDE DEF a, b, c
      <2>4. HasValues(Val, a, b, c)
            BY <2>1, <2>2, <2>3, TreeRecursion
      <2>5. PICK v \in [Formula -> Val] : \A t \in Formula : v[t] = ValueBy(v, t, a, b, c)
            BY <2>4 DEF HasValues
      <2>6. ASSUME NEW t \in Formula
            PROVE  v[t] = Step(v, t)
            <3>1. CASE \E l \in DOMAIN Number : t = <<"NUMBER", l>>
                  <4>1. PICK l \in DOMAIN Number : t = <<"NUMBER", l>>
                        BY <3>1
                  <4>2. ValueBy(v, t, a, b, c) = a[l]
                        BY <4>1, TreeShapes DEF ValueBy
                  <4>. QED BY <1>4, <2>5, <4>1, <4>2 DEF a
            <3>2. CASE \E op \in AddSub, u \in Formula : t = <<"unary", op, u>>
                  <4>1. PICK op \in AddSub, u \in Formula : t = <<"unary", op, u>>
                        BY <3>2
                  <4>2. ValueBy(v, t, a, b, c) = b[<<op, u, v[u]>>]
                        BY <4>1, TreeShapes DEF ValueBy
                  <4>3. b[<<op, u, v[u]>>] = v[u]
                        BY DEF b
                  <4>. QED BY <1>5, <2>5, <4>1, <4>2, <4>3
            <3>3. CASE \E op \in Operator, u \in Formula, w \in Formula : t = <<"binary", op, u, w>>
                  <4>1. PICK op \in Operator, u \in Formula, w \in Formula : t = <<"binary", op, u, w>>
                        BY <3>3
                  <4>2. ValueBy(v, t, a, b, c) = c[<<op, u, w, v[u], v[w]>>]
                        BY <4>1, TreeShapes DEF ValueBy
                  <4>3. c[<<op, u, w, v[u], v[w]>>] = <<"binary", op, u, w>>
                        BY DEF c, Operands2
                  <4>4. v[t] = c[<<op, u, w, v[u], v[w]>>]
                        BY <2>5, <4>2
                  <4>5. Step(v, t) = <<"binary", op, u, w>>
                        BY <1>6, <4>1
                  <4>. QED BY ONLY <4>3, <4>4, <4>5
            <3>. QED BY <3>1, <3>2, <3>3, FormulaCases
      <2>. QED BY <2>6 DEF Step
<1>. DEFINE f == CHOOSE f : Eq(f)
<1>8. Eq(f)
      <2>. HIDE DEF Eq
      <2>. QED BY <1>7
<1>9. Unsigned = f
      BY DEF Unsigned
<1>10. f = [t \in Formula |-> Step(f, t)]
       BY <1>8 DEF Step
<1>. HIDE DEF f, Eq
<1>11. \A t \in Formula : f[t] = Step(f, t)
       BY <1>10
<1>12. \A l \in DOMAIN Number : f[<<"NUMBER", l>>] = <<"NUMBER", l>>
       BY <1>4, <1>11, NumbersAreTrees
<1>13. ASSUME NEW op \in AddSub, NEW u \in Formula, <<"unary", op, u>> \in Formula
       PROVE  f[<<"unary", op, u>>] = f[u]
       BY <1>5, <1>11, <1>13
<1>14. ASSUME NEW op \in Operator, NEW u \in Formula, NEW w \in Formula, <<"binary", op, u, w>> \in Formula
       PROVE  f[<<"binary", op, u, w>>] = <<"binary", op, u, w>>
       BY <1>6, <1>11, <1>14
<1>15. f \in [Formula -> Val]
       <2>. DEFINE S == {t \in Formula : f[t] \in Val}
       <2>1. \A l \in DOMAIN Number : <<"NUMBER", l>> \in S
             BY <1>1, <1>12, NumbersAreTrees
       <2>2. ASSUME NEW op \in AddSub, NEW u \in S, <<"unary", op, u>> \in Formula
             PROVE  <<"unary", op, u>> \in S
             <3>1. f[u] \in Val
                   BY <1>2
             <3>. QED BY <1>13, <2>2, <3>1
       <2>3. ASSUME NEW op \in Operator, NEW u \in S, NEW w \in S, <<"binary", op, u, w>> \in Formula
             PROVE  <<"binary", op, u, w>> \in S
             <3>1. <<"binary", op, u, w>> \in Val
                   BY <1>3
             <3>. QED BY <1>14, <2>3, <3>1
       <2>4. Formula \subseteq S
             <3>. HIDE DEF S
             <3>. QED BY <2>1, <2>2, <2>3, TreeInduction
       <2>5. \A t \in Formula : f[t] \in Val
             BY <2>4
       <2>6. f = [t \in Formula |-> f[t]]
             BY <1>10, <1>11
       <2>. QED BY ONLY <2>5, <2>6
<1>. QED BY <1>9, <1>12, <1>13, <1>14, <1>15 DEF Val

---------------------------------------------------------------------------
(***************************************************************************)
(* The texts of operands.                                                  *)
(***************************************************************************)

\* The priority of what is at the root of t.
Rank(t) == IF IsAtom(t) THEN 6 ELSE IF IsUnary(t) THEN 5 ELSE Priority(t[2])

\* The priority of each kind of tree.
LEMMA Ranks ==
    /\ \A l : Rank(<<"NUMBER", l>>) = 6
    /\ \A op, u : Rank(<<"unary", op, u>>) = 5
    /\ \A op, u, v : Rank(<<"binary", op, u, v>>) = Priority(op)
    /\ \A t : Rank(t) \in 3..6
    /\ \A op : Priority(op) \in 3..4
BY TreeShapes DEF Rank, Priority

\* PRECEDENCE_RULES in terms of priorities: an operand has parentheses where it binds
\* less than its operator, and on the right of - and / also where it binds the same.
LEMMA ParensByRank ==
    ASSUME NEW u \in Formula
    PROVE  /\ <<"unary", GetPrecedence(u)>> \in ParensLeft <=> Rank(u) = 3
           /\ <<"atom", GetPrecedence(u)>> \notin ParensLeft
           /\ \A op \in Operator : <<op, GetPrecedence(u)>> \in ParensLeft <=> Rank(u) < Priority(op)
           /\ \A op \in Operator :
                 <<op, GetPrecedence(u)>> \in ParensRight
                    <=> Rank(u) < Priority(op) \/ (Rank(u) = Priority(op) /\ op \in {"-", "/"})
<1>1. \/ GetPrecedence(u) = "atom" /\ Rank(u) = 6
      \/ GetPrecedence(u) = "unary" /\ Rank(u) = 5
      \/ GetPrecedence(u) \in AddSub /\ Rank(u) = 3
      \/ GetPrecedence(u) \in MulDiv /\ Rank(u) = 4
      <2>1. CASE \E l \in DOMAIN Number : u = <<"NUMBER", l>>
            BY <2>1, TreeShapes, Ranks
      <2>2. CASE \E op \in AddSub, v \in Formula : u = <<"unary", op, v>>
            BY <2>2, TreeShapes, Ranks
      <2>3. CASE \E op \in Operator, v \in Formula, w \in Formula : u = <<"binary", op, v, w>>
            <3>1. PICK op \in Operator, v \in Formula, w \in Formula : u = <<"binary", op, v, w>>
                  BY <2>3
            <3>2. GetPrecedence(u) = op /\ Rank(u) = Priority(op)
                  BY <3>1, TreeShapes, Ranks
            <3>3. \/ op \in AddSub /\ Priority(op) = 3
                  \/ op \in MulDiv /\ Priority(op) = 4
                  BY DEF Operator, AddSub, MulDiv, Priority
            <3>. QED BY <3>2, <3>3
      <2>. QED BY <2>1, <2>2, <2>3, FormulaCases
<1>. DEFINE g == GetPrecedence(u)
            r == Rank(u)
<1>. HIDE DEF g, r
<1>2. (g \in {"+", "-"} /\ r = 3) \/ (g \in {"*", "/"} /\ r = 4) \/ (g \notin {"+", "-", "*", "/"} /\ r \in {5, 6})
      BY <1>1 DEF AddSub, MulDiv, g, r
<1>3. \A op \in {"+", "-", "*", "/", "unary", "atom"} :
          <<op, g>> \in ParensLeft <=> op \in {"*", "/", "unary"} /\ g \in {"+", "-"}
      BY DEF ParensLeft
<1>4. \A op \in {"+", "-", "*", "/"} :
          <<op, g>> \in ParensRight <=> \/ op \in {"*", "/", "-"} /\ g \in {"+", "-"}
                                        \/ op = "/" /\ g \in {"*", "/"}
      BY DEF ParensRight, ParensLeft
<1>5. Priority("+") = 3 /\ Priority("-") = 3 /\ Priority("*") = 4 /\ Priority("/") = 4
      BY DEF Priority, AddSub
<1>6. (<<"unary", g>> \in ParensLeft <=> r = 3) /\ <<"atom", g>> \notin ParensLeft
      BY <1>2, <1>3
<1>7. \A op \in Operator : <<op, g>> \in ParensLeft <=> r < Priority(op)
      BY <1>2, <1>3, <1>5 DEF Operator
<1>8. \A op \in Operator : <<op, g>> \in ParensRight <=> r < Priority(op) \/ (r = Priority(op) /\ op \in {"-", "/"})
      BY <1>2, <1>4, <1>5 DEF Operator
<1>. QED BY <1>6, <1>7, <1>8 DEF g, r

\* What is printed of an operand.
SignText(u)      == PrintFormula(u, DoPrintFormula[u], "unary", ParensLeft)
LeftText(op, u)  == PrintFormula(u, DoPrintFormula[u], op, ParensLeft)
RightText(op, u) == PrintFormula(u, DoPrintFormula[u], op, ParensRight)

\* When each operand has parentheses.
LEMMA OperandTexts ==
    ASSUME NEW u \in Formula
    PROVE  /\ GetExpression(u) = DoPrintFormula[u]
           /\ DoPrintFormula[u] \in Seq(Printed)
           /\ SignText(u) \in Seq(Printed)
           /\ SignText(u) = IF Rank(u) = 3 THEN InParens(DoPrintFormula[u]) ELSE DoPrintFormula[u]
           /\ \A op \in Operator :
                 /\ LeftText(op, u) \in Seq(Printed) /\ RightText(op, u) \in Seq(Printed)
                 /\ Rank(u) >= Priority(op) => LeftText(op, u) = DoPrintFormula[u]
                 /\ Rank(u) < Priority(op) => /\ LeftText(op, u) = InParens(DoPrintFormula[u])
                                              /\ RightText(op, u) = InParens(DoPrintFormula[u])
                 /\ Rank(u) > Priority(op) => RightText(op, u) = DoPrintFormula[u]
                 /\ Rank(u) = Priority(op) /\ op \in {"-", "/"} => RightText(op, u) = InParens(DoPrintFormula[u])
<1>1. DoPrintFormula[u] \in Seq(Printed)
      BY PrintUnfolds
<1>2. InParens(DoPrintFormula[u]) \in Seq(Printed)
      BY <1>1, InParensType
<1>3. GetExpression(u) = DoPrintFormula[u]
      BY ParensByRank DEF GetExpression, PrintFormula
<1>4. SignText(u) = IF Rank(u) = 3 THEN InParens(DoPrintFormula[u]) ELSE DoPrintFormula[u]
      BY ParensByRank DEF SignText, PrintFormula
<1>5. ASSUME NEW op \in Operator
      PROVE  /\ LeftText(op, u) = IF Rank(u) < Priority(op) THEN InParens(DoPrintFormula[u])
                                                            ELSE DoPrintFormula[u]
             /\ RightText(op, u) = IF Rank(u) < Priority(op) \/ (Rank(u) = Priority(op) /\ op \in {"-", "/"})
                                   THEN InParens(DoPrintFormula[u]) ELSE DoPrintFormula[u]
      BY ParensByRank DEF LeftText, RightText, PrintFormula
<1>6. Rank(u) \in Int /\ \A op \in Operator : Priority(op) \in Int
      BY Ranks
<1>. QED BY <1>1, <1>2, <1>3, <1>4, <1>5, <1>6

---------------------------------------------------------------------------
(***************************************************************************)
(* Trees that are what their text reads as.                                *)
(***************************************************************************)

\* The operands that t has without parentheses bind tight enough to be read as these.
IsPlain(t) ==
    IF IsAtom(t) THEN Numeral(Number[t[2]]).chars = t[2]
    ELSE IF IsUnary(t) THEN Rank(t[3]) # 4
    ELSE Rank(t[4]) = Priority(t[2]) => t[2] \in {"-", "/"}

Normal == UNION {S \in SUBSET Formula : \A t \in S : IsPlain(t) /\ SubTreesOf(t) \subseteq S}

\* Normal is the largest set of plain trees with their parts.
LEMMA NormalIsClosed ==
    /\ Normal \subseteq Formula
    /\ \A t \in Normal : IsPlain(t) /\ SubTreesOf(t) \subseteq Normal
    /\ \A t \in Formula : IsPlain(t) /\ SubTreesOf(t) \subseteq Normal => t \in Normal
<1>1. Normal \subseteq Formula /\ \A t \in Normal : IsPlain(t) /\ SubTreesOf(t) \subseteq Normal
      BY DEF Normal
<1>2. ASSUME NEW t \in Formula, IsPlain(t), SubTreesOf(t) \subseteq Normal
      PROVE  t \in Normal
      <2>. DEFINE S == Normal \cup {t}
      <2>1. S \in SUBSET Formula /\ \A u \in S : IsPlain(u) /\ SubTreesOf(u) \subseteq S
            BY <1>1, <1>2
      <2>2. S \subseteq Normal
            <3>. HIDE DEF S
            <3>. QED BY ONLY <2>1 DEF Normal
      <2>. QED BY <2>2
<1>. QED BY <1>1, <1>2

\* Normal for each kind of tree.
LEMMA NormalCases ==
    /\ \A l \in DOMAIN Number : <<"NUMBER", l>> \in Normal <=> Numeral(Number[l]).chars = l
    /\ \A op, u : <<"unary", op, u>> \in Formula =>
                     (<<"unary", op, u>> \in Normal <=> u \in Normal /\ Rank(u) # 4)
    /\ \A op, u, v : <<"binary", op, u, v>> \in Formula =>
                        (<<"binary", op, u, v>> \in Normal
                            <=> u \in Normal /\ v \in Normal /\ (Rank(v) = Priority(op) => op \in {"-", "/"}))
<1>1. ASSUME NEW l \in DOMAIN Number
      PROVE  <<"NUMBER", l>> \in Normal <=> Numeral(Number[l]).chars = l
      <2>1. IsPlain(<<"NUMBER", l>>) <=> Numeral(Number[l]).chars = l
            BY TreeShapes DEF IsPlain
      <2>2. SubTreesOf(<<"NUMBER", l>>) = {}
            BY TreeShapes DEF SubTreesOf
      <2>. QED BY <2>1, <2>2, NormalIsClosed, NumbersAreTrees
<1>2. ASSUME NEW op, NEW u, <<"unary", op, u>> \in Formula
      PROVE  <<"unary", op, u>> \in Normal <=> u \in Normal /\ Rank(u) # 4
      <2>1. IsPlain(<<"unary", op, u>>) <=> Rank(u) # 4
            BY TreeShapes DEF IsPlain
      <2>2. SubTreesOf(<<"unary", op, u>>) = {u}
            BY TreeShapes DEF SubTreesOf
      <2>. QED BY <1>2, <2>1, <2>2, NormalIsClosed
<1>3. ASSUME NEW op, NEW u, NEW v, <<"binary", op, u, v>> \in Formula
      PROVE  <<"binary", op, u, v>> \in Normal
                <=> u \in Normal /\ v \in Normal /\ (Rank(v) = Priority(op) => op \in {"-", "/"})
      <2>1. IsPlain(<<"binary", op, u, v>>) <=> (Rank(v) = Priority(op) => op \in {"-", "/"})
            BY TreeShapes DEF IsPlain
      <2>2. SubTreesOf(<<"binary", op, u, v>>) = {u, v}
            BY TreeShapes DEF SubTreesOf
      <2>. QED BY <1>3, <2>1, <2>2, NormalIsClosed
<1>. QED BY <1>1, <1>2, <1>3

\* w is a tree with n operators, a text and a value.
IsMadeTree(w, n, text, value) ==
    w \in Trees[n] /\ w \in Formula /\ DoPrintFormula[w] = text /\ Evaluate[w] = value

\* A tree made of one tree: its size, its text and its value.
LEMMA UnaryMade ==
    ASSUME NEW op \in AddSub, NEW a \in 0..MaxOperators, NEW u \in Trees[a], a + 1 <= MaxOperators
    PROVE  /\ u \in Formula
           /\ IsMadeTree(<<"unary", op, u>>, a + 1, <<Symbol(op)>> \o SignText(u),
                         Fraction(op, <<0, 1>>, Evaluate[u]))
<1>. DEFINE w == <<"unary", op, u>>
<1>1. a + 1 \in 0..MaxOperators /\ a + 1 # 0 /\ (a + 1) - 1 = a
      BY LiteralsAssumption
<1>2. w \in Trees[a + 1]
      BY <1>1, TreeCases
<1>3. u \in Formula /\ w \in Formula
      BY <1>1, <1>2 DEF Formula
<1>. HIDE DEF w
<1>. QED BY <1>1, <1>2, <1>3, PrintUnfolds, EvaluateUnfolds DEF SignText, IsMadeTree, w

\* A tree made of two.
LEMMA BinaryMade ==
    ASSUME NEW op \in Operator, NEW a \in 0..MaxOperators, NEW b \in 0..MaxOperators,
           NEW u \in Trees[a], NEW v \in Trees[b], a + b + 1 <= MaxOperators
    PROVE  /\ u \in Formula /\ v \in Formula
           /\ IsMadeTree(<<"binary", op, u, v>>, a + b + 1,
                         LeftText(op, u) \o <<Symbol(op)>> \o RightText(op, v),
                         Fraction(op, Evaluate[u], Evaluate[v]))
<1>. DEFINE w == <<"binary", op, u, v>>
            n == a + b + 1
<1>1. n \in 0..MaxOperators /\ n # 0 /\ a \in 0..n-1 /\ n - 1 - a = b
      BY LiteralsAssumption
<1>2. w \in Trees[n]
      <2>. HIDE DEF n
      <2>. QED BY <1>1, TreeCases
<1>3. u \in Formula /\ v \in Formula /\ w \in Formula
      BY <1>1, <1>2 DEF Formula
<1>. HIDE DEF w
<1>. QED BY <1>1, <1>2, <1>3, PrintUnfolds, EvaluateUnfolds DEF LeftText, RightText, IsMadeTree, w

---------------------------------------------------------------------------
(***************************************************************************)
(* What is computed is the same where a text is read as another tree.      *)
(***************************************************************************)

Times(i, j) == i * j

\* The laws of multiplication the proofs use.
LEMMA TimesType == \A i \in Int, j \in Int : Times(i, j) \in Int
BY DEF Times
LEMMA TimesNotZero == \A i \in Int \ {0}, j \in Int \ {0} : Times(i, j) \in Int \ {0}
BY DEF Times
LEMMA TimesAssociates == \A i \in Int, j \in Int, k \in Int : Times(Times(i, j), k) = Times(i, Times(j, k))
BY DEF Times
LEMMA TimesCommutes == \A i \in Int, j \in Int : Times(i, j) = Times(j, i)
BY DEF Times
LEMMA TimesSum == \A i \in Int, j \in Int, k \in Int : Times(i + j, k) = Times(i, k) + Times(j, k)
BY DEF Times
LEMMA TimesDifference == \A i \in Int, j \in Int, k \in Int : Times(i - j, k) = Times(i, k) - Times(j, k)
BY DEF Times
LEMMA TimesSign == \A i \in Int, j \in Int : Times(-i, j) = -Times(i, j)
BY DEF Times
LEMMA TimesOne == \A i \in Int : Times(0, i) = 0 /\ Times(1, i) = i /\ Times(i, 1) = i
BY DEF Times

\* An error is an error of all that is computed of it.
LEMMA ErrorStays ==
    /\ \A op, x : Fraction(op, Arithmetic, x) = Arithmetic /\ Fraction(op, x, Arithmetic) = Arithmetic
    /\ \A n \in Int, d \in Int \ {0} : <<n, d>> # Arithmetic
BY DEF Fraction, Arithmetic

\* The four operations on fractions that are no error.
LEMMA SumOf ==
    \A n \in Int, m \in Int : \A d \in Int \ {0}, e \in Int \ {0} :
       Fraction("+", <<n, d>>, <<m, e>>) = <<Times(n, e) + Times(m, d), Times(d, e)>>
BY ErrorStays DEF Fraction, Times

LEMMA DifferenceOf ==
    \A n \in Int, m \in Int : \A d \in Int \ {0}, e \in Int \ {0} :
       Fraction("-", <<n, d>>, <<m, e>>) = <<Times(n, e) - Times(m, d), Times(d, e)>>
BY ErrorStays DEF Fraction, Times

LEMMA ProductOf ==
    \A n \in Int, m \in Int : \A d \in Int \ {0}, e \in Int \ {0} :
       Fraction("*", <<n, d>>, <<m, e>>) = <<Times(n, m), Times(d, e)>>
BY ErrorStays DEF Fraction, Times

LEMMA QuotientOf ==
    \A n \in Int, m \in Int : \A d \in Int \ {0}, e \in Int \ {0} :
       Fraction("/", <<n, d>>, <<m, e>>) = IF m = 0 THEN Arithmetic ELSE <<Times(n, e), Times(d, m)>>
BY ErrorStays DEF Fraction, Times

\* A sum in front of a term, and a product in front of a factor.
LEMMA FractionsAssociate ==
    ASSUME NEW op, NEW op2, \/ op = "+" /\ op2 \in AddSub
                            \/ op = "*" /\ op2 \in MulDiv,
           NEW x \in Value, NEW y \in Value, NEW z \in Value
    PROVE  Fraction(op2, Fraction(op, x, y), z) = Fraction(op, x, Fraction(op2, y, z))
<1>1. CASE x = Arithmetic \/ y = Arithmetic \/ z = Arithmetic
      BY <1>1, ErrorStays
<1>2. CASE ~(x = Arithmetic \/ y = Arithmetic \/ z = Arithmetic)
      <2>1. PICK a \in Int, b \in Int \ {0} : x = <<a, b>>
            BY <1>2 DEF Value
      <2>2. PICK c \in Int, d \in Int \ {0} : y = <<c, d>>
            BY <1>2 DEF Value
      <2>3. PICK i \in Int, j \in Int \ {0} : z = <<i, j>>
            BY <1>2 DEF Value
      <2>4. /\ Times(b, d) \in Int \ {0} /\ Times(d, j) \in Int \ {0} /\ (i # 0 => Times(d, i) \in Int \ {0})
            /\ Times(a, d) \in Int /\ Times(c, b) \in Int /\ Times(a, c) \in Int
            /\ Times(c, j) \in Int /\ Times(i, d) \in Int /\ Times(c, i) \in Int
            /\ Times(Times(b, d), j) = Times(b, Times(d, j))
            <3>1. Times(b, d) \in Int \ {0} /\ Times(d, j) \in Int \ {0} /\ (i # 0 => Times(d, i) \in Int \ {0})
                  BY TimesNotZero
            <3>2. /\ Times(a, d) \in Int /\ Times(c, b) \in Int /\ Times(a, c) \in Int
                  /\ Times(c, j) \in Int /\ Times(i, d) \in Int /\ Times(c, i) \in Int
                  BY TimesType
            <3>3. Times(Times(b, d), j) = Times(b, Times(d, j))
                  BY TimesAssociates
            <3>. QED BY <3>1, <3>2, <3>3
      <2>6. CASE op = "+" /\ op2 \in AddSub
            <3>1. /\ Fraction("+", x, y) = <<Times(a, d) + Times(c, b), Times(b, d)>>
                  /\ Fraction("+", y, z) = <<Times(c, j) + Times(i, d), Times(d, j)>>
                  /\ Fraction("-", y, z) = <<Times(c, j) - Times(i, d), Times(d, j)>>
                  BY <2>1, <2>2, <2>3, SumOf, DifferenceOf
            <3>. DEFINE p == Times(a, d) + Times(c, b)
                        q == Times(c, j) + Times(i, d)
                        r == Times(c, j) - Times(i, d)
            <3>2. p \in Int /\ q \in Int /\ r \in Int
                  BY <2>4
            <3>3. Fraction("+", x, y) = <<p, Times(b, d)>> /\ Fraction("+", y, z) = <<q, Times(d, j)>>
                  /\ Fraction("-", y, z) = <<r, Times(d, j)>>
                  BY <3>1
            <3>4. /\ Times(p, j) + Times(i, Times(b, d)) = Times(a, Times(d, j)) + Times(q, b)
                  /\ Times(p, j) - Times(i, Times(b, d)) = Times(a, Times(d, j)) + Times(r, b)
                  <4>1. /\ Times(p, j) = Times(Times(a, d), j) + Times(Times(c, b), j)
                        /\ Times(q, b) = Times(Times(c, j), b) + Times(Times(i, d), b)
                        /\ Times(r, b) = Times(Times(c, j), b) - Times(Times(i, d), b)
                        <5>1. Times(p, j) = Times(Times(a, d), j) + Times(Times(c, b), j)
                              BY <2>4, TimesSum
                        <5>2. Times(q, b) = Times(Times(c, j), b) + Times(Times(i, d), b)
                              BY <2>4, TimesSum
                        <5>3. Times(r, b) = Times(Times(c, j), b) - Times(Times(i, d), b)
                              <6>1. Times(c, j) \in Int /\ Times(i, d) \in Int
                                    BY <2>4
                              <6>. QED BY <2>4, <6>1, TimesDifference
                        <5>. QED BY <5>1, <5>2, <5>3
                  <4>2. /\ Times(Times(a, d), j) = Times(a, Times(d, j))
                        /\ Times(Times(c, b), j) = Times(Times(c, j), b)
                        /\ Times(Times(i, d), b) = Times(i, Times(b, d))
                        <5>1. Times(Times(a, d), j) = Times(a, Times(d, j)) /\ Times(Times(i, d), b) = Times(i, Times(d, b))
                              BY TimesAssociates
                        <5>2. Times(Times(c, b), j) = Times(c, Times(b, j)) /\ Times(Times(c, j), b) = Times(c, Times(j, b))
                              BY TimesAssociates
                        <5>3. Times(d, b) = Times(b, d) /\ Times(b, j) = Times(j, b)
                              BY TimesCommutes
                        <5>. QED BY <5>1, <5>2, <5>3
                  <4>3. /\ Times(a, Times(d, j)) \in Int /\ Times(Times(c, j), b) \in Int
                        /\ Times(i, Times(b, d)) \in Int
                        BY <2>4, TimesType
                  <4>. HIDE DEF p, q, r
                  <4>. QED BY <4>1, <4>2, <4>3
            <3>. HIDE DEF p, q, r
            <3>5. /\ Fraction("+", <<p, Times(b, d)>>, z) = <<Times(p, j) + Times(i, Times(b, d)), Times(Times(b, d), j)>>
                  /\ Fraction("-", <<p, Times(b, d)>>, z) = <<Times(p, j) - Times(i, Times(b, d)), Times(Times(b, d), j)>>
                  /\ Fraction("+", x, <<q, Times(d, j)>>) = <<Times(a, Times(d, j)) + Times(q, b), Times(b, Times(d, j))>>
                  /\ Fraction("+", x, <<r, Times(d, j)>>) = <<Times(a, Times(d, j)) + Times(r, b), Times(b, Times(d, j))>>
                  <4>1. Fraction("+", <<p, Times(b, d)>>, z) = <<Times(p, j) + Times(i, Times(b, d)), Times(Times(b, d), j)>>
                        BY <2>3, <2>4, <3>2, SumOf
                  <4>2. Fraction("-", <<p, Times(b, d)>>, z) = <<Times(p, j) - Times(i, Times(b, d)), Times(Times(b, d), j)>>
                        BY <2>3, <2>4, <3>2, DifferenceOf
                  <4>3. Fraction("+", x, <<q, Times(d, j)>>) = <<Times(a, Times(d, j)) + Times(q, b), Times(b, Times(d, j))>>
                        BY <2>1, <2>4, <3>2, SumOf
                  <4>4. Fraction("+", x, <<r, Times(d, j)>>) = <<Times(a, Times(d, j)) + Times(r, b), Times(b, Times(d, j))>>
                        BY <2>1, <2>4, <3>2, SumOf
                  <4>. QED BY <4>1, <4>2, <4>3, <4>4
            <3>. QED BY <2>4, <2>6, <3>3, <3>4, <3>5 DEF AddSub
      <2>7. CASE op = "*" /\ op2 \in MulDiv
            <3>1. /\ Fraction("*", x, y) = <<Times(a, c), Times(b, d)>>
                  /\ Fraction("*", y, z) = <<Times(c, i), Times(d, j)>>
                  /\ Fraction("/", y, z) = IF i = 0 THEN Arithmetic ELSE <<Times(c, j), Times(d, i)>>
                  <4>1. Fraction("*", x, y) = <<Times(a, c), Times(b, d)>>
                        BY <2>1, <2>2, ProductOf
                  <4>2. Fraction("*", y, z) = <<Times(c, i), Times(d, j)>>
                        BY <2>2, <2>3, ProductOf
                  <4>3. Fraction("/", y, z) = IF i = 0 THEN Arithmetic ELSE <<Times(c, j), Times(d, i)>>
                        BY <2>2, <2>3, QuotientOf
                  <4>. QED BY <4>1, <4>2, <4>3
            <3>2. /\ Fraction("*", <<Times(a, c), Times(b, d)>>, z) = <<Times(Times(a, c), i), Times(Times(b, d), j)>>
                  /\ Fraction("/", <<Times(a, c), Times(b, d)>>, z) =
                        IF i = 0 THEN Arithmetic ELSE <<Times(Times(a, c), j), Times(Times(b, d), i)>>
                  /\ Fraction("*", x, <<Times(c, i), Times(d, j)>>) = <<Times(a, Times(c, i)), Times(b, Times(d, j))>>
                  /\ i # 0 => Fraction("*", x, <<Times(c, j), Times(d, i)>>) = <<Times(a, Times(c, j)), Times(b, Times(d, i))>>
                  <4>1. Fraction("*", <<Times(a, c), Times(b, d)>>, z) = <<Times(Times(a, c), i), Times(Times(b, d), j)>>
                        BY <2>3, <2>4, ProductOf
                  <4>2. Fraction("/", <<Times(a, c), Times(b, d)>>, z) =
                           IF i = 0 THEN Arithmetic ELSE <<Times(Times(a, c), j), Times(Times(b, d), i)>>
                        BY <2>3, <2>4, QuotientOf
                  <4>3. Fraction("*", x, <<Times(c, i), Times(d, j)>>) = <<Times(a, Times(c, i)), Times(b, Times(d, j))>>
                        BY ONLY a \in Int, b \in Int \ {0}, <2>1, <2>4, ProductOf
                  <4>4. i # 0 => Fraction("*", x, <<Times(c, j), Times(d, i)>>) = <<Times(a, Times(c, j)), Times(b, Times(d, i))>>
                        <5>1. SUFFICES ASSUME i # 0
                                       PROVE  Fraction("*", x, <<Times(c, j), Times(d, i)>>) = <<Times(a, Times(c, j)), Times(b, Times(d, i))>>
                              OBVIOUS
                        <5>2. Times(d, i) \in Int \ {0} /\ Times(c, j) \in Int
                              BY <2>4, <5>1
                        <5>. QED BY ONLY a \in Int, b \in Int \ {0}, <2>1, <5>2, ProductOf
                  <4>. QED BY <4>1, <4>2, <4>3, <4>4
            <3>3. /\ Times(Times(a, c), i) = Times(a, Times(c, i)) /\ Times(Times(a, c), j) = Times(a, Times(c, j))
                  /\ Times(Times(b, d), i) = Times(b, Times(d, i))
                  BY TimesAssociates
            <3>. QED BY <2>4, <2>7, <3>1, <3>2, <3>3, ErrorStays DEF MulDiv
      <2>. QED BY <2>6, <2>7
<1>. QED BY <1>1, <1>2

\* A sign in front of a product.
LEMMA SignsAssociate ==
    ASSUME NEW op \in AddSub, NEW op2 \in MulDiv, NEW y \in Value, NEW z \in Value
    PROVE  Fraction(op2, Fraction(op, <<0, 1>>, y), z) = Fraction(op, <<0, 1>>, Fraction(op2, y, z))
<1>1. CASE y = Arithmetic \/ z = Arithmetic
      BY <1>1, ErrorStays
<1>2. CASE ~(y = Arithmetic \/ z = Arithmetic)
      <2>1. PICK c \in Int, d \in Int \ {0} : y = <<c, d>>
            BY <1>2 DEF Value
      <2>2. PICK i \in Int, j \in Int \ {0} : z = <<i, j>>
            BY <1>2 DEF Value
      <2>3. \A m \in Int, e \in Int \ {0} :
               Fraction("+", <<0, 1>>, <<m, e>>) = <<m, e>> /\ Fraction("-", <<0, 1>>, <<m, e>>) = <<-m, e>>
            <3>1. SUFFICES ASSUME NEW m \in Int, NEW e \in Int \ {0}
                           PROVE  Fraction("+", <<0, 1>>, <<m, e>>) = <<m, e>> /\ Fraction("-", <<0, 1>>, <<m, e>>) = <<-m, e>>
                  OBVIOUS
            <3>2. /\ Fraction("+", <<0, 1>>, <<m, e>>) = <<Times(0, e) + Times(m, 1), Times(1, e)>>
                  /\ Fraction("-", <<0, 1>>, <<m, e>>) = <<Times(0, e) - Times(m, 1), Times(1, e)>>
                  BY SumOf, DifferenceOf
            <3>3. Times(0, e) = 0 /\ Times(m, 1) = m /\ Times(1, e) = e
                  BY TimesOne
            <3>. QED BY <3>2, <3>3
      <2>. DEFINE s == IF op = "+" THEN c ELSE -c
      <2>4. s \in Int /\ Fraction(op, <<0, 1>>, y) = <<s, d>>
            BY <2>1, <2>3 DEF AddSub
      <2>5. /\ Times(d, j) \in Int \ {0} /\ (i # 0 => Times(d, i) \in Int \ {0})
            /\ Times(c, i) \in Int /\ Times(c, j) \in Int
            BY TimesType, TimesNotZero
      <2>6. /\ Times(s, i) = IF op = "+" THEN Times(c, i) ELSE -Times(c, i)
            /\ Times(s, j) = IF op = "+" THEN Times(c, j) ELSE -Times(c, j)
            BY TimesSign
      <2>. HIDE DEF s
      <2>7. CASE op2 = "*"
            <3>1. Fraction("*", Fraction(op, <<0, 1>>, y), z) = <<Times(s, i), Times(d, j)>>
                  BY <2>2, <2>4, ProductOf
            <3>2. Fraction("*", y, z) = <<Times(c, i), Times(d, j)>>
                  BY <2>1, <2>2, ProductOf
            <3>. QED BY <2>3, <2>5, <2>6, <2>7, <3>1, <3>2 DEF AddSub
      <2>8. CASE op2 = "/"
            <3>1. Fraction("/", Fraction(op, <<0, 1>>, y), z) = IF i = 0 THEN Arithmetic ELSE <<Times(s, j), Times(d, i)>>
                  BY <2>2, <2>4, QuotientOf
            <3>2. Fraction("/", y, z) = IF i = 0 THEN Arithmetic ELSE <<Times(c, j), Times(d, i)>>
                  BY <2>1, <2>2, QuotientOf
            <3>. QED BY <2>3, <2>5, <2>6, <2>8, <3>1, <3>2, ErrorStays DEF AddSub
      <2>. QED BY <2>7, <2>8 DEF MulDiv
<1>. QED BY <1>1, <1>2
---------------------------------------------------------------------------
(***************************************************************************)
(* A text is that of the tree that it is read as.                          *)
(***************************************************************************)

\* Texts one after the other.
Cat(r, s) == r \o s

\* Where a text is cut makes no difference.
LEMMA TextsAssociate ==
    /\ \A r \in Seq(Printed), s \in Seq(Printed), t \in Seq(Printed) : Cat(Cat(r, s), t) = Cat(r, Cat(s, t))
    /\ \A r \in Seq(Printed), s \in Seq(Printed) : Cat(r, s) \in Seq(Printed)
BY DEF Cat

LEMMA TextsRegroup ==
    \A k \in Seq(Printed), r \in Seq(Printed), s \in Seq(Printed), z \in Seq(Printed) :
       Cat(Cat(Cat(k, r), s), z) = Cat(k, Cat(Cat(r, s), z))
BY TextsAssociate

\* What n operators, a text and a value belong to.
IsReading(w, n, rank, text) ==
    w \in Trees[n] /\ w \in Normal /\ Rank(w) = rank /\ DoPrintFormula[w] = text

\* An operator between the tree x and the text of v.
LEMMA Join ==
    ASSUME NEW op \in Operator, NEW a \in 0..MaxOperators, NEW x \in Trees[a], x \in Normal
    PROVE  \A v \in Normal, b \in 0..MaxOperators :
              v \in Trees[b] /\ a + b + 1 <= MaxOperators /\ Rank(v) >= Priority(op) =>
                 \E w : /\ IsReading(w, a + b + 1, Priority(op), LeftText(op, x) \o <<Symbol(op)>> \o DoPrintFormula[v])
                        /\ Rank(v) > Priority(op) \/ op \in {"+", "*"} =>
                              Evaluate[w] = Fraction(op, Evaluate[x], Evaluate[v])
<1>. DEFINE Reading(w, v, b) ==
               /\ IsReading(w, a + b + 1, Priority(op), LeftText(op, x) \o <<Symbol(op)>> \o DoPrintFormula[v])
               /\ Rank(v) > Priority(op) \/ op \in {"+", "*"} =>
                      Evaluate[w] = Fraction(op, Evaluate[x], Evaluate[v])
            S == {v \in Formula : \A b \in 0..MaxOperators :
                     v \in Normal /\ v \in Trees[b] /\ a + b + 1 <= MaxOperators /\ Rank(v) >= Priority(op) =>
                        \E w : Reading(w, v, b)}
<1>1. x \in Formula /\ MaxOperators \in Nat
      BY LiteralsAssumption DEF Formula
\* Where v binds tighter than op, it is its operand.
<1>2. ASSUME NEW v \in Normal, NEW b \in 0..MaxOperators, v \in Trees[b], a + b + 1 <= MaxOperators,
             Rank(v) > Priority(op)
      PROVE  \E w : Reading(w, v, b)
      <2>. DEFINE w == <<"binary", op, x, v>>
      <2>1. /\ v \in Formula
            /\ IsMadeTree(w, a + b + 1, LeftText(op, x) \o <<Symbol(op)>> \o RightText(op, v),
                          Fraction(op, Evaluate[x], Evaluate[v]))
            BY <1>2, BinaryMade
      <2>2. RightText(op, v) = DoPrintFormula[v]
            BY <1>2, <2>1, OperandTexts, Ranks
      <2>3. w \in Normal /\ Rank(w) = Priority(op)
            BY <1>2, <2>1, NormalCases, Ranks DEF IsMadeTree
      <2>4. Reading(w, v, b)
            <3>. HIDE DEF w
            <3>. QED BY <2>1, <2>2, <2>3 DEF IsReading, IsMadeTree
      <2>. QED BY <2>4
<1>3. \A l \in DOMAIN Number : <<"NUMBER", l>> \in S
      <2>1. SUFFICES ASSUME NEW l \in DOMAIN Number PROVE <<"NUMBER", l>> \in S
            OBVIOUS
      <2>2. Rank(<<"NUMBER", l>>) > Priority(op)
            BY Ranks
      <2>. HIDE DEF Reading
      <2>. QED BY <1>2, <2>2, NumbersAreTrees
<1>4. ASSUME NEW op2 \in AddSub, NEW u \in S, <<"unary", op2, u>> \in Formula
      PROVE  <<"unary", op2, u>> \in S
      <2>1. Rank(<<"unary", op2, u>>) > Priority(op)
            BY Ranks
      <2>. HIDE DEF Reading
      <2>. QED BY <1>2, <1>4, <2>1
<1>5. ASSUME NEW op2 \in Operator, NEW u \in S, NEW t \in S, <<"binary", op2, u, t>> \in Formula
      PROVE  <<"binary", op2, u, t>> \in S
      <2>. DEFINE v == <<"binary", op2, u, t>>
      <2>. HIDE DEF Reading
      <2>1. SUFFICES ASSUME NEW b \in 0..MaxOperators, v \in Normal, v \in Trees[b], a + b + 1 <= MaxOperators,
                            Rank(v) >= Priority(op)
                     PROVE  \E w : Reading(w, v, b)
            BY <1>5
      <2>2. CASE Rank(v) > Priority(op)
            BY <1>2, <2>1, <2>2
      <2>3. CASE Rank(v) = Priority(op)
            <3>1. PICK c \in 0..b-1 : u \in Trees[c] /\ t \in Trees[b-1-c]
                  BY <2>1, TreeCases
            <3>2. /\ c \in 0..MaxOperators /\ b - 1 - c \in 0..MaxOperators
                  /\ a + c + 1 <= MaxOperators /\ a + c + 1 \in 0..MaxOperators
                  /\ c + (b-1-c) + 1 = b /\ (a + c + 1) + (b-1-c) + 1 = a + b + 1
                  BY <1>1, <2>1
            <3>3. /\ u \in Normal /\ t \in Normal /\ Priority(op2) = Priority(op)
                  /\ Rank(t) = Priority(op2) => op2 \in {"-", "/"}
                  BY <1>5, <2>1, <2>3, NormalCases, Ranks
            <3>4. /\ DoPrintFormula[v] = LeftText(op2, u) \o <<Symbol(op2)>> \o RightText(op2, t)
                  /\ Evaluate[v] = Fraction(op2, Evaluate[u], Evaluate[t])
                  /\ u \in Formula /\ t \in Formula
                  BY <1>5, PrintUnfolds, EvaluateUnfolds DEF LeftText, RightText
            <3>. HIDE DEF v
            \* The first operand of v follows op.
            <3>5. \E y : /\ IsReading(y, a + c + 1, Priority(op), LeftText(op, x) \o <<Symbol(op)>> \o LeftText(op2, u))
                         /\ op \in {"+", "*"} => Evaluate[y] = Fraction(op, Evaluate[x], Evaluate[u])
                  <4>1. CASE Rank(u) >= Priority(op)
                        <5>1. LeftText(op2, u) = DoPrintFormula[u]
                              BY <3>3, <3>4, <4>1, OperandTexts, Ranks
                        <5>2. PICK y : Reading(y, u, c)
                              BY <3>1, <3>2, <3>3, <4>1
                        <5>. QED BY <5>1, <5>2 DEF Reading
                  <4>2. CASE ~(Rank(u) >= Priority(op))
                        <5>. DEFINE y == <<"binary", op, x, u>>
                        <5>1. IsMadeTree(y, a + c + 1, LeftText(op, x) \o <<Symbol(op)>> \o RightText(op, u),
                                         Fraction(op, Evaluate[x], Evaluate[u]))
                              BY <3>1, <3>2, BinaryMade
                        <5>2. RightText(op, u) = LeftText(op2, u)
                              <6>1. Rank(u) < Priority(op) /\ Rank(u) < Priority(op2)
                                    BY <3>3, <4>2, Ranks
                              <6>. QED BY <3>4, <6>1, OperandTexts
                        <5>3. y \in Normal /\ Rank(y) = Priority(op)
                              BY <3>3, <4>2, <5>1, NormalCases, Ranks DEF IsMadeTree
                        <5>. HIDE DEF y
                        <5>. QED BY <5>1, <5>2, <5>3 DEF IsReading, IsMadeTree
                  <4>. QED BY <4>1, <4>2
            <3>6. PICK y : /\ IsReading(y, a + c + 1, Priority(op), LeftText(op, x) \o <<Symbol(op)>> \o LeftText(op2, u))
                           /\ op \in {"+", "*"} => Evaluate[y] = Fraction(op, Evaluate[x], Evaluate[u])
                  BY <3>5
            <3>. DEFINE w == <<"binary", op2, y, t>>
            <3>7. /\ w \in Trees[a + b + 1] /\ y \in Formula /\ w \in Formula
                  /\ DoPrintFormula[w] = LeftText(op2, y) \o <<Symbol(op2)>> \o RightText(op2, t)
                  /\ Evaluate[w] = Fraction(op2, Evaluate[y], Evaluate[t])
                  <4>. DEFINE d == b - 1 - c
                              e == a + c + 1
                  <4>1. d \in 0..MaxOperators /\ e \in 0..MaxOperators /\ t \in Trees[d] /\ y \in Trees[e]
                        /\ e + d + 1 = a + b + 1 /\ e + d + 1 <= MaxOperators
                        BY <2>1, <3>1, <3>2, <3>6 DEF IsReading
                  <4>. HIDE DEF d, e
                  <4>2. /\ y \in Formula
                        /\ IsMadeTree(w, e + d + 1, LeftText(op2, y) \o <<Symbol(op2)>> \o RightText(op2, t),
                                      Fraction(op2, Evaluate[y], Evaluate[t]))
                        BY <4>1, BinaryMade
                  <4>. HIDE DEF w
                  <4>. QED BY <4>1, <4>2 DEF IsMadeTree
            <3>8. LeftText(op2, y) = LeftText(op, x) \o <<Symbol(op)>> \o LeftText(op2, u)
                  <4>1. Rank(y) >= Priority(op2)
                        BY <3>3, <3>6, Ranks DEF IsReading
                  <4>2. LeftText(op2, y) = DoPrintFormula[y]
                        BY <3>7, <4>1, OperandTexts
                  <4>. QED BY <3>6, <4>2 DEF IsReading
            <3>9. DoPrintFormula[w] = LeftText(op, x) \o <<Symbol(op)>> \o DoPrintFormula[v]
                  <4>1. LeftText(op, x) \in Seq(Printed) /\ LeftText(op2, u) \in Seq(Printed) /\ RightText(op2, t) \in Seq(Printed)
                        BY <1>1, <3>4, OperandTexts
                  <4>. DEFINE k == LeftText(op, x) \o <<Symbol(op)>>
                              r == LeftText(op2, u)
                              s == <<Symbol(op2)>>
                              z == RightText(op2, t)
                  <4>2. Cat(Cat(Cat(k, r), s), z) = Cat(k, Cat(Cat(r, s), z))
                        <5>1. Symbol(op) \in Printed /\ Symbol(op2) \in Printed
                              BY SymbolsPrinted
                        <5>2. <<Symbol(op)>> \in Seq(Printed) /\ s \in Seq(Printed)
                              BY <5>1
                        <5>3. k \in Seq(Printed) /\ r \in Seq(Printed) /\ z \in Seq(Printed)
                              BY <4>1, <5>2
                        <5>. HIDE DEF k, r, s, z
                        <5>. QED BY <5>2, <5>3, TextsRegroup
                  <4>3. DoPrintFormula[w] = ((LeftText(op, x) \o <<Symbol(op)>> \o LeftText(op2, u)) \o <<Symbol(op2)>>) \o RightText(op2, t)
                        BY <3>7, <3>8
                  <4>. QED BY ONLY <3>4, <4>2, <4>3 DEF Cat
            <3>10. w \in Normal /\ Rank(w) = Priority(op)
                   BY <3>3, <3>6, <3>7, NormalCases, Ranks DEF IsReading
            <3>11. op \in {"+", "*"} => Evaluate[w] = Fraction(op, Evaluate[x], Evaluate[v])
                   <4>1. SUFFICES ASSUME op \in {"+", "*"}
                                  PROVE  Evaluate[w] = Fraction(op, Evaluate[x], Evaluate[v])
                         OBVIOUS
                   <4>2. (op = "+" /\ op2 \in AddSub) \/ (op = "*" /\ op2 \in MulDiv)
                         BY <3>3, <4>1 DEF Operator, AddSub, MulDiv, Priority
                   <4>3. Evaluate[x] \in Value /\ Evaluate[u] \in Value /\ Evaluate[t] \in Value
                         BY <1>1, <3>4, EvaluateUnfolds
                   <4>4. Evaluate[w] = Fraction(op2, Fraction(op, Evaluate[x], Evaluate[u]), Evaluate[t])
                         BY <3>6, <3>7, <4>1
                   <4>. QED BY <3>4, <4>2, <4>3, <4>4, FractionsAssociate
            <3>. HIDE DEF w
            <3>12. Reading(w, v, b)
                   <4>1. ~(Rank(v) > Priority(op))
                         BY <2>3, Ranks
                   <4>2. IsReading(w, a + b + 1, Priority(op),
                                   LeftText(op, x) \o <<Symbol(op)>> \o DoPrintFormula[v])
                         BY <3>7, <3>9, <3>10 DEF IsReading
                   <4>. QED BY <3>11, <4>1, <4>2 DEF Reading
            <3>. QED BY <3>12
      <2>. QED BY <2>1, <2>2, <2>3, Ranks
<1>6. Formula \subseteq S
      <2>. HIDE DEF S
      <2>. QED BY <1>3, <1>4, <1>5, TreeInduction
<1>. QED BY <1>6, NormalIsClosed

\* w is the tree that the text of v is read as with the sign op in front of it.
IsSigning(w, op, v, b) ==
    /\ w \in Trees[b + 1] /\ w \in Normal
    /\ Rank(w) = IF Rank(v) = 4 THEN 4 ELSE 5
    /\ DoPrintFormula[w] = <<Symbol(op)>> \o DoPrintFormula[v]
    /\ Evaluate[w] = Fraction(op, <<0, 1>>, Evaluate[v])

\* A sign in front of the text of v: in front of a product it is one of the first
\* factor.
LEMMA SignJoin ==
    ASSUME NEW op \in AddSub
    PROVE  \A v \in Normal, b \in 0..MaxOperators :
              v \in Trees[b] /\ b + 1 <= MaxOperators /\ Rank(v) # 3 => \E w : IsSigning(w, op, v, b)
<1>. DEFINE S == {v \in Formula : \A b \in 0..MaxOperators :
                     v \in Normal /\ v \in Trees[b] /\ b + 1 <= MaxOperators /\ Rank(v) # 3 =>
                        \E w : IsSigning(w, op, v, b)}
<1>1. MaxOperators \in Nat /\ op \in Operator
      BY LiteralsAssumption DEF AddSub, Operator
\* In front of what is no product.
<1>2. ASSUME NEW v \in Normal, NEW b \in 0..MaxOperators, v \in Trees[b], b + 1 <= MaxOperators,
             Rank(v) # 3, Rank(v) # 4
      PROVE  \E w : IsSigning(w, op, v, b)
      <2>. DEFINE w == <<"unary", op, v>>
      <2>1. /\ v \in Formula
            /\ IsMadeTree(w, b + 1, <<Symbol(op)>> \o SignText(v), Fraction(op, <<0, 1>>, Evaluate[v]))
            BY <1>2, UnaryMade
      <2>2. SignText(v) = DoPrintFormula[v]
            BY <1>2, <2>1, OperandTexts
      <2>3. w \in Normal /\ Rank(w) = 5
            BY <1>2, <2>1, NormalCases, Ranks DEF IsMadeTree
      <2>4. IsSigning(w, op, v, b)
            <3>. HIDE DEF w
            <3>. QED BY <1>2, <2>1, <2>2, <2>3 DEF IsSigning, IsMadeTree
      <2>. QED BY <2>4
<1>3. \A l \in DOMAIN Number : <<"NUMBER", l>> \in S
      <2>1. SUFFICES ASSUME NEW l \in DOMAIN Number PROVE <<"NUMBER", l>> \in S
            OBVIOUS
      <2>2. Rank(<<"NUMBER", l>>) = 6
            BY Ranks
      <2>. QED BY <1>2, <2>2, NumbersAreTrees
<1>4. ASSUME NEW op2 \in AddSub, NEW u \in S, <<"unary", op2, u>> \in Formula
      PROVE  <<"unary", op2, u>> \in S
      <2>1. Rank(<<"unary", op2, u>>) = 5
            BY Ranks
      <2>. QED BY <1>2, <1>4, <2>1
<1>5. ASSUME NEW op2 \in Operator, NEW u \in S, NEW t \in S, <<"binary", op2, u, t>> \in Formula
      PROVE  <<"binary", op2, u, t>> \in S
      <2>. DEFINE v == <<"binary", op2, u, t>>
      <2>1. SUFFICES ASSUME NEW b \in 0..MaxOperators, v \in Normal, v \in Trees[b], b + 1 <= MaxOperators,
                            Rank(v) # 3
                     PROVE  \E w : IsSigning(w, op, v, b)
            BY <1>5
      <2>2. PICK c \in 0..b-1 : u \in Trees[c] /\ t \in Trees[b-1-c]
            BY <2>1, TreeCases
      <2>3. /\ c \in 0..MaxOperators /\ b - 1 - c \in 0..MaxOperators
            /\ c + 1 <= MaxOperators /\ c + 1 \in 0..MaxOperators
            /\ (c + 1) + (b-1-c) + 1 = b + 1
            BY <1>1, <2>1
      <2>4. /\ u \in Normal /\ t \in Normal /\ Priority(op2) = 4 /\ op2 \in MulDiv /\ Rank(v) = 4
            /\ Rank(t) = Priority(op2) => op2 \in {"-", "/"}
            <3>1. Rank(v) = Priority(op2)
                  BY Ranks
            <3>2. Priority(op2) = 4 /\ op2 \in MulDiv
                  BY <2>1, <3>1 DEF Priority, Operator, AddSub, MulDiv
            <3>. QED BY <1>5, <2>1, <3>1, <3>2, NormalCases
      <2>5. /\ DoPrintFormula[v] = LeftText(op2, u) \o <<Symbol(op2)>> \o RightText(op2, t)
            /\ Evaluate[v] = Fraction(op2, Evaluate[u], Evaluate[t])
            /\ u \in Formula /\ t \in Formula
            BY <1>5, PrintUnfolds, EvaluateUnfolds DEF LeftText, RightText
      <2>. HIDE DEF v
      \* The first factor of v follows the sign.
      <2>6. \E y : /\ y \in Trees[c+1] /\ y \in Normal /\ Rank(y) # 3
                   /\ DoPrintFormula[y] = <<Symbol(op)>> \o LeftText(op2, u)
                   /\ Evaluate[y] = Fraction(op, <<0, 1>>, Evaluate[u])
            <3>1. CASE Rank(u) # 3
                  <4>1. LeftText(op2, u) = DoPrintFormula[u]
                        <5>1. Rank(u) >= Priority(op2)
                              BY <2>4, <3>1, Ranks
                        <5>. QED BY <2>5, <5>1, OperandTexts
                  <4>2. PICK y : IsSigning(y, op, u, c)
                        BY <2>2, <2>3, <2>4, <3>1
                  <4>. QED BY <4>1, <4>2 DEF IsSigning
            <3>2. CASE Rank(u) = 3
                  <4>. DEFINE y == <<"unary", op, u>>
                  <4>1. IsMadeTree(y, c + 1, <<Symbol(op)>> \o SignText(u), Fraction(op, <<0, 1>>, Evaluate[u]))
                        BY <2>2, <2>3, UnaryMade
                  <4>2. SignText(u) = LeftText(op2, u)
                        <5>1. Rank(u) < Priority(op2)
                              BY <2>4, <3>2
                        <5>. QED BY <2>5, <3>2, <5>1, OperandTexts
                  <4>3. y \in Normal /\ Rank(y) = 5
                        BY <2>4, <3>2, <4>1, NormalCases, Ranks DEF IsMadeTree
                  <4>. HIDE DEF y
                  <4>. QED BY <4>1, <4>2, <4>3 DEF IsMadeTree
            <3>. QED BY <3>1, <3>2
      <2>7. PICK y : /\ y \in Trees[c+1] /\ y \in Normal /\ Rank(y) # 3
                     /\ DoPrintFormula[y] = <<Symbol(op)>> \o LeftText(op2, u)
                     /\ Evaluate[y] = Fraction(op, <<0, 1>>, Evaluate[u])
            BY <2>6
      <2>. DEFINE w == <<"binary", op2, y, t>>
      <2>8. /\ w \in Trees[b + 1] /\ y \in Formula /\ w \in Formula
            /\ DoPrintFormula[w] = LeftText(op2, y) \o <<Symbol(op2)>> \o RightText(op2, t)
            /\ Evaluate[w] = Fraction(op2, Evaluate[y], Evaluate[t])
            <3>. DEFINE d == b - 1 - c
                        e == c + 1
            <3>1. d \in 0..MaxOperators /\ e \in 0..MaxOperators /\ t \in Trees[d] /\ y \in Trees[e]
                  /\ e + d + 1 = b + 1 /\ e + d + 1 <= MaxOperators
                  BY <2>1, <2>2, <2>3, <2>7
            <3>. HIDE DEF d, e
            <3>2. /\ y \in Formula
                  /\ IsMadeTree(w, e + d + 1, LeftText(op2, y) \o <<Symbol(op2)>> \o RightText(op2, t),
                                Fraction(op2, Evaluate[y], Evaluate[t]))
                  BY <3>1, BinaryMade
            <3>. HIDE DEF w
            <3>. QED BY <3>1, <3>2 DEF IsMadeTree
      <2>9. LeftText(op2, y) = <<Symbol(op)>> \o LeftText(op2, u)
            <3>1. Rank(y) >= Priority(op2)
                  BY <2>4, <2>7, Ranks
            <3>. QED BY <2>7, <2>8, <3>1, OperandTexts
      <2>10. DoPrintFormula[w] = <<Symbol(op)>> \o DoPrintFormula[v]
             <3>1. LeftText(op2, u) \in Seq(Printed) /\ RightText(op2, t) \in Seq(Printed)
                   BY <2>5, OperandTexts
             <3>. DEFINE k == <<Symbol(op)>>
                         r == LeftText(op2, u)
                         s == <<Symbol(op2)>>
                         z == RightText(op2, t)
             <3>2. Cat(Cat(Cat(k, r), s), z) = Cat(k, Cat(Cat(r, s), z))
                   <4>1. Symbol(op) \in Printed /\ Symbol(op2) \in Printed
                         BY <1>1, SymbolsPrinted
                   <4>2. k \in Seq(Printed) /\ s \in Seq(Printed)
                         BY <4>1
                   <4>. HIDE DEF k, s
                   <4>. QED BY <3>1, <4>2, TextsRegroup
             <3>3. DoPrintFormula[w] = ((<<Symbol(op)>> \o LeftText(op2, u)) \o <<Symbol(op2)>>) \o RightText(op2, t)
                   BY <2>8, <2>9
             <3>. QED BY ONLY <2>5, <3>2, <3>3 DEF Cat
      <2>11. w \in Normal /\ Rank(w) = 4
             BY <2>4, <2>7, <2>8, NormalCases, Ranks
      <2>12. Evaluate[w] = Fraction(op, <<0, 1>>, Evaluate[v])
             <3>1. Evaluate[u] \in Value /\ Evaluate[t] \in Value
                   BY <2>5, EvaluateUnfolds
             <3>2. Evaluate[w] = Fraction(op2, Fraction(op, <<0, 1>>, Evaluate[u]), Evaluate[t])
                   BY <2>7, <2>8
             <3>. QED BY <2>4, <2>5, <3>1, <3>2, SignsAssociate
      <2>. HIDE DEF w
      <2>13. IsSigning(w, op, v, b)
             BY <2>4, <2>8, <2>10, <2>11, <2>12 DEF IsSigning
      <2>. QED BY <2>13
<1>6. Formula \subseteq S
      <2>. HIDE DEF S
      <2>. QED BY <1>3, <1>4, <1>5, TreeInduction
<1>. QED BY <1>6, NormalIsClosed

\* What is exact, and no signed divisor, in the parts of a tree.
Keepable(t) == IsExact(t) /\ ~HasSignedDivisor(t)

\* The exceptions are those of the parts, and a signed divisor.
LEMMA KeepableParts ==
    /\ \A l \in DOMAIN Number : Keepable(<<"NUMBER", l>>) => Rounded(Number[l]) = Number[l]
    /\ \A op \in AddSub, u \in Formula :
          <<"unary", op, u>> \in Formula /\ Keepable(<<"unary", op, u>>) => Keepable(u)
    /\ \A op \in Operator, u \in Formula, v \in Formula :
          <<"binary", op, u, v>> \in Formula /\ Keepable(<<"binary", op, u, v>>) =>
             /\ Keepable(u) /\ Keepable(v)
             /\ op = "/" /\ IsUnary(v) => GetPrecedence(Unsigned[v]) \notin MulDiv
<1>1. ASSUME NEW l \in DOMAIN Number, Keepable(<<"NUMBER", l>>)
      PROVE  Rounded(Number[l]) = Number[l]
      <2>1. <<"NUMBER", l>> \in Parts[<<"NUMBER", l>>]
            BY PartsUnfold
      <2>2. IsAtom(<<"NUMBER", l>>) /\ <<"NUMBER", l>>[2] = l
            BY TreeShapes
      <2>. QED BY <1>1, <2>1, <2>2 DEF Keepable, IsExact
<1>2. ASSUME NEW op \in AddSub, NEW u \in Formula, <<"unary", op, u>> \in Formula, Keepable(<<"unary", op, u>>)
      PROVE  Keepable(u)
      <2>1. Parts[u] \subseteq Parts[<<"unary", op, u>>]
            BY <1>2, PartsUnfold
      <2>. QED BY <1>2, <2>1 DEF Keepable, IsExact, HasSignedDivisor
<1>3. ASSUME NEW op \in Operator, NEW u \in Formula, NEW v \in Formula, <<"binary", op, u, v>> \in Formula,
             Keepable(<<"binary", op, u, v>>)
      PROVE  /\ Keepable(u) /\ Keepable(v)
             /\ op = "/" /\ IsUnary(v) => GetPrecedence(Unsigned[v]) \notin MulDiv
      <2>. DEFINE t == <<"binary", op, u, v>>
      <2>1. Parts[u] \subseteq Parts[t] /\ Parts[v] \subseteq Parts[t] /\ t \in Parts[t]
            BY <1>3, PartsUnfold
      <2>2. t[1] = "binary" /\ t[2] = op /\ t[4] = v
            OBVIOUS
      <2>3. Keepable(t)
            BY <1>3
      <2>. HIDE DEF t
      <2>. QED BY <2>1, <2>2, <2>3 DEF Keepable, IsExact, HasSignedDivisor
<1>. QED BY <1>1, <1>2, <1>3

\* w is the tree that the text of t is read as.
IsReread(t, w, n) ==
    /\ w \in Trees[n] /\ w \in Normal
    /\ DoPrintFormula[w] = DoPrintFormula[t]
    /\ Rank(t) # 5 => Rank(w) = Rank(t)
    /\ Rank(t) = 5 => Rank(w) \in {4, 5}
    /\ Rank(t) = 5 /\ Rank(w) = 4 => GetPrecedence(Unsigned[t]) \in MulDiv
    /\ Keepable(t) => Evaluate[w] = Evaluate[t]

HasReread(t) == \A n \in 0..MaxOperators : t \in Trees[n] => \E w : IsReread(t, w, n)

\* A literal is read as the numeral that is printed of it.
LEMMA NumberReread ==
    ASSUME NEW l \in DOMAIN Number
    PROVE  HasReread(<<"NUMBER", l>>)
<1>. DEFINE m == Numeral(Number[l]).chars
            t == <<"NUMBER", l>>
            w == <<"NUMBER", m>>
<1>1. /\ m \in DOMAIN Number /\ Number[m] = Rounded(Number[l])
      /\ Rounded(Number[l]) \in 0..100000 * Limit
      BY NumeralPrinted
<1>2. Rounded(Number[m]) = Rounded(Number[l])
      <2>1. Number[l] \in 0..100000 * Limit
            BY LiteralsAssumption
      <2>. QED BY <1>1, <2>1, RoundedTwice
<1>3. Numeral(Number[m]) = Numeral(Number[l])
      BY <1>2 DEF Numeral
<1>4. DoPrintFormula[w] = DoPrintFormula[t]
      <2>. HIDE DEF m
      <2>1. DoPrintFormula[<<"NUMBER", m>>] = <<Numeral(Number[m])>>
            BY <1>1, PrintUnfolds
      <2>2. DoPrintFormula[<<"NUMBER", l>>] = <<Numeral(Number[l])>>
            BY PrintUnfolds
      <2>. QED BY <1>3, <2>1, <2>2
<1>5. w \in Normal
      <2>1. Numeral(Number[m]).chars = m
            BY <1>3
      <2>. HIDE DEF m
      <2>. QED BY <1>1, <2>1, NormalCases
<1>6. Keepable(t) => Evaluate[w] = Evaluate[t]
      <2>. HIDE DEF m
      <2>. QED BY <1>1, EvaluateUnfolds, KeepableParts
<1>7. Rank(w) = 6 /\ Rank(t) = 6
      BY Ranks
<1>8. ASSUME NEW n \in 0..MaxOperators, t \in Trees[n]
      PROVE  w \in Trees[n]
      <2>1. n = 0
            BY <1>8, TreeCases
      <2>. HIDE DEF m
      <2>. QED BY <1>1, <2>1, TreeCases
<1>. HIDE DEF w, t
<1>9. HasReread(t)
      BY <1>4, <1>5, <1>6, <1>7, <1>8 DEF IsReread, HasReread
<1>. QED BY <1>9 DEF t

\* A sign.
LEMMA UnaryReread ==
    ASSUME NEW op \in AddSub, NEW u \in Formula, HasReread(u), <<"unary", op, u>> \in Formula
    PROVE  HasReread(<<"unary", op, u>>)
<1>. DEFINE t == <<"unary", op, u>>
<1>1. SUFFICES ASSUME NEW n \in 0..MaxOperators, t \in Trees[n]
               PROVE  \E w : IsReread(t, w, n)
      BY DEF HasReread
<1>. DEFINE k == n - 1
<1>2. n = k + 1 /\ k \in 0..MaxOperators /\ k + 1 <= MaxOperators /\ u \in Trees[k]
      <2>1. MaxOperators \in Nat
            BY LiteralsAssumption
      <2>2. n # 0 /\ u \in Trees[n-1]
            BY <1>1, TreeCases
      <2>. QED BY <2>1, <2>2
<1>. HIDE DEF k
<1>3. PICK x : IsReread(u, x, k)
      BY <1>2 DEF HasReread
<1>4. /\ DoPrintFormula[t] = <<Symbol(op)>> \o SignText(u)
      /\ Evaluate[t] = Fraction(op, <<0, 1>>, Evaluate[u])
      /\ Unsigned[t] = Unsigned[u]
      /\ Keepable(t) => Keepable(u)
      /\ Rank(t) = 5
      BY PrintUnfolds, EvaluateUnfolds, UnsignedUnfolds, KeepableParts, Ranks DEF SignText
<1>. HIDE DEF t
<1>5. x \in Trees[k] /\ x \in Normal /\ x \in Formula /\ DoPrintFormula[x] = DoPrintFormula[u]
      BY <1>3, NormalIsClosed DEF IsReread
<1>6. CASE Rank(u) = 3
      <2>. DEFINE w == <<"unary", op, x>>
      <2>1. Rank(x) = 3
            BY <1>3, <1>6 DEF IsReread
      <2>2. IsMadeTree(w, k + 1, <<Symbol(op)>> \o SignText(x), Fraction(op, <<0, 1>>, Evaluate[x]))
            BY <1>2, <1>5, UnaryMade
      <2>3. SignText(x) = SignText(u)
            BY <1>5, <1>6, <2>1, OperandTexts
      <2>4. w \in Normal /\ Rank(w) = 5
            BY <1>5, <2>1, <2>2, NormalCases, Ranks DEF IsMadeTree
      <2>5. Keepable(t) => Evaluate[x] = Evaluate[u]
            BY <1>3, <1>4 DEF IsReread
      <2>. HIDE DEF w
      <2>6. IsReread(t, w, n)
            BY <1>2, <1>4, <2>2, <2>3, <2>4, <2>5 DEF IsReread, IsMadeTree
      <2>. QED BY <2>6
<1>7. CASE Rank(u) # 3
      <2>1. Rank(x) # 3
            BY <1>3, <1>7, Ranks DEF IsReread
      <2>2. PICK w : IsSigning(w, op, x, k)
            BY <1>2, <1>5, <2>1, SignJoin
      <2>3. SignText(u) = DoPrintFormula[u]
            BY <1>7, OperandTexts
      <2>4. Rank(x) = 4 => GetPrecedence(Unsigned[t]) \in MulDiv
            <3>1. SUFFICES ASSUME Rank(x) = 4 PROVE GetPrecedence(Unsigned[u]) \in MulDiv
                  BY <1>4
            <3>2. CASE Rank(u) = 5
                  BY <1>3, <3>1, <3>2 DEF IsReread
            <3>3. CASE Rank(u) # 5
                  <4>1. Rank(u) = 4
                        BY <1>3, <3>1, <3>3 DEF IsReread
                  <4>2. PICK op2 \in Operator, v \in Formula, v2 \in Formula : u = <<"binary", op2, v, v2>>
                        BY <4>1, FormulaCases, Ranks
                  <4>3. Unsigned[u] = u /\ GetPrecedence(u) = op2 /\ Priority(op2) = 4
                        BY <4>1, <4>2, UnsignedUnfolds, TreeShapes, Ranks
                  <4>. QED BY <4>3 DEF Priority, Operator, AddSub, MulDiv
            <3>. QED BY <3>2, <3>3
      <2>5. Keepable(t) => Evaluate[x] = Evaluate[u]
            BY <1>3, <1>4 DEF IsReread
      <2>6. IsReread(t, w, n)
            BY <1>2, <1>4, <1>5, <2>2, <2>3, <2>4, <2>5 DEF IsReread, IsSigning
      <2>. QED BY <2>6
<1>. QED BY <1>6, <1>7 DEF t

\* An operator.
LEMMA BinaryReread ==
    ASSUME NEW op \in Operator, NEW u \in Formula, NEW v \in Formula, HasReread(u), HasReread(v),
           <<"binary", op, u, v>> \in Formula
    PROVE  HasReread(<<"binary", op, u, v>>)
<1>. DEFINE t == <<"binary", op, u, v>>
<1>1. SUFFICES ASSUME NEW n \in 0..MaxOperators, t \in Trees[n]
               PROVE  \E w : IsReread(t, w, n)
      BY DEF HasReread
<1>2. PICK a \in 0..n-1 : u \in Trees[a] /\ v \in Trees[n-1-a]
      BY <1>1, TreeCases
<1>. DEFINE b == n - 1 - a
<1>3. /\ n = a + b + 1 /\ a \in 0..MaxOperators /\ b \in 0..MaxOperators /\ a + b + 1 <= MaxOperators
      /\ u \in Trees[a] /\ v \in Trees[b]
      <2>1. MaxOperators \in Nat
            BY LiteralsAssumption
      <2>. QED BY <1>2, <2>1
<1>. HIDE DEF b
<1>4. PICK x : IsReread(u, x, a)
      BY <1>3 DEF HasReread
<1>5. PICK y : IsReread(v, y, b)
      BY <1>3 DEF HasReread
<1>6. /\ DoPrintFormula[t] = LeftText(op, u) \o <<Symbol(op)>> \o RightText(op, v)
      /\ Evaluate[t] = Fraction(op, Evaluate[u], Evaluate[v])
      /\ Keepable(t) => Keepable(u) /\ Keepable(v)
      /\ Keepable(t) /\ op = "/" /\ IsUnary(v) => GetPrecedence(Unsigned[v]) \notin MulDiv
      /\ Rank(t) = Priority(op)
      <2>1. DoPrintFormula[t] = LeftText(op, u) \o <<Symbol(op)>> \o RightText(op, v)
            BY PrintUnfolds DEF LeftText, RightText
      <2>2. Evaluate[t] = Fraction(op, Evaluate[u], Evaluate[v])
            BY EvaluateUnfolds
      <2>3. /\ Keepable(t) => Keepable(u) /\ Keepable(v)
            /\ Keepable(t) /\ op = "/" /\ IsUnary(v) => GetPrecedence(Unsigned[v]) \notin MulDiv
            BY KeepableParts
      <2>4. Rank(t) = Priority(op)
            BY Ranks
      <2>. QED BY <2>1, <2>2, <2>3, <2>4
<1>. HIDE DEF t
<1>7. /\ x \in Trees[a] /\ x \in Normal /\ x \in Formula /\ DoPrintFormula[x] = DoPrintFormula[u]
      /\ y \in Trees[b] /\ y \in Normal /\ y \in Formula /\ DoPrintFormula[y] = DoPrintFormula[v]
      BY <1>4, <1>5, NormalIsClosed DEF IsReread
<1>8. Priority(op) \in 3..4 /\ Rank(u) \in 3..6 /\ Rank(v) \in 3..6 /\ Rank(x) \in 3..6 /\ Rank(y) \in 3..6
      BY Ranks
<1>9. LeftText(op, x) = LeftText(op, u)
      <2>1. CASE Rank(u) < Priority(op)
            <3>1. Rank(x) < Priority(op)
                  BY <1>4, <1>8, <2>1 DEF IsReread
            <3>2. LeftText(op, x) = InParens(DoPrintFormula[x])
                  BY <1>7, <3>1, OperandTexts
            <3>3. LeftText(op, u) = InParens(DoPrintFormula[u])
                  BY <2>1, OperandTexts
            <3>. QED BY <1>7, <3>2, <3>3
      <2>2. CASE Rank(u) >= Priority(op)
            <3>1. Rank(x) >= Priority(op)
                  BY <1>4, <1>8, <2>2 DEF IsReread
            <3>2. LeftText(op, x) = DoPrintFormula[x]
                  BY <1>7, <3>1, OperandTexts
            <3>3. LeftText(op, u) = DoPrintFormula[u]
                  BY <2>2, OperandTexts
            <3>. QED BY <1>7, <3>2, <3>3
      <2>. QED BY <1>8, <2>1, <2>2
<1>10. Keepable(t) => Evaluate[x] = Evaluate[u] /\ Evaluate[y] = Evaluate[v]
       BY <1>4, <1>5, <1>6 DEF IsReread
<1>11. CASE Rank(v) < Priority(op) \/ (Rank(v) = Priority(op) /\ op \in {"-", "/"})
       <2>. DEFINE w == <<"binary", op, x, y>>
       <2>1. Rank(y) = Rank(v)
             BY <1>5, <1>8, <1>11 DEF IsReread
       <2>2. IsMadeTree(w, a + b + 1, LeftText(op, x) \o <<Symbol(op)>> \o RightText(op, y),
                        Fraction(op, Evaluate[x], Evaluate[y]))
             BY <1>3, <1>7, BinaryMade
       <2>3. RightText(op, y) = RightText(op, v)
             <3>1. RightText(op, v) = InParens(DoPrintFormula[v])
                   BY <1>11, OperandTexts
             <3>2. RightText(op, y) = InParens(DoPrintFormula[y])
                   BY <1>7, <1>11, <2>1, OperandTexts
             <3>. QED BY <1>7, <3>1, <3>2
       <2>4. w \in Normal /\ Rank(w) = Priority(op)
             BY <1>7, <1>8, <1>11, <2>1, <2>2, NormalCases, Ranks DEF IsMadeTree
       <2>. HIDE DEF w
       <2>5. IsReread(t, w, n)
             BY <1>3, <1>6, <1>8, <1>9, <1>10, <2>2, <2>3, <2>4 DEF IsReread, IsMadeTree
       <2>. QED BY <2>5
<1>12. CASE ~(Rank(v) < Priority(op) \/ (Rank(v) = Priority(op) /\ op \in {"-", "/"}))
       <2>1. RightText(op, v) = DoPrintFormula[v]
             <3>1. CASE Rank(v) > Priority(op)
                   BY <3>1, OperandTexts
             <3>2. CASE Rank(v) = Priority(op) /\ op \notin {"-", "/"}
                   <4>1. <<op, GetPrecedence(v)>> \notin ParensRight
                         <5>1. ~(Rank(v) < Priority(op) \/ (Rank(v) = Priority(op) /\ op \in {"-", "/"}))
                               BY <1>12
                         <5>. QED BY <5>1, ParensByRank
                   <4>. QED BY <4>1 DEF RightText, PrintFormula
             <3>. QED BY <1>8, <1>12, <3>1, <3>2
       <2>2. Rank(y) >= Priority(op)
             BY <1>5, <1>8, <1>12 DEF IsReread
       <2>3. PICK w : /\ IsReading(w, a + b + 1, Priority(op), LeftText(op, x) \o <<Symbol(op)>> \o DoPrintFormula[y])
                      /\ Rank(y) > Priority(op) \/ op \in {"+", "*"} =>
                            Evaluate[w] = Fraction(op, Evaluate[x], Evaluate[y])
             BY <1>3, <1>7, <2>2, Join
       <2>4. Keepable(t) => Rank(y) > Priority(op) \/ op \in {"+", "*"}
             <3>1. SUFFICES ASSUME Keepable(t), op \in {"-", "/"}
                            PROVE  Rank(y) > Priority(op)
                   BY DEF Operator
             <3>2. Rank(v) > Priority(op)
                   BY <1>8, <1>12, <3>1
             <3>3. CASE Rank(v) # 5
                   BY <1>5, <3>2, <3>3 DEF IsReread
             <3>4. CASE Rank(v) = 5 /\ op = "-"
                   BY <1>5, <3>4 DEF IsReread, Priority, AddSub
             <3>5. CASE Rank(v) = 5 /\ op = "/"
                   <4>1. IsUnary(v)
                         BY <3>5, FormulaCases, Ranks, TreeShapes
                   <4>2. Rank(y) = 5
                         BY <1>5, <1>6, <3>1, <3>5, <4>1 DEF IsReread
                   <4>. QED BY <1>8, <4>2
             <3>. QED BY <3>1, <3>3, <3>4, <3>5
       <2>5. IsReread(t, w, n)
             BY <1>3, <1>6, <1>7, <1>8, <1>9, <1>10, <2>1, <2>3, <2>4 DEF IsReread, IsReading
       <2>. QED BY <2>5
<1>. QED BY <1>11, <1>12 DEF t

\* The text of every tree is that of one that is what its text reads as.
LEMMA Reread == \A t \in Formula : HasReread(t)
<1>. DEFINE S == {t \in Formula : HasReread(t)}
<1>1. \A l \in DOMAIN Number : <<"NUMBER", l>> \in S
      BY NumberReread, NumbersAreTrees
<1>2. \A op \in AddSub, u \in S \cap Formula : <<"unary", op, u>> \in Formula => <<"unary", op, u>> \in S
      BY UnaryReread
<1>3. \A op \in Operator, u \in S \cap Formula, v \in S \cap Formula :
         <<"binary", op, u, v>> \in Formula => <<"binary", op, u, v>> \in S
      BY BinaryReread
<1>4. Formula \subseteq S
      <2>. HIDE DEF S
      <2>. QED BY <1>1, <1>2, <1>3, TreeInduction
<1>. QED BY <1>4

---------------------------------------------------------------------------
(***************************************************************************)
(* A text is read as one tree.                                             *)
(***************************************************************************)

\* A call for what binds no less than k.
CallFor(k) == [p |-> k]

\* What is read where it begins: all that is there has a first part in common, which
\* is larger than any other that all have.
LEMMA ReadingIsUnique ==
    ASSUME NEW ts, IsTokens(ts)
    PROVE  \A start \in Nat, k \in 0..5 : \A e, f :
              Reads(ts, CallFor(k), start, e) /\ Reads(ts, CallFor(k), start, f) => e = f
<1>. DEFINE One(start) == \A k \in 0..5 : \A e, f :
                             Reads(ts, CallFor(k), start, e) /\ Reads(ts, CallFor(k), start, f) => e = f
            l == Len(ts)
            B == {d \in Nat : \E start \in Nat : d = l - start /\ ~One(start)}
<1>1. l \in Nat
      BY LenProperties DEF IsTokens
<1>2. \A k : CallFor(k).p = k
      BY DEF CallFor
<1>3. ASSUME NEW start \in Nat, \A s \in Nat : s > start => One(s)
      PROVE  One(start)
      <2>1. SUFFICES ASSUME NEW k \in 0..5, NEW e, NEW f,
                            Reads(ts, CallFor(k), start, e), Reads(ts, CallFor(k), start, f)
                     PROVE  e = f
            OBVIOUS
      <2>. HIDE DEF One
      <2>2. /\ e \in Derived(ts) /\ f \in Derived(ts) /\ e.first = start /\ f.first = start
            BY <2>1 DEF Reads
      <2>3. \A y \in Derived(ts) : InRange(ts, y)
            BY DerivedIsMade
      <2>. DEFINE C == Spine(ts, e) \cap Spine(ts, f)
      <2>4. C # {}
            <3>1. CASE IsLeaf(ts, start)
                  BY <2>2, <3>1, FirstTokenTells
            <3>2. CASE ts[start].kind = "("
                  <4>1. PICK z \in Derived(ts) : /\ z.first = start + 1
                                                 /\ IsBracketed(ts, z) /\ Bracketed(z) \in Spine(ts, e)
                        BY <2>2, <3>2, FirstTokenTells
                  <4>2. PICK y \in Derived(ts) : /\ y.first = start + 1
                                                 /\ IsBracketed(ts, y) /\ Bracketed(y) \in Spine(ts, f)
                        BY <2>2, <3>2, FirstTokenTells
                  <4>3. \A x \in Derived(ts) : x.first = start + 1 /\ IsBracketed(ts, x) =>
                           Reads(ts, CallFor(0), start + 1, x)
                        <5>1. SUFFICES ASSUME NEW x \in Derived(ts), x.first = start + 1, IsBracketed(ts, x)
                                       PROVE  Reads(ts, CallFor(0), start + 1, x)
                              OBVIOUS
                        <5>2. x.p >= CallFor(0).p
                              BY <1>2, <2>3 DEF InRange
                        <5>3. ts[x.last + 1].kind \notin Operator
                              BY <5>1 DEF IsBracketed, Operator
                        <5>. QED BY <5>1, <5>2, <5>3 DEF Reads
                  <4>4. One(start + 1)
                        BY <1>3
                  <4>5. z = y
                        BY <4>1, <4>2, <4>3, <4>4 DEF One
                  <4>. QED BY <4>1, <4>2, <4>5
            <3>3. CASE ts[start].kind \in AddSub
                  <4>1. PICK z \in Derived(ts) : /\ z.first = start + 1
                                                 /\ IsSigned(ts, z) /\ Signed(ts, z) \in Spine(ts, e)
                        BY <2>2, <3>3, FirstTokenTells
                  <4>2. PICK y \in Derived(ts) : /\ y.first = start + 1
                                                 /\ IsSigned(ts, y) /\ Signed(ts, y) \in Spine(ts, f)
                        BY <2>2, <3>3, FirstTokenTells
                  <4>3. \A x \in Derived(ts) : x.first = start + 1 /\ IsSigned(ts, x) =>
                           Reads(ts, CallFor(5), start + 1, x)
                        BY <1>2, <2>3 DEF Reads, IsSigned, InRange, Priority
                  <4>4. One(start + 1)
                        BY <1>3
                  <4>5. z = y
                        BY <4>1, <4>2, <4>3, <4>4 DEF One
                  <4>. QED BY <4>1, <4>2, <4>5
            <3>. QED BY <2>2, <3>1, <3>2, <3>3, FirstTokenTells
      <2>5. \A y \in C : y \in Derived(ts) /\ y.first = start /\ y.last \in start..l-1
            BY <2>2, <2>3, SpineBegins DEF InRange
      <2>6. PICK cur \in C : \A y \in C : y.last <= cur.last
            <3>. DEFINE D == {l - y.last : y \in C}
            <3>1. D # {} /\ D \in SUBSET Nat
                  BY <1>1, <2>4, <2>5
            <3>2. PICK d \in D : \A j \in D : d <= j
                  <4>. HIDE DEF D
                  <4>. QED BY <3>1, LeastNatural
            <3>3. PICK y \in C : d = l - y.last
                  OBVIOUS
            <3>4. \A z \in C : l - z.last \in D
                  OBVIOUS
            <3>. HIDE DEF C, D
            <3>5. ASSUME NEW z \in C PROVE z.last <= y.last
                  <4>1. d <= l - z.last
                        BY <3>2, <3>4
                  <4>. QED BY <1>1, <2>5, <3>3, <4>1
            <3>. QED BY <3>5
      <2>. DEFINE op == ts[cur.last + 1].kind
      <2>7. cur \in Spine(ts, e) /\ cur \in Spine(ts, f) /\ CallFor(k).p = k
            BY <1>2
      <2>8. CASE ~(op \in Operator /\ k <= Priority(op))
            <3>1. cur = e
                  BY <2>1, <2>7, <2>8, NextTokenTells
            <3>2. cur = f
                  BY <2>1, <2>7, <2>8, NextTokenTells
            <3>. QED BY <3>1, <3>2
      <2>9. CASE op \in Operator /\ k <= Priority(op)
            <3>1. PICK z : /\ AreJoined(ts, cur, z) /\ Joined(ts, cur, z) \in Spine(ts, e)
                           /\ \A more : more.p = Priority(op) + 1 => Reads(ts, more, cur.last + 2, z)
                  BY <2>1, <2>7, <2>9, NextTokenTells
            <3>2. PICK y : /\ AreJoined(ts, cur, y) /\ Joined(ts, cur, y) \in Spine(ts, f)
                           /\ \A more : more.p = Priority(op) + 1 => Reads(ts, more, cur.last + 2, y)
                  BY <2>1, <2>7, <2>9, NextTokenTells
            <3>. DEFINE m == Priority(op) + 1
            <3>3. m \in 0..5
                  BY DEF Priority
            <3>4. CallFor(m).p = m
                  BY <1>2
            <3>. HIDE DEF op
            <3>5. Reads(ts, CallFor(m), cur.last + 2, z) /\ Reads(ts, CallFor(m), cur.last + 2, y)
                  BY <3>1, <3>2, <3>4
            <3>6. cur.last + 2 \in Nat /\ cur.last + 2 > start
                  BY <2>5
            <3>7. z = y
                  <4>1. One(cur.last + 2)
                        BY <1>3, <3>6
                  <4>. HIDE DEF m
                  <4>. QED BY <3>3, <3>5, <4>1 DEF One
            <3>8. Joined(ts, cur, z) \in C
                  BY <3>1, <3>2, <3>7
            <3>9. Joined(ts, cur, z).last = z.last
                  BY DEF Joined, Item
            <3>10. z.last > cur.last
                   <4>1. z \in Derived(ts) /\ z.first = cur.last + 2
                         BY <3>5 DEF Reads
                   <4>2. InRange(ts, z)
                         BY <2>3, <4>1
                   <4>. QED BY <2>5, <4>1, <4>2 DEF InRange
            <3>11. z.last <= cur.last
                   BY <2>6, <3>8, <3>9
            <3>12. z.last \in Nat /\ cur.last \in Nat
                   <4>. HIDE DEF C
                   <4>. QED BY <2>5, <3>8, <3>9
            <3>. QED BY <3>10, <3>11, <3>12
      <2>. QED BY <2>8, <2>9
<1>4. ASSUME NEW start \in Nat, start >= l
      PROVE  One(start)
      <2>1. \A y \in Derived(ts) : y.first \in 1..l-1
            BY DerivedIsMade DEF InRange
      <2>2. ~ \E k \in 0..5 : \E e : Reads(ts, CallFor(k), start, e)
            BY <1>1, <1>4, <2>1 DEF Reads
      <2>. QED BY <2>2
<1>. HIDE DEF One
<1>5. B = {}
      <2>1. SUFFICES ASSUME B # {} PROVE FALSE
            OBVIOUS
      <2>2. PICK d \in B : \A j \in B : d <= j
            <3>. B \in SUBSET Nat
                 OBVIOUS
            <3>. HIDE DEF B
            <3>. QED BY <2>1, LeastNatural
      <2>3. PICK start \in Nat : d = l - start /\ ~One(start)
            OBVIOUS
      <2>4. PICK s \in Nat : s > start /\ ~One(s)
            BY <1>3, <2>3
      <2>5. s < l
            BY <1>1, <1>4, <2>4
      <2>6. l - s \in B
            BY <1>1, <2>4, <2>5
      <2>7. d <= l - s
            <3>. HIDE DEF B
            <3>. QED BY <2>2, <2>6
      <2>. QED BY <1>1, <2>3, <2>4, <2>5, <2>7
<1>6. \A start \in Nat : One(start)
      <2>1. SUFFICES ASSUME NEW start \in Nat, ~One(start) PROVE FALSE
            OBVIOUS
      <2>2. start < l
            BY <1>1, <1>4, <2>1
      <2>3. l - start \in B
            BY <1>1, <2>1, <2>2
      <2>. HIDE DEF B
      <2>. QED BY <1>5, <2>3
<1>. QED BY <1>6 DEF One

\* All tokens but the last are one item.
LEMMA WholeIsUnique ==
    ASSUME NEW ts, IsTokens(ts), NEW x \in Whole(ts), NEW y \in Whole(ts)
    PROVE  x = y
<1>1. /\ x \in Derived(ts) /\ x.first = 1 /\ x.last = Len(ts) - 1
      /\ y \in Derived(ts) /\ y.first = 1 /\ y.last = Len(ts) - 1
      BY WholeIsDerived
<1>2. Len(ts) \in Nat \ {0} /\ IsLastToken(ts[Len(ts)])
      BY EmptySeq, LenProperties DEF IsTokens
<1>3. ts[Len(ts)].kind \notin Operator
      BY <1>2 DEF IsLastToken, Operator
<1>4. InRange(ts, x) /\ InRange(ts, y) /\ x.last + 1 = Len(ts) /\ y.last + 1 = Len(ts)
      <2>1. InRange(ts, x) /\ InRange(ts, y)
            BY <1>1, DerivedIsMade
      <2>2. x.last + 1 = Len(ts) /\ y.last + 1 = Len(ts)
            BY <1>1, <1>2
      <2>. QED BY <2>1, <2>2
<1>5. CallFor(0).p = 0
      BY DEF CallFor
<1>6. Reads(ts, CallFor(0), 1, x) /\ Reads(ts, CallFor(0), 1, y)
      BY <1>1, <1>3, <1>4, <1>5 DEF Reads, InRange
<1>. QED BY <1>6, ReadingIsUnique

---------------------------------------------------------------------------
(***************************************************************************)
(* What a text is read as.                                                 *)
(***************************************************************************)

\* The text w stands among the tokens ts, from the one at i, and is not the last there.
Placed(ts, i, w) == i + Len(w) <= Len(ts) /\ \A k \in 1..Len(w) : ts[i + k - 1] = w[k]

\* A text that stands somewhere does so with its parts.
LEMMA PlacedConcat ==
    ASSUME NEW ts, Len(ts) \in Nat, NEW i \in Nat \ {0}, NEW u \in Seq(Printed), NEW v \in Seq(Printed),
           Placed(ts, i, u \o v)
    PROVE  Placed(ts, i, u) /\ Placed(ts, i + Len(u), v)
<1>1. /\ Len(u) \in Nat /\ Len(v) \in Nat /\ Len(u \o v) = Len(u) + Len(v)
      /\ \A k \in 1..Len(u) : (u \o v)[k] = u[k]
      /\ \A k \in 1..Len(v) : (u \o v)[Len(u) + k] = v[k]
      OBVIOUS
<1>. DEFINE w == u \o v
            m == Len(u)
            n == Len(v)
<1>2. i + Len(w) <= Len(ts) /\ \A k \in 1..Len(w) : ts[i + k - 1] = w[k]
      BY DEF Placed
<1>. HIDE DEF w, m, n
<1>3. Len(w) = m + n /\ m \in Nat /\ n \in Nat
      BY <1>1 DEF w, m, n
<1>4. ASSUME NEW k \in 1..m PROVE ts[i + k - 1] = u[k]
      <2>1. k \in 1..Len(w)
            BY <1>3
      <2>2. w[k] = u[k]
            BY <1>1 DEF w, m
      <2>. QED BY <1>2, <2>1, <2>2
<1>5. ASSUME NEW k \in 1..n PROVE ts[(i + m) + k - 1] = v[k]
      <2>1. m + k \in 1..Len(w) /\ (i + m) + k - 1 = i + (m + k) - 1
            BY <1>3
      <2>2. w[m + k] = v[k]
            BY <1>1 DEF w, m, n
      <2>. QED BY <1>2, <2>1, <2>2
<1>. QED BY <1>2, <1>3, <1>4, <1>5 DEF Placed, m, n

\* A single token that stands somewhere.
LEMMA PlacedSymbol ==
    ASSUME NEW ts, Len(ts) \in Nat, NEW i \in Nat \ {0}, NEW s, Placed(ts, i, <<s>>)
    PROVE  i + 1 <= Len(ts) /\ ts[i] = s
BY DEF Placed

\* Wherever it stands, w is an item: the tree t, which binds as p.
ReadsAs(ts, t, w, p) ==
    \A i \in Nat \ {0} : Placed(ts, i, w) => Item(i, i + Len(w) - 1, t, p) \in Derived(ts)

\* A number is read as a number.
LEMMA LeafReads ==
    ASSUME NEW ts, IsTokens(ts), NEW x, x.kind = "NUMBER"
    PROVE  ReadsAs(ts, <<"NUMBER", x.chars>>, <<x>>, 6)
<1>1. SUFFICES ASSUME NEW i \in Nat \ {0}, Placed(ts, i, <<x>>)
               PROVE  Item(i, i + Len(<<x>>) - 1, <<"NUMBER", x.chars>>, 6) \in Derived(ts)
      BY DEF ReadsAs
<1>2. Len(ts) \in Nat
      BY LenProperties DEF IsTokens
<1>3. i + 1 <= Len(ts) /\ ts[i] = x
      BY <1>1, <1>2, PlacedSymbol
<1>4. i \in 1..Len(ts) /\ IsLeaf(ts, i) /\ i + Len(<<x>>) - 1 = i
      BY <1>2, <1>3 DEF IsLeaf
<1>5. LeafAt(ts, i) = Item(i, i + Len(<<x>>) - 1, <<"NUMBER", x.chars>>, 6)
      BY <1>3, <1>4 DEF LeafAt
<1>6. IsMade(ts, LeafAt(ts, i), Derived(ts))
      BY <1>4 DEF IsMade
<1>. QED BY <1>5, <1>6, DerivedIsMade

\* What parentheses enclose is read as an atom.
LEMMA ParensRead ==
    ASSUME NEW ts, IsTokens(ts), NEW t, NEW w \in Seq(Printed), NEW p, ReadsAs(ts, t, w, p)
    PROVE  ReadsAs(ts, t, InParens(w), 6)
<1>1. SUFFICES ASSUME NEW i \in Nat \ {0}, Placed(ts, i, InParens(w))
               PROVE  Item(i, i + Len(InParens(w)) - 1, t, 6) \in Derived(ts)
      BY DEF ReadsAs
<1>. DEFINE open == <<Symbol("(")>>
            close == <<Symbol(")")>>
            x == Item(i + 1, i + 1 + Len(w) - 1, t, p)
<1>2. Symbol("(") \in Printed /\ Symbol(")") \in Printed /\ Symbol("(").kind = "(" /\ Symbol(")").kind = ")"
      BY SymbolsPrinted DEF Bracket
<1>3. Len(ts) \in Nat /\ Len(w) \in Nat /\ Len(InParens(w)) = Len(w) + 2
      BY LenProperties, InParensType DEF IsTokens
<1>4. open \in Seq(Printed) /\ close \in Seq(Printed) /\ Len(open) = 1 /\ open \o w \in Seq(Printed)
      /\ Len(open \o w) = 1 + Len(w)
      BY <1>2
<1>5. Placed(ts, i, open \o w) /\ Placed(ts, i + (1 + Len(w)), close)
      <2>1. InParens(w) = (open \o w) \o close
            BY DEF InParens
      <2>2. \A u \in Seq(Printed), v \in Seq(Printed) :
               Placed(ts, i, u \o v) => Placed(ts, i, u) /\ Placed(ts, i + Len(u), v)
            BY <1>3, PlacedConcat
      <2>. HIDE DEF open, close
      <2>. QED BY <1>1, <1>4, <2>1, <2>2
<1>6. Placed(ts, i, open) /\ Placed(ts, i + 1, w)
      <2>. HIDE DEF open
      <2>. QED BY <1>3, <1>4, <1>5, PlacedConcat
<1>7. /\ ts[i].kind = "(" /\ ts[i + (1 + Len(w))].kind = ")"
      <2>1. ts[i] = Symbol("(")
            BY <1>3, <1>6, PlacedSymbol
      <2>2. ts[i + (1 + Len(w))] = Symbol(")")
            BY <1>3, <1>5, PlacedSymbol
      <2>. QED BY <1>2, <2>1, <2>2
<1>8. x \in Derived(ts)
      BY <1>6 DEF ReadsAs
<1>9. x.first = i + 1 /\ x.last = i + Len(w) /\ x.tree = t
      BY <1>3 DEF Item
<1>. HIDE DEF x
<1>10. IsBracketed(ts, x)
       BY <1>3, <1>7, <1>9 DEF IsBracketed
<1>11. Bracketed(x) = Item(i, i + Len(InParens(w)) - 1, t, 6)
       <2>1. x.first - 1 = i /\ x.last + 1 = i + Len(InParens(w)) - 1
             BY <1>3, <1>9
       <2>. QED BY <1>9, <2>1 DEF Bracketed
<1>12. IsMade(ts, Bracketed(x), Derived(ts))
       BY <1>8, <1>10 DEF IsMade
<1>. QED BY <1>11, <1>12, DerivedIsMade

\* A sign and what binds at least as a sign is one item.
LEMMA SignReads ==
    ASSUME NEW ts, IsTokens(ts), NEW op \in AddSub, NEW t, NEW w \in Seq(Printed), NEW p \in Int, p >= 5,
           ReadsAs(ts, t, w, p)
    PROVE  ReadsAs(ts, <<"unary", op, t>>, <<Symbol(op)>> \o w, 5)
<1>. DEFINE sign == <<Symbol(op)>>
<1>1. SUFFICES ASSUME NEW i \in Nat \ {0}, Placed(ts, i, sign \o w)
               PROVE  Item(i, i + Len(sign \o w) - 1, <<"unary", op, t>>, 5) \in Derived(ts)
      BY DEF ReadsAs
<1>. DEFINE x == Item(i + 1, i + 1 + Len(w) - 1, t, p)
<1>2. Symbol(op) \in Printed /\ Symbol(op).kind = op
      BY SymbolsPrinted DEF AddSub, Operator
<1>3. Len(ts) \in Nat /\ Len(w) \in Nat
      BY LenProperties DEF IsTokens
<1>4. sign \in Seq(Printed) /\ Len(sign) = 1 /\ Len(sign \o w) = 1 + Len(w)
      BY <1>2
<1>5. Placed(ts, i, sign) /\ Placed(ts, i + 1, w)
      <2>. HIDE DEF sign
      <2>. QED BY <1>1, <1>3, <1>4, PlacedConcat
<1>6. ts[i].kind = op
      <2>1. ts[i] = Symbol(op)
            BY <1>3, <1>5, PlacedSymbol
      <2>. QED BY <1>2, <2>1
<1>7. x \in Derived(ts)
      BY <1>5 DEF ReadsAs
<1>8. x.first = i + 1 /\ x.last = i + Len(w) /\ x.tree = t /\ x.p = p
      BY <1>3 DEF Item
<1>. HIDE DEF x, sign
<1>9. x.first - 1 = i /\ x.last = i + Len(sign \o w) - 1
      BY <1>3, <1>4, <1>8
<1>10. IsSigned(ts, x)
       BY <1>6, <1>8, <1>9 DEF IsSigned
<1>11. Signed(ts, x) = Item(i, i + Len(sign \o w) - 1, <<"unary", op, t>>, 5)
       BY <1>6, <1>8, <1>9 DEF Signed
<1>12. IsMade(ts, Signed(ts, x), Derived(ts))
       BY <1>7, <1>10 DEF IsMade
<1>. QED BY <1>11, <1>12, DerivedIsMade

\* An operator makes one item of a left operand that binds no less than it, and of a
\* right operand that binds more.
LEMMA JoinReads ==
    ASSUME NEW ts, IsTokens(ts), NEW op \in Operator,
           NEW t, NEW w \in Seq(Printed), NEW p \in Int, p >= Priority(op), ReadsAs(ts, t, w, p),
           NEW u, NEW v \in Seq(Printed), NEW q \in Int, q > Priority(op), ReadsAs(ts, u, v, q)
    PROVE  ReadsAs(ts, <<"binary", op, t, u>>, w \o <<Symbol(op)>> \o v, Priority(op))
<1>. DEFINE sign == <<Symbol(op)>>
            all == w \o sign \o v
<1>1. SUFFICES ASSUME NEW i \in Nat \ {0}, Placed(ts, i, all)
               PROVE  Item(i, i + Len(all) - 1, <<"binary", op, t, u>>, Priority(op)) \in Derived(ts)
      BY DEF ReadsAs
<1>. DEFINE j == i + Len(w) + 1
            x == Item(i, i + Len(w) - 1, t, p)
            y == Item(j, j + Len(v) - 1, u, q)
<1>2. Symbol(op) \in Printed /\ Symbol(op).kind = op
      BY SymbolsPrinted
<1>3. Len(ts) \in Nat /\ Len(w) \in Nat /\ Len(v) \in Nat /\ j \in Nat \ {0}
      BY LenProperties DEF IsTokens
<1>4. /\ sign \in Seq(Printed) /\ Len(sign) = 1 /\ w \o sign \in Seq(Printed)
      /\ Len(w \o sign) = Len(w) + 1 /\ Len(all) = Len(w) + 1 + Len(v)
      BY <1>2
<1>5. Placed(ts, i, w \o sign) /\ Placed(ts, j, v)
      <2>1. i + (Len(w) + 1) = j
            BY <1>3
      <2>2. \A r \in Seq(Printed), s \in Seq(Printed) :
               Placed(ts, i, r \o s) => Placed(ts, i, r) /\ Placed(ts, i + Len(r), s)
            BY <1>3, PlacedConcat
      <2>. HIDE DEF sign, j
      <2>. QED BY <1>1, <1>4, <2>1, <2>2
<1>6. Placed(ts, i, w) /\ Placed(ts, i + Len(w), sign)
      <2>. HIDE DEF sign
      <2>. QED BY <1>3, <1>4, <1>5, PlacedConcat
<1>7. ts[i + Len(w)].kind = op
      <2>1. i + Len(w) \in Nat \ {0}
            BY <1>3
      <2>2. ts[i + Len(w)] = Symbol(op)
            BY <1>3, <1>6, <2>1, PlacedSymbol
      <2>. QED BY <1>2, <2>2
<1>8. x \in Derived(ts) /\ y \in Derived(ts)
      <2>. HIDE DEF j
      <2>. QED BY <1>3, <1>5, <1>6 DEF ReadsAs
<1>9. /\ x.first = i /\ x.last = i + Len(w) - 1 /\ x.tree = t /\ x.p = p
      /\ y.first = j /\ y.last = j + Len(v) - 1 /\ y.tree = u /\ y.p = q
      BY DEF Item
<1>10. x.last + 1 = i + Len(w) /\ y.first = x.last + 2 /\ y.last = i + Len(all) - 1
       <2>. HIDE DEF x, y, all, sign
       <2>. QED BY <1>3, <1>4, <1>9
<1>. HIDE DEF x, y, all, sign, j
<1>11. ts[x.last + 1].kind = op
       BY <1>7, <1>10
<1>12. AreJoined(ts, x, y)
       BY <1>9, <1>10, <1>11 DEF AreJoined
<1>13. Joined(ts, x, y) = Item(i, i + Len(all) - 1, <<"binary", op, t, u>>, Priority(op))
       BY <1>9, <1>10, <1>11 DEF Joined
<1>14. IsMade(ts, Joined(ts, x, y), Derived(ts))
       BY <1>8, <1>12 DEF IsMade
<1>. QED BY <1>13, <1>14, DerivedIsMade

\* An operand is read as one, with parentheses or without.
LEMMA OperandReads ==
    ASSUME NEW ts, IsTokens(ts), NEW u \in Formula, ReadsAs(ts, u, DoPrintFormula[u], Rank(u))
    PROVE  /\ Rank(u) # 4 => \E p \in Int : p >= 5 /\ ReadsAs(ts, u, SignText(u), p)
           /\ \A op \in Operator : \E p \in Int : p >= Priority(op) /\ ReadsAs(ts, u, LeftText(op, u), p)
           /\ \A op \in Operator : (Rank(u) = Priority(op) => op \in {"-", "/"}) =>
                 \E p \in Int : p > Priority(op) /\ ReadsAs(ts, u, RightText(op, u), p)
<1>1. ReadsAs(ts, u, InParens(DoPrintFormula[u]), 6)
      BY OperandTexts, ParensRead
<1>2. Rank(u) \in 3..6 /\ Rank(u) \in Int /\ \A op : Priority(op) \in 3..4
      BY Ranks
<1>3. Rank(u) # 4 => \E p \in Int : p >= 5 /\ ReadsAs(ts, u, SignText(u), p)
      <2>1. CASE Rank(u) = 3
            <3>1. SignText(u) = InParens(DoPrintFormula[u])
                  BY <2>1, OperandTexts
            <3>. QED BY <1>1, <3>1
      <2>2. CASE Rank(u) \in {5, 6}
            <3>1. SignText(u) = DoPrintFormula[u]
                  BY <2>2, OperandTexts
            <3>. QED BY <1>2, <2>2, <3>1
      <2>. QED BY <1>2, <2>1, <2>2
<1>4. ASSUME NEW op \in Operator
      PROVE  \E p \in Int : p >= Priority(op) /\ ReadsAs(ts, u, LeftText(op, u), p)
      <2>1. CASE Rank(u) >= Priority(op)
            <3>1. LeftText(op, u) = DoPrintFormula[u]
                  BY <2>1, OperandTexts
            <3>. QED BY <1>2, <2>1, <3>1
      <2>2. CASE Rank(u) < Priority(op)
            <3>1. LeftText(op, u) = InParens(DoPrintFormula[u])
                  BY <2>2, OperandTexts
            <3>2. 6 >= Priority(op)
                  BY <1>2
            <3>. QED BY <1>1, <3>1, <3>2
      <2>. QED BY <1>2, <2>1, <2>2
<1>5. ASSUME NEW op \in Operator, Rank(u) = Priority(op) => op \in {"-", "/"}
      PROVE  \E p \in Int : p > Priority(op) /\ ReadsAs(ts, u, RightText(op, u), p)
      <2>1. CASE Rank(u) > Priority(op)
            <3>1. RightText(op, u) = DoPrintFormula[u]
                  BY <2>1, OperandTexts
            <3>. QED BY <1>2, <2>1, <3>1
      <2>2. CASE Rank(u) <= Priority(op)
            <3>1. RightText(op, u) = InParens(DoPrintFormula[u])
                  BY <1>2, <1>5, <2>2, OperandTexts
            <3>2. 6 > Priority(op)
                  BY <1>2
            <3>. QED BY <1>1, <3>1, <3>2
      <2>. QED BY <1>2, <2>1, <2>2
<1>. QED BY <1>3, <1>4, <1>5

\* The text of such a tree is read as the tree.
LEMMA NormalReads ==
    ASSUME NEW ts, IsTokens(ts)
    PROVE  \A t \in Normal : ReadsAs(ts, t, DoPrintFormula[t], Rank(t))
<1>. DEFINE S == {t \in Formula : t \in Normal => ReadsAs(ts, t, DoPrintFormula[t], Rank(t))}
<1>1. ASSUME NEW l \in DOMAIN Number
      PROVE  <<"NUMBER", l>> \in S
      <2>1. SUFFICES ASSUME <<"NUMBER", l>> \in Normal
                     PROVE  ReadsAs(ts, <<"NUMBER", l>>, DoPrintFormula[<<"NUMBER", l>>], Rank(<<"NUMBER", l>>))
            BY NumbersAreTrees
      <2>2. Numeral(Number[l]).chars = l /\ Numeral(Number[l]).kind = "NUMBER"
            BY <2>1, NormalCases, NumeralPrinted
      <2>3. DoPrintFormula[<<"NUMBER", l>>] = <<Numeral(Number[l])>> /\ Rank(<<"NUMBER", l>>) = 6
            BY PrintUnfolds, Ranks
      <2>4. ReadsAs(ts, <<"NUMBER", Numeral(Number[l]).chars>>, <<Numeral(Number[l])>>, 6)
            BY <2>2, LeafReads
      <2>. QED BY <2>2, <2>3, <2>4
<1>2. ASSUME NEW op \in AddSub, NEW u \in S, <<"unary", op, u>> \in Formula
      PROVE  <<"unary", op, u>> \in S
      <2>1. SUFFICES ASSUME <<"unary", op, u>> \in Normal
                     PROVE  ReadsAs(ts, <<"unary", op, u>>, DoPrintFormula[<<"unary", op, u>>],
                                    Rank(<<"unary", op, u>>))
            BY <1>2
      <2>2. u \in Formula /\ ReadsAs(ts, u, DoPrintFormula[u], Rank(u)) /\ Rank(u) # 4
            BY <1>2, <2>1, NormalCases
      <2>3. PICK p \in Int : p >= 5 /\ ReadsAs(ts, u, SignText(u), p)
            BY <2>2, OperandReads
      <2>4. ReadsAs(ts, <<"unary", op, u>>, <<Symbol(op)>> \o SignText(u), 5)
            BY <2>2, <2>3, OperandTexts, SignReads
      <2>5. DoPrintFormula[<<"unary", op, u>>] = <<Symbol(op)>> \o SignText(u) /\ Rank(<<"unary", op, u>>) = 5
            BY <1>2, <2>2, PrintUnfolds, Ranks DEF SignText
      <2>. QED BY <2>4, <2>5
<1>3. ASSUME NEW op \in Operator, NEW u \in S, NEW v \in S, <<"binary", op, u, v>> \in Formula
      PROVE  <<"binary", op, u, v>> \in S
      <2>. DEFINE t == <<"binary", op, u, v>>
      <2>1. SUFFICES ASSUME t \in Normal
                     PROVE  ReadsAs(ts, t, DoPrintFormula[t], Rank(t))
            BY <1>3
      <2>2. /\ u \in Formula /\ ReadsAs(ts, u, DoPrintFormula[u], Rank(u))
            /\ v \in Formula /\ ReadsAs(ts, v, DoPrintFormula[v], Rank(v))
            /\ Rank(v) = Priority(op) => op \in {"-", "/"}
            BY <1>3, <2>1, NormalCases
      <2>3. PICK p \in Int : p >= Priority(op) /\ ReadsAs(ts, u, LeftText(op, u), p)
            BY <2>2, OperandReads
      <2>4. PICK q \in Int : q > Priority(op) /\ ReadsAs(ts, v, RightText(op, v), q)
            BY <2>2, OperandReads
      <2>5. LeftText(op, u) \in Seq(Printed) /\ RightText(op, v) \in Seq(Printed)
            BY <2>2, OperandTexts
      <2>6. ReadsAs(ts, t, LeftText(op, u) \o <<Symbol(op)>> \o RightText(op, v), Priority(op))
            BY <2>3, <2>4, <2>5, JoinReads
      <2>7. DoPrintFormula[t] = LeftText(op, u) \o <<Symbol(op)>> \o RightText(op, v)
            BY <1>3, <2>2, PrintUnfolds DEF LeftText, RightText
      <2>8. Rank(t) = Priority(op)
            BY Ranks
      <2>. QED BY <2>6, <2>7, <2>8
<1>4. Formula \subseteq S
      <2>. HIDE DEF S
      <2>. QED BY <1>1, <1>2, <1>3, TreeInduction
<1>. QED BY <1>4, NormalIsClosed

\* What the user types is read as the tree that is typed.
LEMMA TypedReads ==
    ASSUME NEW ts, IsTokens(ts)
    PROVE  \A t \in Formula : ReadsAs(ts, t, Typed[t], 6)
<1>. DEFINE S == {t \in Formula : ReadsAs(ts, t, Typed[t], 6)}
<1>1. ASSUME NEW l \in DOMAIN Number
      PROVE  <<"NUMBER", l>> \in S
      <2>. DEFINE x == [kind |-> "NUMBER", chars |-> l]
      <2>1. Typed[<<"NUMBER", l>>] = <<x>>
            BY TypedUnfolds
      <2>2. x.kind = "NUMBER" /\ x.chars = l
            OBVIOUS
      <2>. HIDE DEF x
      <2>3. ReadsAs(ts, <<"NUMBER", x.chars>>, <<x>>, 6)
            BY <2>2, LeafReads
      <2>. QED BY <2>1, <2>2, <2>3, NumbersAreTrees
<1>2. ASSUME NEW op \in AddSub, NEW u \in S, <<"unary", op, u>> \in Formula
      PROVE  <<"unary", op, u>> \in S
      <2>1. u \in Formula /\ ReadsAs(ts, u, Typed[u], 6) /\ Typed[u] \in Seq(Printed)
            BY TypedUnfolds
      <2>. DEFINE w == <<Symbol(op)>> \o Typed[u]
      <2>2. w \in Seq(Printed)
            <3>1. Symbol(op) \in Printed
                  BY SymbolsPrinted DEF AddSub, Operator
            <3>. QED BY <2>1, <3>1
      <2>3. ReadsAs(ts, <<"unary", op, u>>, w, 5)
            BY <2>1, SignReads
      <2>4. Typed[<<"unary", op, u>>] = InParens(w)
            BY <1>2, <2>1, TypedUnfolds
      <2>. HIDE DEF w
      <2>5. ReadsAs(ts, <<"unary", op, u>>, InParens(w), 6)
            BY <2>2, <2>3, ParensRead
      <2>. QED BY <1>2, <2>4, <2>5
<1>3. ASSUME NEW op \in Operator, NEW u \in S, NEW v \in S, <<"binary", op, u, v>> \in Formula
      PROVE  <<"binary", op, u, v>> \in S
      <2>1. /\ u \in Formula /\ ReadsAs(ts, u, Typed[u], 6) /\ Typed[u] \in Seq(Printed)
            /\ v \in Formula /\ ReadsAs(ts, v, Typed[v], 6) /\ Typed[v] \in Seq(Printed)
            BY TypedUnfolds
      <2>. DEFINE w == Typed[u] \o <<Symbol(op)>> \o Typed[v]
      <2>2. w \in Seq(Printed)
            <3>1. Symbol(op) \in Printed
                  BY SymbolsPrinted
            <3>. QED BY <2>1, <3>1
      <2>3. ReadsAs(ts, <<"binary", op, u, v>>, w, Priority(op))
            <3>1. Priority(op) \in Int /\ 6 >= Priority(op) /\ 6 > Priority(op)
                  BY DEF Priority
            <3>. QED BY <2>1, <3>1, JoinReads
      <2>4. Typed[<<"binary", op, u, v>>] = InParens(w)
            BY <1>3, <2>1, TypedUnfolds
      <2>. HIDE DEF w
      <2>5. ReadsAs(ts, <<"binary", op, u, v>>, InParens(w), 6)
            BY <2>2, <2>3, ParensRead
      <2>. QED BY <1>3, <2>4, <2>5
<1>4. Formula \subseteq S
      <2>. HIDE DEF S
      <2>. QED BY <1>1, <1>2, <1>3, TreeInduction
<1>. QED BY <1>4

\* A text with the token behind it.
LEMMA TextIsTokens ==
    ASSUME NEW text \in Seq(Printed)
    PROVE  LET ts == Append(text, EOF)
           IN  IsTokens(ts) /\ Len(ts) = Len(text) + 1 /\ Placed(ts, 1, text)
<1>. DEFINE ts == Append(text, EOF)
            n == Len(text)
<1>1. EOF \in Token /\ IsLastToken(EOF)
      <2>1. <<>> \in Seq(Character)
            BY EmptySeq
      <2>. QED BY <2>1 DEF EOF, Token, Kind, IsLastToken
<1>2. n \in Nat /\ Len(ts) = n + 1 /\ ts[n+1] = EOF /\ \A k \in 1..n : ts[k] = text[k] /\ text[k] \in Printed
      BY AppendProperties, LenProperties, ElementOfSeq
<1>3. ts \in Seq(Token)
      <2>1. text \in Seq(Token)
            <3>1. Printed \subseteq Token
                  BY DEF Printed
            <3>. QED BY ONLY <3>1, SeqMonotonic
      <2>. QED BY <1>1, <2>1, AppendProperties
<1>. HIDE DEF ts, n
<1>4. \A k \in 1..n : ~IsLastToken(ts[k])
      BY <1>2 DEF Printed
<1>5. IsTokens(ts)
      <2>1. ts # <<>>
            BY <1>2, <1>3, EmptySeq
      <2>. QED BY <1>1, <1>2, <1>3, <1>4, <2>1 DEF IsTokens
<1>6. Placed(ts, 1, text)
      <2>1. 1 + Len(text) <= Len(ts)
            BY <1>2 DEF n
      <2>2. \A k \in 1..Len(text) : 1 + k - 1 = k
            OBVIOUS
      <2>. QED BY <1>2, <2>1, <2>2 DEF Placed, n
<1>. QED BY <1>2, <1>5, <1>6 DEF ts, n

\* What a text is read as is what the program makes of it.
LEMMA ParsesTo ==
    ASSUME NEW text \in Seq(Printed), NEW t, NEW p, ReadsAs(Append(text, EOF), t, text, p)
    PROVE  ParseFormula(text) = t
<1>. DEFINE ts == Append(text, EOF)
            x == Item(1, 1 + Len(text) - 1, t, p)
<1>1. IsTokens(ts) /\ Len(ts) = Len(text) + 1 /\ Placed(ts, 1, text) /\ Len(text) \in Nat
      BY TextIsTokens, LenProperties
<1>2. x \in Derived(ts)
      BY <1>1 DEF ReadsAs
<1>3. x.first = 1 /\ x.last = Len(ts) - 1 /\ x.tree = t
      BY <1>1 DEF Item
<1>. HIDE DEF x
<1>4. x \in Whole(ts)
      BY <1>1, <1>2, <1>3, WholeIsDerived
<1>. DEFINE y == CHOOSE y \in Whole(ts) : TRUE
<1>5. y \in Whole(ts)
      BY <1>4
<1>6. ParseFormula(text) = y.tree
      BY <1>4 DEF ParseFormula
<1>. HIDE DEF y
<1>7. y = x
      BY <1>1, <1>4, <1>5, WholeIsUnique
<1>. QED BY <1>3, <1>6, <1>7

\* The formula a user types is the tree it was typed for.
LEMMA TypedParsed ==
    ASSUME NEW t \in Formula
    PROVE  ParseFormula(Typed[t]) = t
<1>1. Typed[t] \in Seq(Printed)
      BY TypedUnfolds
<1>2. IsTokens(Append(Typed[t], EOF))
      BY <1>1, TextIsTokens
<1>. QED BY <1>1, <1>2, TypedReads, ParsesTo

\* The text of a cell is read as a tree of that text, and of that value unless
\* the exceptions of ValueSettles hold.
LEMMA TextParsed ==
    ASSUME NEW t \in Formula
    PROVE  LET w == ParseFormula(GetExpression(t))
           IN  /\ w \in Normal /\ w \in Formula
               /\ GetExpression(w) = GetExpression(t)
               /\ GetExpression(t) = DoPrintFormula[w]
               /\ Keepable(t) => Evaluate[w] = Evaluate[t]
<1>1. PICK n \in 0..MaxOperators : t \in Trees[n]
      BY DEF Formula
<1>2. PICK w : IsReread(t, w, n)
      BY <1>1, Reread DEF HasReread
<1>3. /\ w \in Normal /\ w \in Formula /\ DoPrintFormula[w] = DoPrintFormula[t]
      /\ Keepable(t) => Evaluate[w] = Evaluate[t]
      BY <1>2, NormalIsClosed DEF IsReread
<1>4. /\ GetExpression(t) = DoPrintFormula[t] /\ GetExpression(w) = DoPrintFormula[w]
      /\ DoPrintFormula[w] \in Seq(Printed)
      BY <1>3, OperandTexts
<1>5. ParseFormula(DoPrintFormula[w]) = w
      <2>1. IsTokens(Append(DoPrintFormula[w], EOF))
            BY <1>4, TextIsTokens
      <2>. QED BY <1>3, <1>4, <2>1, NormalReads, ParsesTo
<1>. QED BY <1>3, <1>4, <1>5

---------------------------------------------------------------------------
(***************************************************************************)
(* No text of a tree is shorter.                                           *)
(***************************************************************************)

\* The operators of a tree.
LEMMA FormulaShapes ==
    /\ \A op, u : <<"unary", op, u>> \in Formula => op \in AddSub /\ u \in Formula
    /\ \A op, u, v : <<"binary", op, u, v>> \in Formula => op \in Operator /\ u \in Formula /\ v \in Formula
    /\ \A k, c : <<k, c>> \in Formula => k = "NUMBER" /\ c \in DOMAIN Number
    /\ <<>> \notin Formula
<1>1. ASSUME NEW op, NEW u, <<"unary", op, u>> \in Formula
      PROVE  op \in AddSub /\ u \in Formula
      BY <1>1, FormulaCases
<1>2. ASSUME NEW op, NEW u, NEW v, <<"binary", op, u, v>> \in Formula
      PROVE  op \in Operator /\ u \in Formula /\ v \in Formula
      BY <1>2, FormulaCases
<1>3. ASSUME NEW k, NEW c, <<k, c>> \in Formula
      PROVE  k = "NUMBER" /\ c \in DOMAIN Number
      BY <1>3, FormulaCases
<1>4. <<>> \notin Formula
      BY FormulaCases
<1>. QED BY <1>1, <1>2, <1>3, <1>4

\* The tokens of a text.
Width(t) == Len(DoPrintFormula[t])

\* A width is a number; parentheses are two tokens more.
LEMMA Widths ==
    ASSUME NEW u \in Formula
    PROVE  /\ Width(u) \in Nat
           /\ Len(InParens(DoPrintFormula[u])) = Width(u) + 2
<1>1. DoPrintFormula[u] \in Seq(Printed)
      BY OperandTexts
<1>2. Width(u) \in Nat
      BY <1>1, LenProperties DEF Width
<1>3. Len(InParens(DoPrintFormula[u])) = Len(DoPrintFormula[u]) + 2
      BY <1>1, InParensType
<1>. QED BY <1>2, <1>3 DEF Width

\* The widths of the three kinds of trees.
LEMMA WidthOfNumber ==
    ASSUME NEW l \in DOMAIN Number
    PROVE  Width(<<"NUMBER", l>>) = 1
<1>1. DoPrintFormula[<<"NUMBER", l>>] = <<Numeral(Number[l])>>
      BY PrintUnfolds
<1>. QED BY <1>1 DEF Width

LEMMA WidthOfSign ==
    ASSUME NEW op \in AddSub, NEW u \in Formula, <<"unary", op, u>> \in Formula
    PROVE  /\ Rank(u) = 3 => Width(<<"unary", op, u>>) = Width(u) + 3
           /\ Rank(u) # 3 => Width(<<"unary", op, u>>) = Width(u) + 1
<1>1. DoPrintFormula[<<"unary", op, u>>] = <<Symbol(op)>> \o SignText(u)
      BY PrintUnfolds DEF SignText
<1>2. Symbol(op) \in Printed /\ SignText(u) \in Seq(Printed)
      BY SymbolsPrinted, OperandTexts DEF AddSub, Operator
<1>3. Width(<<"unary", op, u>>) = 1 + Len(SignText(u))
      BY <1>1, <1>2 DEF Width
<1>4. /\ Rank(u) = 3 => SignText(u) = InParens(DoPrintFormula[u])
      /\ Rank(u) # 3 => SignText(u) = DoPrintFormula[u]
      BY OperandTexts
<1>5. /\ Rank(u) = 3 => Len(SignText(u)) = Width(u) + 2
      /\ Rank(u) # 3 => Len(SignText(u)) = Width(u)
      BY <1>4, Widths DEF Width
<1>. QED BY <1>3, <1>5, Widths

LEMMA WidthOfBinary ==
    ASSUME NEW op \in Operator, NEW u \in Formula, NEW v \in Formula, <<"binary", op, u, v>> \in Formula
    PROVE  \E a \in Nat, b \in Nat :
               /\ Width(<<"binary", op, u, v>>) = a + 1 + b
               /\ a = Width(u) \/ (Rank(u) < Priority(op) /\ a = Width(u) + 2)
               /\ b = Width(v) \/ (Rank(v) <= Priority(op) /\ b = Width(v) + 2)
<1>1. DoPrintFormula[<<"binary", op, u, v>>] = LeftText(op, u) \o <<Symbol(op)>> \o RightText(op, v)
      BY PrintUnfolds DEF LeftText, RightText
<1>2. Symbol(op) \in Printed /\ LeftText(op, u) \in Seq(Printed) /\ RightText(op, v) \in Seq(Printed)
      BY SymbolsPrinted, OperandTexts
<1>. DEFINE a == Len(LeftText(op, u))
            b == Len(RightText(op, v))
<1>3. Width(<<"binary", op, u, v>>) = a + 1 + b
      BY <1>1, <1>2 DEF Width
<1>4. a \in Nat /\ b \in Nat
      BY <1>2, LenProperties
<1>5. Rank(u) \in 3..6 /\ Rank(v) \in 3..6 /\ Priority(op) \in 3..4
      BY Ranks
<1>6. a = Width(u) \/ (Rank(u) < Priority(op) /\ a = Width(u) + 2)
      <2>1. CASE Rank(u) >= Priority(op)
            BY <2>1, OperandTexts DEF Width
      <2>2. CASE Rank(u) < Priority(op)
            <3>1. LeftText(op, u) = DoPrintFormula[u] \/ LeftText(op, u) = InParens(DoPrintFormula[u])
                  BY DEF LeftText, PrintFormula
            <3>. QED BY <2>2, <3>1, Widths DEF Width
      <2>. QED BY <1>5, <2>1, <2>2
<1>7. b = Width(v) \/ (Rank(v) <= Priority(op) /\ b = Width(v) + 2)
      <2>1. CASE Rank(v) > Priority(op)
            BY <2>1, OperandTexts DEF Width
      <2>2. CASE Rank(v) <= Priority(op)
            <3>1. RightText(op, v) = DoPrintFormula[v] \/ RightText(op, v) = InParens(DoPrintFormula[v])
                  BY DEF RightText, PrintFormula
            <3>. QED BY <2>2, <3>1, Widths DEF Width
      <2>. QED BY <1>5, <2>1, <2>2
<1>. HIDE DEF a, b
<1>. QED BY <1>3, <1>4, <1>6, <1>7

\* The tokens of x are those of the text of its tree, or more: two where it binds
\* more than the tree does.
IsWide(x) ==
    x.tree \in Formula => /\ x.last - x.first + 1 >= Width(x.tree)
                          /\ x.p > Rank(x.tree) => x.last - x.first + 1 >= Width(x.tree) + 2

\* If the smaller items are wide, so is what is made of them.
LEMMA MadeIsWide ==
    ASSUME NEW ts, IsTokens(ts), NEW d, d \subseteq Derived(ts), \A y \in d : IsWide(y),
           NEW x, IsMade(ts, x, d)
    PROVE  IsWide(x)
<1>1. ASSUME NEW y \in d
      PROVE  y.first \in Int /\ y.last \in Int /\ y.p \in Int
      <2>1. Len(ts) \in Nat
            BY LenProperties DEF IsTokens
      <2>2. InRange(ts, y)
            BY DerivedIsMade
      <2>. QED BY <2>1, <2>2 DEF InRange
<1>2. \A u : Rank(u) \in 3..6
      BY Ranks
<1>3. SUFFICES ASSUME x.tree \in Formula
               PROVE  /\ x.last - x.first + 1 >= Width(x.tree)
                      /\ x.p > Rank(x.tree) => x.last - x.first + 1 >= Width(x.tree) + 2
      BY DEF IsWide
<1>4. CASE \E i \in 1..Len(ts) : IsLeaf(ts, i) /\ x = LeafAt(ts, i)
      <2>1. PICK i \in 1..Len(ts) : x = LeafAt(ts, i)
            BY <1>4
      <2>2. x.first = i /\ x.last = i /\ x.p = 6 /\ x.tree = <<ts[i].kind, ts[i].chars>>
            BY <2>1 DEF LeafAt, Item
      <2>3. PICK l \in DOMAIN Number : x.tree = <<"NUMBER", l>>
            BY <1>3, <2>2, FormulaShapes
      <2>4. Width(x.tree) = 1 /\ Rank(x.tree) = 6
            BY <2>3, WidthOfNumber, Ranks
      <2>. QED BY <2>2, <2>4
<1>5. CASE \E y \in d : IsBracketed(ts, y) /\ x = Bracketed(y)
      <2>1. PICK y \in d : x = Bracketed(y)
            BY <1>5
      <2>2. x.first = y.first - 1 /\ x.last = y.last + 1 /\ x.tree = y.tree
            BY <2>1 DEF Bracketed, Item
      <2>3. y.tree \in Formula
            BY <1>3, <2>2
      <2>4. y.last - y.first + 1 >= Width(y.tree)
            BY <2>3 DEF IsWide
      <2>5. Width(y.tree) \in Nat
            BY <2>3, Widths
      <2>6. y.first \in Int /\ y.last \in Int
            BY <1>1
      <2>7. x.last - x.first + 1 >= Width(x.tree) + 2
            BY <2>2, <2>4, <2>5, <2>6
      <2>. QED BY <2>2, <2>5, <2>6, <2>7
<1>6. CASE \E y \in d : IsSigned(ts, y) /\ x = Signed(ts, y)
      <2>1. PICK y \in d : IsSigned(ts, y) /\ x = Signed(ts, y)
            BY <1>6
      <2>. DEFINE op == ts[y.first - 1].kind
                  u == y.tree
      <2>2. x.first = y.first - 1 /\ x.last = y.last /\ x.tree = <<"unary", op, u>> /\ x.p = 5 /\ y.p >= 5
            BY <2>1 DEF IsSigned, Signed, Item
      <2>. HIDE DEF op
      <2>3. op \in AddSub /\ u \in Formula
            BY <1>3, <2>2, FormulaShapes
      <2>4. Rank(x.tree) = 5
            BY <2>2, <2>3, Ranks
      <2>5. /\ Rank(u) = 3 => Width(x.tree) = Width(u) + 3
            /\ Rank(u) # 3 => Width(x.tree) = Width(u) + 1
            BY <1>3, <2>2, <2>3, WidthOfSign
      <2>6. /\ y.last - y.first + 1 >= Width(u)
            /\ y.p > Rank(u) => y.last - y.first + 1 >= Width(u) + 2
            BY <2>3 DEF IsWide
      <2>7. Width(u) \in Nat
            BY <2>3, Widths
      <2>8. x.last - x.first + 1 >= Width(x.tree)
            <3>1. y.first \in Int /\ y.last \in Int /\ y.p \in Int
                  BY <1>1
            <3>. HIDE DEF u
            <3>2. CASE Rank(u) = 3
                  BY <2>2, <2>5, <2>6, <2>7, <3>1, <3>2
            <3>3. CASE Rank(u) # 3
                  BY <2>2, <2>5, <2>6, <2>7, <3>1, <3>3
            <3>. QED BY <3>2, <3>3
      <2>. QED BY <2>2, <2>4, <2>8
<1>7. CASE \E y \in d, z \in d : AreJoined(ts, y, z) /\ x = Joined(ts, y, z)
      <2>1. PICK y \in d, z \in d : AreJoined(ts, y, z) /\ x = Joined(ts, y, z)
            BY <1>7
      <2>. DEFINE op == ts[y.last + 1].kind
                  u == y.tree
                  v == z.tree
      <2>2. /\ x.first = y.first /\ x.last = z.last /\ x.tree = <<"binary", op, u, v>> /\ x.p = Priority(op)
            /\ z.first = y.last + 2 /\ y.p >= Priority(op) /\ z.p > Priority(op)
            BY <2>1 DEF AreJoined, Joined, Item
      <2>. HIDE DEF op
      <2>3. op \in Operator /\ u \in Formula /\ v \in Formula
            BY <1>3, <2>2, FormulaShapes
      <2>4. Rank(x.tree) = Priority(op) /\ Priority(op) \in 3..4
            BY <2>2, <2>3, Ranks
      <2>5. PICK a \in Nat, b \in Nat :
                /\ Width(x.tree) = a + 1 + b
                /\ a = Width(u) \/ (Rank(u) < Priority(op) /\ a = Width(u) + 2)
                /\ b = Width(v) \/ (Rank(v) <= Priority(op) /\ b = Width(v) + 2)
            BY <1>3, <2>2, <2>3, WidthOfBinary
      <2>6. /\ y.last - y.first + 1 >= Width(u)
            /\ y.p > Rank(u) => y.last - y.first + 1 >= Width(u) + 2
            BY <2>3 DEF IsWide
      <2>7. /\ z.last - z.first + 1 >= Width(v)
            /\ z.p > Rank(v) => z.last - z.first + 1 >= Width(v) + 2
            BY <2>3 DEF IsWide
      <2>8. /\ y.first \in Int /\ y.last \in Int /\ y.p \in Int
            /\ z.first \in Int /\ z.last \in Int /\ z.p \in Int
            BY <1>1
      <2>9. Width(u) \in Nat /\ Width(v) \in Nat /\ Rank(u) \in 3..6 /\ Rank(v) \in 3..6
            BY <1>2, <2>3, Widths
      <2>. HIDE DEF u, v
      <2>10. y.last - y.first + 1 >= a
            <3>1. CASE a = Width(u)
                  BY <2>6, <3>1
            <3>2. CASE Rank(u) < Priority(op) /\ a = Width(u) + 2
                  <4>1. y.p > Rank(u)
                        BY <2>2, <2>4, <2>8, <2>9, <3>2
                  <4>. QED BY <2>6, <3>2, <4>1
            <3>. QED BY <2>5, <3>1, <3>2
      <2>11. z.last - z.first + 1 >= b
            <3>1. CASE b = Width(v)
                  BY <2>7, <3>1
            <3>2. CASE Rank(v) <= Priority(op) /\ b = Width(v) + 2
                  <4>1. z.p > Rank(v)
                        BY <2>2, <2>4, <2>8, <2>9, <3>2
                  <4>. QED BY <2>7, <3>2, <4>1
            <3>. QED BY <2>5, <3>1, <3>2
      <2>12. x.last - x.first + 1 >= Width(x.tree)
            BY <2>2, <2>5, <2>8, <2>10, <2>11
      <2>. QED BY <2>2, <2>4, <2>12
<1>. QED BY <1>4, <1>5, <1>6, <1>7 DEF IsMade

\* Every item is.
LEMMA ItemsAreWide ==
    ASSUME NEW ts, IsTokens(ts)
    PROVE  \A x \in Derived(ts) : IsWide(x)
<1>. DEFINE B == {n \in Nat : \E x \in Derived(ts) : n = x.last - x.first /\ ~IsWide(x)}
<1>1. \A x \in Derived(ts) : x.last - x.first \in Nat
      <2>1. Len(ts) \in Nat
            BY LenProperties DEF IsTokens
      <2>2. SUFFICES ASSUME NEW x \in Derived(ts) PROVE x.last - x.first \in Nat
            OBVIOUS
      <2>3. InRange(ts, x)
            BY DerivedIsMade
      <2>. QED BY <2>1, <2>3 DEF InRange
<1>2. B = {}
      <2>1. SUFFICES ASSUME B # {} PROVE FALSE
            OBVIOUS
      <2>2. PICK n \in B : \A k \in B : n <= k
            <3>. B \in SUBSET Nat
                 OBVIOUS
            <3>. HIDE DEF B
            <3>. QED BY <2>1, LeastNatural
      <2>3. PICK x \in Derived(ts) : n = x.last - x.first /\ ~IsWide(x)
            OBVIOUS
      <2>. DEFINE d == {y \in Derived(ts) : y.last - y.first < x.last - x.first}
      <2>4. IsMade(ts, x, d)
            BY DerivedIsMade
      <2>5. ASSUME NEW y \in d PROVE IsWide(y)
            <3>1. SUFFICES ASSUME ~IsWide(y) PROVE FALSE
                  OBVIOUS
            <3>2. y.last - y.first \in B
                  BY <1>1, <3>1
            <3>3. n <= y.last - y.first
                  <4>. HIDE DEF B
                  <4>. QED BY <2>2, <3>2
            <3>. QED BY <1>1, <2>3, <3>3
      <2>. QED BY <2>3, <2>4, <2>5, MadeIsWide
<1>. QED BY <1>1, <1>2

\* A part of a text, its length, and the length of two texts.
LEMMA Cut ==
    ASSUME NEW s \in Seq(Printed), NEW m \in Int, NEW n \in Int, 1 <= m, m <= n + 1, n <= Len(s)
    PROVE  SubSeq(s, m, n) \in Seq(Printed) /\ Len(SubSeq(s, m, n)) = n - m + 1
<1>1. Len(s) \in Nat
      BY LenProperties
<1>. QED BY <1>1, SubSeqProperties

LEMMA LengthOfBoth ==
    ASSUME NEW p \in Seq(Printed), NEW q \in Seq(Printed)
    PROVE  p \o q \in Seq(Printed) /\ Len(p \o q) = Len(p) + Len(q)
OBVIOUS

\* Without two of its tokens a text is shorter.
LEMMA WithoutTwo ==
    ASSUME NEW text \in Seq(Printed), NEW i \in DOMAIN text, NEW j \in DOMAIN text, i < j
    PROVE  Without(text, i, j) \in Seq(Printed) /\ Len(Without(text, i, j)) = Len(text) - 2
<1>1. ASSUME NEW s \in Seq(Printed), NEW k \in 1..Len(s)
      PROVE  RemoveAt(s, k) \in Seq(Printed) /\ Len(RemoveAt(s, k)) = Len(s) - 1
      <2>1. Len(s) \in Nat /\ k \in Nat
            BY LenProperties
      <2>. DEFINE p == SubSeq(s, 1, k - 1)
                  q == SubSeq(s, k + 1, Len(s))
      <2>2. p \in Seq(Printed) /\ Len(p) = k - 1
            BY <2>1, Cut
      <2>3. q \in Seq(Printed) /\ Len(q) = Len(s) - k
            BY <2>1, Cut
      <2>. HIDE DEF p, q
      <2>4. p \o q \in Seq(Printed) /\ Len(p \o q) = Len(p) + Len(q)
            BY <2>2, <2>3, LengthOfBoth
      <2>5. RemoveAt(s, k) = p \o q
            BY DEF RemoveAt, p, q
      <2>6. Len(p \o q) = Len(s) - 1
            BY <2>1, <2>2, <2>3, <2>4
      <2>. QED BY <2>4, <2>5, <2>6
<1>2. Len(text) \in Nat /\ DOMAIN text = 1..Len(text)
      BY LenProperties
<1>. DEFINE s == RemoveAt(text, j)
<1>3. s \in Seq(Printed) /\ Len(s) = Len(text) - 1
      BY <1>1, <1>2
<1>. HIDE DEF s
<1>4. i \in 1..Len(s) /\ i \in Nat
      BY <1>2, <1>3
<1>5. RemoveAt(s, i) \in Seq(Printed) /\ Len(RemoveAt(s, i)) = Len(s) - 1
      BY <1>1, <1>3, <1>4
<1>. QED BY <1>2, <1>3, <1>5 DEF Without, s

\* What is read of a text that is shorter than that of the tree t is not t.
LEMMA ShorterIsOther ==
    ASSUME NEW t \in Formula, NEW text \in Seq(Printed), Len(text) < Len(DoPrintFormula[t])
    PROVE  ParseFormula(text) # t
<1>. DEFINE ts == Append(text, EOF)
            y == CHOOSE y \in Whole(ts) : TRUE
<1>1. IsTokens(ts) /\ Len(ts) = Len(text) + 1 /\ Len(text) \in Nat
      BY TextIsTokens, LenProperties
<1>2. CASE Whole(ts) = {}
      BY <1>2, FormulaShapes DEF ParseFormula
<1>3. CASE Whole(ts) # {}
      <2>1. y \in Whole(ts) /\ ParseFormula(text) = y.tree
            BY <1>3 DEF ParseFormula
      <2>. HIDE DEF y, ts
      <2>2. y \in Derived(ts) /\ y.first = 1 /\ y.last = Len(ts) - 1
            BY <1>1, <2>1, WholeIsDerived
      <2>3. IsWide(y)
            BY <1>1, <2>2, ItemsAreWide
      <2>4. Width(t) \in Nat
            BY Widths
      <2>5. SUFFICES ASSUME y.tree = t PROVE FALSE
            BY <2>1
      <2>6. y.last - y.first + 1 >= Width(t)
            BY <1>1, <2>2, <2>3, <2>4, <2>5 DEF IsWide
      <2>. QED BY <1>1, <2>2, <2>4, <2>6 DEF Width
<1>. QED BY <1>2, <1>3

---------------------------------------------------------------------------
(***************************************************************************)
(* The calls.                                                              *)
(***************************************************************************)

\* The formula of a cell is a tree, or there is none.
FormulaInv == formula \in Formula \cup {<<>>}

\* Before the first call there is none, and each call leaves a tree or none.
LEMMA FormulaInitInv == Init => FormulaInv
BY DEF Init, FormulaInv

LEMMA FormulaStepInv == FormulaInv /\ [Next]_formula => FormulaInv'
<1>1. SUFFICES ASSUME FormulaInv, [Next]_formula PROVE FormulaInv'
      OBVIOUS
<1>2. CASE Enter
      <2>1. PICK t \in Formula : formula' = ParseFormula(Typed[t])
            BY <1>2 DEF Enter, SetCell
      <2>. QED BY <2>1, TypedParsed DEF FormulaInv
<1>3. CASE Reenter
      <2>1. formula \in Formula /\ formula' = ParseFormula(GetExpression(formula))
            BY <1>1, <1>3 DEF Reenter, SetCell, GetText, FormulaInv
      <2>. QED BY <2>1, TextParsed DEF FormulaInv
<1>4. CASE UNCHANGED formula
      BY <1>1, <1>4 DEF FormulaInv
<1>. QED BY <1>1, <1>2, <1>3, <1>4 DEF Next

\* The step from a cell with a formula.
LEMMA ReenterStep ==
    ASSUME FormulaInv, Next, formula # <<>>
    PROVE  /\ formula \in Formula /\ formula' \in Formula
           /\ GetExpression(formula') = GetExpression(formula)
           /\ Keepable(formula) => Evaluate[formula'] = Evaluate[formula]
<1>1. formula \in Formula /\ formula' = ParseFormula(GetExpression(formula))
      BY DEF FormulaInv, Next, Enter, Reenter, SetCell, GetText
<1>. QED BY <1>1, TextParsed

\* Whatever the formula and the literals: the text of a cell, entered again, is the
\* text of the cell.
THEOREM TextKept == Spec => TextSettles
<1>1. FormulaInv /\ [Next]_formula => [formula # <<>> => GetExpression(formula') = GetText]_formula
      BY ReenterStep DEF GetText
<1>. QED BY <1>1, FormulaInitInv, FormulaStepInv, PTL DEF Spec, TextSettles

\* Whatever the formula and the literals: a cell whose text is entered again has the
\* value it had, in exact arithmetic, but for the two exceptions.
THEOREM ValueKept == Spec => ValueSettles
<1>1. FormulaInv /\ [Next]_formula
         => [formula # <<>> /\ IsExact(formula) /\ ~HasSignedDivisor(formula)
                => SameValue(formula, formula')]_formula
      <2>1. SUFFICES ASSUME FormulaInv, Next, formula # <<>>, IsExact(formula), ~HasSignedDivisor(formula)
                     PROVE  SameValue(formula, formula')
            OBVIOUS
      <2>2. Evaluate[formula'] = Evaluate[formula] /\ formula \in Formula
            BY <2>1, ReenterStep DEF Keepable
      <2>. QED BY <2>2 DEF SameValue, IsSame
<1>. QED BY <1>1, FormulaInitInv, FormulaStepInv, PTL DEF Spec, ValueSettles

\* Whatever the formula: no pair of parentheses of a text is read as nothing.
THEOREM EveryPairGroups == Spec => []PairsGroup
<1>1. FormulaInv => PairsGroup
      <2>1. SUFFICES ASSUME FormulaInv, formula # <<>>, NEW ij \in Parentheses(GetText)
                     PROVE  ParseFormula(Without(GetText, ij[1], ij[2])) # ParseFormula(GetText)
            BY DEF PairsGroup
      <2>. DEFINE i == ij[1]
                  j == ij[2]
      <2>pair. i \in DOMAIN GetText /\ j \in DOMAIN GetText /\ Closes(GetText, i, j)
            BY DEF Parentheses
      <2>. HIDE DEF i, j
      <2>2. formula \in Formula
            BY <2>1 DEF FormulaInv
      <2>. DEFINE w == ParseFormula(GetText)
      <2>3. w \in Formula /\ GetText = DoPrintFormula[w]
            BY <2>2, TextParsed DEF GetText
      <2>. HIDE DEF w
      <2>4. GetText \in Seq(Printed)
            BY <2>3, OperandTexts
      <2>5. i < j
            BY <2>pair, <2>4, LenProperties DEF Closes
      <2>6. Without(GetText, i, j) \in Seq(Printed) /\ Len(Without(GetText, i, j)) = Len(GetText) - 2
            BY <2>4, <2>5, <2>pair, WithoutTwo
      <2>7. Len(GetText) \in Nat
            BY <2>4, LenProperties
      <2>8. Len(Without(GetText, i, j)) < Len(DoPrintFormula[w])
            BY <2>3, <2>6, <2>7
      <2>. QED BY <2>3, <2>6, <2>8, ShorterIsOther DEF w, i, j
<1>. QED BY <1>1, FormulaInitInv, FormulaStepInv, PTL DEF Spec
===========================================================================
