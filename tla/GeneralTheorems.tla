------------------------- MODULE GeneralTheorems --------------------------
(***************************************************************************)
(* Lemmas that know nothing of the table: on sets of numbers, which take   *)
(* the place of induction, and on walks in a graph.                        *)
(***************************************************************************)
EXTENDS Reachability, Integers, FiniteSetsExt, WellFoundedInduction, TLAPS

---------------------------------------------------------------------------
(***************************************************************************)
(* Numbers.                                                                *)
(***************************************************************************)
\* A nonempty set of natural numbers has a least element.
LEMMA LeastNatural ==
    ASSUME NEW S \in SUBSET Nat, S # {}
    PROVE  \E x \in S : \A y \in S : x <= y
<1>. DEFINE R == {ss \in Nat \X Nat : ss[1] < ss[2]}
<1>1. IsWellFoundedOn(R, Nat)
      BY NatLessThanWellFounded DEF OpToRel
<1>2. PICK x \in S : \A y \in S : <<y, x>> \notin R
      BY <1>1, WFMin
<1>3. \A y \in S : ~(y < x)
      BY <1>2
<1>. QED BY <1>3

\* Min of a nonempty set of natural numbers is its least.
LEMMA MinOfNaturals ==
    ASSUME NEW S \in SUBSET Nat, S # {}
    PROVE  Min(S) \in S /\ \A y \in S : Min(S) <= y
BY LeastNatural DEF Min

\* Max of a nonempty set of numbers of 0..n is its largest element.
LEMMA MaxOfBounded ==
    ASSUME NEW n \in Nat, NEW S \in SUBSET (0..n), S # {}
    PROVE  Max(S) \in S /\ \A y \in S : y <= Max(S)
<1>. DEFINE T == {n - y : y \in S}
<1>1. PICK m \in T : \A k \in T : m <= k
      <2>1. \A y \in S : n - y \in Nat
            OBVIOUS
      <2>2. T \in SUBSET Nat /\ T # {}
            BY <2>1
      <2>. HIDE DEF T
      <2>. QED BY <2>2, LeastNatural
<1>2. PICK x \in S : m = n - x
      OBVIOUS
<1>3. \A y \in S : x >= y
      <2>1. SUFFICES ASSUME NEW y \in S PROVE x >= y
            OBVIOUS
      <2>2. m <= n - y
            BY <1>1
      <2>. QED BY <1>2, <2>2
<1>. QED BY <1>3 DEF Max

---------------------------------------------------------------------------
(***************************************************************************)
(* Walks.                                                                  *)
(***************************************************************************)
\* A walk stays in the graph, starts where it is started, and its visited
\* nodes have no edge out: what ReachableFrom says of has_cycle and of
\* InvalidateCache.
LEMMA ReachableIsClosed ==
    ASSUME NEW Node, NEW next \in [Node -> SUBSET Node], NEW R \in SUBSET Node
    PROVE  /\ ReachableFrom(R, next) \subseteq Node
           /\ R \subseteq ReachableFrom(R, next)
           /\ IsClosed(ReachableFrom(R, next), next)
BY DEF ReachableFrom, IsClosed

\* A closed set that holds the start of a walk holds all of it.
LEMMA ReachableIsLeast ==
    ASSUME NEW Node, NEW next \in [Node -> SUBSET Node], NEW R \in SUBSET Node,
           NEW S \in SUBSET Node, R \subseteq S, IsClosed(S, next)
    PROVE  ReachableFrom(R, next) \subseteq S
BY DEF ReachableFrom

\* A walk from the successors of x takes its first step to one of them.
LEMMA FirstStep ==
    ASSUME NEW Node, NEW next \in [Node -> SUBSET Node],
           NEW x \in Node, NEW y \in ReachableFrom(next[x], next)
    PROVE  \E z \in next[x] : y = z \/ y \in ReachableFrom(next[z], next)
<1>. DEFINE U == {u \in Node : \E z \in next[x] :
                                   u = z \/ u \in ReachableFrom(next[z], next)}
<1>1. \A z \in Node : /\ ReachableFrom(next[z], next) \subseteq Node
                      /\ next[z] \subseteq ReachableFrom(next[z], next)
                      /\ IsClosed(ReachableFrom(next[z], next), next)
      BY ReachableIsClosed
<1>2. next[x] \subseteq U
      OBVIOUS
<1>3. IsClosed(U, next)
      <2>1. SUFFICES ASSUME NEW u \in U, NEW v \in next[u] PROVE v \in U
            BY DEF IsClosed
      <2>2. PICK z \in next[x] : u = z \/ u \in ReachableFrom(next[z], next)
            OBVIOUS
      <2>3. v \in ReachableFrom(next[z], next)
            BY <1>1, <2>2 DEF IsClosed
      <2>. QED BY <2>3
<1>4. y \in U
      BY <1>2, <1>3, ReachableIsLeast
<1>. QED BY <1>4

\* No node of an acyclic graph is on a cycle: the nodes that lead to x, were x
\* among them, would all have an edge to another of them.
LEMMA AcyclicHasNoCycle ==
    ASSUME NEW Node, NEW next \in [Node -> SUBSET Node], IsAcyclic(next),
           NEW x \in Node
    PROVE  ~OnCycle(x, next)
<1>. SUFFICES ASSUME x \in ReachableFrom(next[x], next) PROVE FALSE
     BY DEF OnCycle
<1>. DEFINE S == {y \in Node : x \in ReachableFrom(next[y], next)}
<1>1. PICK y \in S : next[y] \cap S = {}
      BY DEF IsAcyclic
<1>2. PICK z \in next[y] : x = z \/ x \in ReachableFrom(next[z], next)
      BY FirstStep
<1>3. z \in S
      BY <1>2
<1>. QED BY <1>1, <1>3

\* No node of an acyclic graph is its own successor.
LEMMA AcyclicHasNoSelfLoop ==
    ASSUME NEW Node, NEW next \in [Node -> SUBSET Node], IsAcyclic(next),
           NEW x \in Node
    PROVE  x \notin next[x]
<1>1. \E y \in {x} : next[y] \cap {x} = {}
      BY DEF IsAcyclic
<1>. QED BY <1>1

\* On the way round a cycle, every node met comes after another one met.
LEMMA CycleHasPredecessors ==
    ASSUME NEW Node, NEW next \in [Node -> SUBSET Node], NEW x \in Node,
           OnCycle(x, next)
    PROVE  \A y \in ReachableFrom(next[x], next) :
              \E z \in ReachableFrom(next[x], next) : y \in next[z]
<1>. DEFINE F == ReachableFrom(next[x], next)
            G == {y \in F : \E z \in F : y \in next[z]}
<1>1. F \subseteq Node /\ next[x] \subseteq F /\ IsClosed(F, next)
      BY ReachableIsClosed
<1>2. x \in F
      BY DEF OnCycle
<1>3. next[x] \subseteq G
      BY <1>1, <1>2
<1>4. IsClosed(G, next)
      BY <1>1 DEF IsClosed
<1>5. G \in SUBSET Node
      BY <1>1
<1>6. F \subseteq G
      <2>. HIDE DEF G
      <2>. QED BY <1>3, <1>4, <1>5, ReachableIsLeast
<1>. QED BY <1>6

\* Giving the node t other edges, all of them into a closed set that does not
\* hold t, keeps an acyclic graph acyclic.  This is what SetCell relies on
\* when CheckCircularDependency has not met the position it writes.
LEMMA AcyclicAfterUpdate ==
    ASSUME NEW Node,
           NEW before \in [Node -> SUBSET Node],
           NEW after \in [Node -> SUBSET Node],
           NEW t \in Node,
           \A x \in Node \ {t} : after[x] = before[x],
           NEW C \in SUBSET Node, t \notin C, IsClosed(C, before),
           after[t] \subseteq C,
           IsAcyclic(before)
    PROVE  IsAcyclic(after)
<1>1. SUFFICES ASSUME NEW S \in SUBSET Node, S # {}
               PROVE  \E x \in S : after[x] \cap S = {}
      BY DEF IsAcyclic
<1>2. CASE S \cap C # {}
      <2>1. PICK x \in S \cap C : before[x] \cap (S \cap C) = {}
            BY <1>2 DEF IsAcyclic
      <2>2. after[x] = before[x] /\ before[x] \subseteq C
            BY DEF IsClosed
      <2>. QED BY <2>1, <2>2
<1>3. CASE S \cap C = {} /\ t \in S
      BY <1>3
<1>4. CASE S \cap C = {} /\ t \notin S
      <2>1. PICK x \in S : before[x] \cap S = {}
            BY <1>1 DEF IsAcyclic
      <2>. QED BY <1>4, <2>1
<1>. QED BY <1>2, <1>3, <1>4

---------------------------------------------------------------------------
(***************************************************************************)
(* Equations over a graph: every node is to have the value its rule yields *)
(* over the values of its successors.                                      *)
(***************************************************************************)

\* v solves the equations of the nodes of D, which is closed.
Solves(v, D, next, rule) == IsClosed(D, next) /\ \A x \in D : v[x] = rule[x][v]

\* A rule looks at the successors of its node, and at no other node.
IsLocal(Node, Val, next, rule) ==
    \A x \in Node : \A v, w \in [Node -> Val] :
        (\A y \in next[x] : v[y] = w[y]) => rule[x][v] = rule[x][w]

\* Without cycles, two solutions agree where both have a say.
LEMMA SolutionsAgree ==
    ASSUME NEW Node, NEW next \in [Node -> SUBSET Node], IsAcyclic(next),
           NEW Val, NEW rule, IsLocal(Node, Val, next, rule),
           NEW D \in SUBSET Node, NEW v \in [Node -> Val], Solves(v, D, next, rule),
           NEW E \in SUBSET Node, NEW w \in [Node -> Val], Solves(w, E, next, rule)
    PROVE  \A x \in D \cap E : v[x] = w[x]
<1>. DEFINE S == {x \in D \cap E : v[x] # w[x]}
<1>1. SUFFICES ASSUME S # {} PROVE FALSE
      OBVIOUS
<1>2. PICK x \in S : next[x] \cap S = {}
      BY <1>1 DEF IsAcyclic
<1>3. x \in D /\ x \in E /\ v[x] # w[x] /\ next[x] \subseteq D \cap E
      BY DEF Solves, IsClosed
<1>4. \A y \in next[x] : v[y] = w[y]
      BY <1>2, <1>3
<1>5. rule[x][v] = rule[x][w]
      BY <1>3, <1>4 DEF IsLocal
<1>. QED BY <1>3, <1>5 DEF Solves

\* Without cycles, the equations have a solution: those that solve some, laid
\* together, solve whatever one of them does, and could be continued to a further
\* node whose successors all have a value.
LEMMA SolutionExists ==
    ASSUME NEW Node, NEW next \in [Node -> SUBSET Node], IsAcyclic(next),
           NEW Val, NEW any \in Val,
           NEW rule, \A x \in Node, v \in [Node -> Val] : rule[x][v] \in Val,
           IsLocal(Node, Val, next, rule)
    PROVE  \E v \in [Node -> Val] : Solves(v, Node, next, rule)
<1>. DEFINE Has(x, D, v) == Solves(v, D, next, rule) /\ x \in D
            U == {x \in Node : \E D \in SUBSET Node, v \in [Node -> Val] : Has(x, D, v)}
            g == [x \in Node |-> IF x \in U
                                 THEN CHOOSE y \in Val :
                                         \E D \in SUBSET Node, v \in [Node -> Val] :
                                             Has(x, D, v) /\ y = v[x]
                                 ELSE any]
<1>1. ASSUME NEW D \in SUBSET Node, NEW v \in [Node -> Val], Solves(v, D, next, rule),
             NEW x \in D
      PROVE  x \in U /\ g[x] = v[x]
      <2>1. x \in Node /\ x \in U /\ Has(x, D, v) /\ v[x] \in Val
            BY <1>1
      <2>2. \A E \in SUBSET Node, w \in [Node -> Val] : Has(x, E, w) => w[x] = v[x]
            BY <1>1, SolutionsAgree
      <2>3. g[x] = CHOOSE y \in Val :
                      \E E \in SUBSET Node, w \in [Node -> Val] : Has(x, E, w) /\ y = w[x]
            BY <2>1
      <2>. HIDE DEF g, U, Has
      <2>4. \E E \in SUBSET Node, w \in [Node -> Val] : Has(x, E, w) /\ v[x] = w[x]
            BY <2>1
      <2>5. \E E \in SUBSET Node, w \in [Node -> Val] : Has(x, E, w) /\ g[x] = w[x]
            BY <2>1, <2>3, <2>4
      <2>. QED BY <2>1, <2>2, <2>5
<1>2. g \in [Node -> Val]
      <2>1. ASSUME NEW x \in Node PROVE g[x] \in Val
            <3>1. CASE x \in U
                  <4>1. PICK D \in SUBSET Node, v \in [Node -> Val] : Has(x, D, v)
                        BY <3>1
                  <4>2. Solves(v, D, next, rule) /\ x \in D
                        BY <4>1
                  <4>. HIDE DEF g, U
                  <4>3. g[x] = v[x]
                        BY <1>1, <4>2
                  <4>. QED BY <4>2, <4>3
            <3>2. CASE x \notin U
                  BY <3>2
            <3>. QED BY <3>1, <3>2
      <2>2. g = [x \in Node |-> g[x]]
            OBVIOUS
      <2>. HIDE DEF g
      <2>. QED BY <2>1, <2>2
<1>3. U \in SUBSET Node
      OBVIOUS
<1>4. Solves(g, U, next, rule)
      <2>1. ASSUME NEW x \in U
            PROVE  next[x] \subseteq U /\ g[x] = rule[x][g]
            <3>1. PICK D \in SUBSET Node, v \in [Node -> Val] : Has(x, D, v)
                  OBVIOUS
            <3>2. Solves(v, D, next, rule)
                  BY <3>1
            <3>. HIDE DEF g, U
            <3>3. \A y \in D : y \in U /\ g[y] = v[y]
                  BY <1>1, <3>2
            <3>4. next[x] \subseteq D /\ v[x] = rule[x][v] /\ x \in D
                  BY <3>1 DEF Solves, IsClosed
            <3>5. rule[x][g] = rule[x][v]
                  BY <1>2, <3>3, <3>4 DEF IsLocal
            <3>. QED BY <3>3, <3>4, <3>5
      <2>. HIDE DEF g, U
      <2>. QED BY <2>1 DEF Solves, IsClosed
<1>5. ASSUME Node \ U # {} PROVE FALSE
      <2>1. PICK x \in Node \ U : next[x] \cap (Node \ U) = {}
            BY <1>5 DEF IsAcyclic
      <2>. DEFINE h == [g EXCEPT ![x] = rule[x][g]]
                  D == U \cup {x}
      <2>2. \A y \in D : y \in Node /\ next[y] \subseteq U
            <3>. HIDE DEF U
            <3>. QED BY <1>3, <1>4, <2>1 DEF Solves, IsClosed
      <2>. HIDE DEF g, U
      <2>3. h \in [Node -> Val]
            BY <1>2, <2>1
      <2>4. \A y \in U : h[y] = g[y]
            BY <1>2, <1>3, <2>1
      <2>5. ASSUME NEW y \in D PROVE h[y] = rule[y][h]
            <3>1. rule[y][h] = rule[y][g]
                  <4>. HIDE DEF h, D
                  <4>. QED BY <1>2, <2>2, <2>3, <2>4 DEF IsLocal
            <3>2. h[y] = rule[y][g]
                  BY <1>2, <1>4, <2>1, <2>4, <2>5 DEF Solves
            <3>. QED BY <3>1, <3>2
      <2>6. Solves(h, D, next, rule)
            <3>1. \A y \in D : next[y] \subseteq D
                  BY <2>2
            <3>. HIDE DEF h, D
            <3>. QED BY <2>5, <3>1 DEF Solves, IsClosed
      <2>7. D \in SUBSET Node /\ x \in D
            BY <1>3, <2>1
      <2>8. x \in U
            <3>. HIDE DEF h, D
            <3>. QED BY <1>1, <2>3, <2>6, <2>7
      <2>. QED BY <2>1, <2>8
<1>. HIDE DEF g, U
<1>. QED BY <1>2, <1>3, <1>4, <1>5

\* There is one solution.
LEMMA SolutionIsUnique ==
    ASSUME NEW Node, NEW next \in [Node -> SUBSET Node], IsAcyclic(next),
           NEW Val, NEW rule, IsLocal(Node, Val, next, rule),
           NEW v \in [Node -> Val], \A x \in Node : v[x] = rule[x][v],
           NEW w \in [Node -> Val], \A x \in Node : w[x] = rule[x][w]
    PROVE  v = w
<1>1. Solves(v, Node, next, rule) /\ Solves(w, Node, next, rule)
      BY DEF Solves, IsClosed
<1>2. \A x \in Node : v[x] = w[x]
      BY <1>1, SolutionsAgree
<1>. QED BY <1>2
===========================================================================
