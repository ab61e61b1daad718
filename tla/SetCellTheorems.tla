-------------------------- MODULE SetCellTheorems --------------------------
(***************************************************************************)
(* SetCell step by step is the SetCell of the Sheet module: for every      *)
(* table, every layout of cells, any caches, and dependents_ wrong in any  *)
(* set of links (WrongLinks is any set of such sets).                      *)
(*                                                                         *)
(* The walks are proved correct without induction on their depth.  What    *)
(* has_cycle has returned from avoids the written position, and lies in a  *)
(* closed set that does; what InvalidateCache has returned from is closed  *)
(* and has no cycle.  A call that returns adds one node to such a set.     *)
(*                                                                         *)
(* The calls are counted along the way: those begun, and those that the    *)
(* frames of the stack still owe, are together the ways from the start.    *)
(***************************************************************************)
EXTENDS SetCellSteps, SheetTheorems, SequenceTheorems, FiniteSetTheorems

---------------------------------------------------------------------------
(***************************************************************************)
(* Sets that walks have come back from.                                    *)
(***************************************************************************)

\* The nodes from which no walk comes to an edge into goal.
Avoiding(next, goal) ==
    {x \in DOMAIN next : \E C \in SUBSET DOMAIN next :
        x \in C /\ IsClosed(C, next) /\ \A y \in C : goal \notin next[y]}

\* No edge leads out of the nodes that avoid goal, nor into goal.
LEMMA AvoidingIsClosed ==
    ASSUME NEW Node, NEW next \in [Node -> SUBSET Node], NEW goal
    PROVE  /\ Avoiding(next, goal) \in SUBSET Node
           /\ \A x \in Avoiding(next, goal) : goal \notin next[x]
           /\ IsClosed(Avoiding(next, goal), next)
<1>. DEFINE A == Avoiding(next, goal)
<1>1. A \in SUBSET Node /\ \A y \in A : goal \notin next[y]
      BY DEF Avoiding
<1>2. ASSUME NEW y \in A, NEW z \in next[y]
      PROVE  z \in A
      <2>1. PICK C \in SUBSET Node :
               y \in C /\ IsClosed(C, next) /\ \A u \in C : goal \notin next[u]
            BY DEF Avoiding
      <2>2. z \in C
            BY <2>1 DEF IsClosed
      <2>. QED BY <2>1, <2>2 DEF Avoiding
<1>. QED BY <1>1, <1>2 DEF IsClosed

\* A node joins them once all its successors have.
LEMMA AvoidingGrows ==
    ASSUME NEW Node, NEW next \in [Node -> SUBSET Node], NEW goal, NEW x \in Node,
           goal \notin next[x], next[x] \subseteq Avoiding(next, goal)
    PROVE  x \in Avoiding(next, goal)
<1>. DEFINE A == Avoiding(next, goal)
<1>1. IsClosed(A \cup {x}, next) /\ \A y \in A \cup {x} : goal \notin next[y]
      BY AvoidingIsClosed DEF IsClosed
<1>2. A \cup {x} \in SUBSET DOMAIN next
      BY AvoidingIsClosed
<1>. HIDE DEF A
<1>. QED BY <1>1, <1>2 DEF Avoiding

\* Where every start avoids goal, so does all the walk reaches.
LEMMA AvoidingReached ==
    ASSUME NEW Node, NEW next \in [Node -> SUBSET Node], NEW goal,
           NEW R \in SUBSET Node, R \subseteq Avoiding(next, goal)
    PROVE  \A x \in ReachableFrom(R, next) : goal \notin next[x]
BY AvoidingIsClosed, ReachableIsLeast

\* Nodes that the walk has come back from: no edge leaves them, and every
\* nonempty part of them has a node with no edge into the part.
IsFinished(F, next) == /\ IsClosed(F, next)
                       /\ \A S \in SUBSET F : S # {} => \E x \in S : next[x] \cap S = {}

\* The node a call of InvalidateCache returns from joins what calls have
\* returned from before.
LEMMA FinishedGrows ==
    ASSUME NEW Node, NEW next \in [Node -> SUBSET Node], NEW F \in SUBSET Node,
           IsFinished(F, next), NEW x \in Node, next[x] \subseteq F
    PROVE  IsFinished(F \cup {x}, next)
<1>1. IsClosed(F \cup {x}, next)
      BY DEF IsFinished, IsClosed
<1>2. ASSUME NEW S \in SUBSET (F \cup {x}), S # {}
      PROVE  \E y \in S : next[y] \cap S = {}
      <2>1. CASE S \cap F = {}
            <3>1. S = {x}
                  BY <1>2, <2>1
            <3>. QED BY <2>1, <3>1
      <2>2. CASE S \cap F # {}
            <3>1. PICK y \in S \cap F : next[y] \cap (S \cap F) = {}
                  BY <2>2 DEF IsFinished
            <3>2. next[y] \subseteq F
                  BY DEF IsFinished, IsClosed
            <3>. QED BY <3>1, <3>2
      <2>. QED BY <2>1, <2>2
<1>. QED BY <1>1, <1>2 DEF IsFinished

\* Where every call has returned there was no cycle to go around.
LEMMA FinishedHasNoCycle ==
    ASSUME NEW Node, NEW next \in [Node -> SUBSET Node], NEW F \in SUBSET Node,
           IsFinished(F, next), NEW x \in F
    PROVE  ~OnCycle(x, next)
<1>. SUFFICES ASSUME x \in ReachableFrom(next[x], next) PROVE FALSE
     BY DEF OnCycle
<1>. DEFINE S == {y \in F : x \in ReachableFrom(next[y], next)}
<1>1. PICK y \in S : next[y] \cap S = {}
      BY DEF IsFinished
<1>2. PICK z \in next[y] : x = z \/ x \in ReachableFrom(next[z], next)
      BY FirstStep
<1>3. z \in F
      BY DEF IsFinished, IsClosed
<1>. QED BY <1>1, <1>2, <1>3

---------------------------------------------------------------------------
(***************************************************************************)
(* The stack of a walk.                                                    *)
(***************************************************************************)
CallOn(Node) == [cell : Addr, todo : SUBSET Node]

\* Advanced, of any stack.
After(st, x) == [st EXCEPT ![Len(st)] = [cell |-> @.cell, todo |-> @.todo \ {x}]]

\* A loop that gets past x leaves all of the stack but its own entry alone.
LEMMA StackAdvances ==
    ASSUME NEW Node, NEW st \in Seq(CallOn(Node)), st # <<>>, NEW x
    PROVE  /\ After(st, x) \in Seq(CallOn(Node))
           /\ After(st, x) # <<>>
           /\ Len(After(st, x)) = Len(st)
           /\ \A i \in 1..Len(st) : After(st, x)[i].cell = st[i].cell
           /\ \A i \in 1..Len(st) - 1 : After(st, x)[i] = st[i]
           /\ After(st, x)[Len(st)].todo = st[Len(st)].todo \ {x}
<1>. DEFINE n == Len(st)
            top == [cell |-> st[n].cell, todo |-> st[n].todo \ {x}]
<1>1. n \in 1..Len(st) /\ Len(st) \in Nat
      BY LenProperties, EmptySeq
<1>2. st[n] \in CallOn(Node)
      BY <1>1, ElementOfSeq
<1>3. top \in CallOn(Node)
      BY <1>2 DEF CallOn
<1>4. After(st, x) = [st EXCEPT ![n] = top]
      BY DEF After
<1>5. After(st, x) \in Seq(CallOn(Node)) /\ Len(After(st, x)) = Len(st)
      BY <1>1, <1>3, <1>4, ExceptSeq
<1>6. \A i \in 1..Len(st) : After(st, x)[i] = IF i = n THEN top ELSE st[i]
      BY <1>1, <1>4, LenProperties
<1>7. \A i \in 1..Len(st) : After(st, x)[i].cell = st[i].cell
      BY <1>6
<1>8. \A i \in 1..Len(st) - 1 : After(st, x)[i] = st[i]
      BY <1>1, <1>6
<1>9. After(st, x)[n].todo = st[n].todo \ {x}
      BY <1>1, <1>6
<1>. QED BY <1>1, <1>5, <1>7, <1>8, <1>9, EmptySeq

\* A call leaves the calls under way alone.
LEMMA StackGrows ==
    ASSUME NEW Node, NEW st \in Seq(CallOn(Node)), NEW e \in CallOn(Node)
    PROVE  /\ Append(st, e) \in Seq(CallOn(Node))
           /\ Append(st, e) # <<>>
           /\ Len(Append(st, e)) = Len(st) + 1
           /\ Append(st, e)[Len(st) + 1] = e
           /\ \A i \in 1..Len(st) : Append(st, e)[i] = st[i]
BY AppendProperties

\* A return leaves the calls below alone.
LEMMA StackShrinks ==
    ASSUME NEW Node, NEW st \in Seq(CallOn(Node)), st # <<>>
    PROVE  /\ Front(st) \in Seq(CallOn(Node))
           /\ Len(Front(st)) = Len(st) - 1
           /\ Len(st) \in Nat \ {0}
           /\ Front(st) # <<>> <=> Len(st) > 1
           /\ \A i \in 1..Len(st) - 1 : Front(st)[i] = st[i]
<1>. DEFINE n == Len(st) - 1
            f == Front(st)
<1>1. Len(st) \in Nat \ {0} /\ n \in Nat
      BY LenProperties, EmptySeq
<1>2. \A i \in 1..n : st[i] \in CallOn(Node)
      BY <1>1, ElementOfSeq
<1>3. f = SubSeq(st, 1, n)
      BY DEF Front
<1>4. /\ f \in Seq(CallOn(Node))
      /\ Len(f) = IF 1 <= n THEN n - 1 + 1 ELSE 0
      /\ \A i \in 1..n - 1 + 1 : f[i] = st[1 + i - 1]
      <2>. HIDE DEF n, f
      <2>1. 1 \in Int /\ n \in Int
            BY <1>1
      <2>. QED BY <1>2, <1>3, <2>1, SubSeqProperties
<1>5. Len(f) = n /\ \A i \in 1..n : f[i] = st[i]
      <2>. HIDE DEF n, f
      <2>. QED BY <1>1, <1>4
<1>6. f # <<>> <=> Len(f) > 0
      BY <1>4, EmptySeq
<1>. QED BY <1>1, <1>4, <1>5, <1>6

---------------------------------------------------------------------------
(***************************************************************************)
(* The walk of has_cycle: next is the reference graph, at the cells of the *)
(* positions, goal the written position, new the references of the formula *)
(* to set, and start those of them still to walk from.                     *)
(***************************************************************************)

\* What a walk may rely on: a position without a cell references nothing, and no
\* cell is at two positions.
IsTable(next, at) ==
    /\ next \in [Pos -> SUBSET Pos]
    /\ at \in [Pos -> Addr \cup {Null}]
    /\ \A p \in Pos : at[p] = Null => next[p] = {}
    /\ \A p, q \in Pos : at[p] # Null /\ at[p] = at[q] => p = q

\* The call at the i-th place of the stack is on the cell of a position that new
\* leads to; what it is done with avoids goal, or is under way in the next call.
CheckingAt(next, at, goal, new, st, i) ==
    \E p \in ReachableFrom(new, next) :
        /\ at[p] = st[i].cell
        /\ st[i].todo \subseteq next[p]
        /\ \A q \in next[p] \ st[i].todo :
              /\ q # goal
              /\ \/ q \in Avoiding(next, goal)
                 \/ i < Len(st) /\ at[q] = st[i+1].cell
        /\ i < Len(st) => \E q \in next[p] : at[q] = st[i+1].cell

Checking(next, at, goal, new, start, st) ==
    /\ st \in Seq(CallOn(Pos))
    /\ start \subseteq new
    /\ \A i, j \in 1..Len(st) : st[i].cell = st[j].cell => i = j
    /\ \A i \in 1..Len(st) : CheckingAt(next, at, goal, new, st, i)
    /\ \A q \in new \ start : \/ q \in Avoiding(next, goal)
                              \/ st # <<>> /\ at[q] = st[1].cell

\* A position without a cell avoids everything.
LEMMA MissingAvoids ==
    ASSUME NEW next, NEW at, IsTable(next, at), NEW goal, NEW p \in Pos, at[p] = Null
    PROVE  p \in Avoiding(next, goal)
<1>1. next \in [Pos -> SUBSET Pos] /\ next[p] = {}
      BY DEF IsTable
<1>. QED BY <1>1, AvoidingGrows

\* The outer loop gets past a position without a cell.
LEMMA CheckSkipsStart ==
    ASSUME NEW next, NEW at, IsTable(next, at), NEW goal \in Pos, NEW new \in SUBSET Pos,
           NEW start, NEW st, Checking(next, at, goal, new, start, st),
           NEW p \in start, at[p] = Null
    PROVE  Checking(next, at, goal, new, start \ {p}, st)
<1>1. p \in Avoiding(next, goal)
      BY MissingAvoids DEF Checking
<1>. QED BY <1>1 DEF Checking

\* The outer loop calls has_cycle on a cell of the formula.
LEMMA CheckBegins ==
    ASSUME NEW next, NEW at, IsTable(next, at), NEW goal \in Pos, NEW new \in SUBSET Pos,
           NEW start, Checking(next, at, goal, new, start, <<>>),
           NEW p \in start, at[p] # Null
    PROVE  Checking(next, at, goal, new, start \ {p},
                    Append(<<>>, [cell |-> at[p], todo |-> next[p]]))
<1>. DEFINE e  == [cell |-> at[p], todo |-> next[p]]
            st == Append(<<>>, e)
<1>1. p \in new /\ p \in Pos /\ start \subseteq new
      BY DEF Checking
<1>2. e \in CallOn(Pos) /\ e.cell = at[p] /\ e.todo = next[p]
      BY <1>1 DEF IsTable, CallOn
<1>3. /\ st \in Seq(CallOn(Pos)) /\ st # <<>> /\ Len(st) = 1 /\ st[1] = e
      <2>. HIDE DEF e
      <2>1. <<>> \in Seq(CallOn(Pos)) /\ Len(<<>>) = 0
            BY EmptySeq
      <2>. QED BY <1>2, <2>1, StackGrows
<1>4. p \in ReachableFrom(new, next)
      BY <1>1, ReachableIsClosed DEF IsTable
<1>. HIDE DEF e, st
<1>5. CheckingAt(next, at, goal, new, st, 1)
      BY <1>2, <1>3, <1>4 DEF CheckingAt
<1>6. \A q \in new \ (start \ {p}) : q \in Avoiding(next, goal) \/ at[q] = st[1].cell
      BY <1>2, <1>3 DEF Checking
<1>. QED BY <1>1, <1>3, <1>5, <1>6 DEF Checking, e, st

\* The loop of has_cycle gets past a position without a cell.
LEMMA CheckSkips ==
    ASSUME NEW next, NEW at, IsTable(next, at), NEW goal \in Pos, NEW new \in SUBSET Pos,
           NEW start, NEW st, Checking(next, at, goal, new, start, st), st # <<>>,
           NEW dep \in Last(st).todo, dep # goal, at[dep] = Null
    PROVE  Checking(next, at, goal, new, start, After(st, dep))
<1>. DEFINE n   == Len(st)
            new_st == After(st, dep)
<1>1. st \in Seq(CallOn(Pos)) /\ n \in Nat \ {0} /\ dep \in st[n].todo
      BY EmptySeq DEF Checking, Last
<1>2. /\ new_st \in Seq(CallOn(Pos)) /\ new_st # <<>> /\ Len(new_st) = n
      /\ \A i \in 1..n : new_st[i].cell = st[i].cell
      /\ \A i \in 1..n-1 : new_st[i] = st[i]
      /\ new_st[n].todo = st[n].todo \ {dep}
      BY <1>1, StackAdvances
<1>3. dep \in Pos
      <2>1. st[n] \in CallOn(Pos)
            BY <1>1, ElementOfSeq
      <2>. QED BY <1>1, <2>1 DEF CallOn
<1>4. dep \in Avoiding(next, goal)
      BY <1>3, MissingAvoids
<1>. HIDE DEF new_st
<1>5. ASSUME NEW i \in 1..n
      PROVE  CheckingAt(next, at, goal, new, new_st, i)
      <2>1. PICK p \in ReachableFrom(new, next) :
               /\ at[p] = st[i].cell
               /\ st[i].todo \subseteq next[p]
               /\ \A q \in next[p] \ st[i].todo :
                     /\ q # goal
                     /\ \/ q \in Avoiding(next, goal)
                        \/ i < Len(st) /\ at[q] = st[i+1].cell
               /\ i < Len(st) => \E q \in next[p] : at[q] = st[i+1].cell
            BY DEF Checking, CheckingAt
      <2>2. CASE i = n
            BY <1>1, <1>2, <1>4, <2>1, <2>2 DEF CheckingAt
      <2>3. CASE i < n
            <3>1. new_st[i] = st[i] /\ new_st[i+1].cell = st[i+1].cell
                  BY <1>1, <1>2, <2>3
            <3>. QED BY <1>2, <2>1, <2>3, <3>1 DEF CheckingAt
      <2>. QED BY <1>1, <2>2, <2>3
<1>. QED BY <1>1, <1>2, <1>5 DEF Checking, new_st

\* has_cycle calls itself on a cell that is not on the way yet.
LEMMA CheckFollows ==
    ASSUME NEW next, NEW at, IsTable(next, at), NEW goal \in Pos, NEW new \in SUBSET Pos,
           NEW start, NEW st, Checking(next, at, goal, new, start, st), st # <<>>,
           NEW dep \in Last(st).todo, dep # goal, at[dep] # Null,
           \A i \in 1..Len(st) : st[i].cell # at[dep]
    PROVE  Checking(next, at, goal, new, start,
                    Append(After(st, dep), [cell |-> at[dep], todo |-> next[dep]]))
<1>. DEFINE n   == Len(st)
            mid == After(st, dep)
            e   == [cell |-> at[dep], todo |-> next[dep]]
            new_st == Append(mid, e)
<1>1. st \in Seq(CallOn(Pos)) /\ n \in Nat \ {0} /\ dep \in st[n].todo
      BY EmptySeq DEF Checking, Last
<1>2. /\ mid \in Seq(CallOn(Pos)) /\ Len(mid) = n
      /\ \A i \in 1..n : mid[i].cell = st[i].cell
      /\ \A i \in 1..n-1 : mid[i] = st[i]
      /\ mid[n].todo = st[n].todo \ {dep}
      BY <1>1, StackAdvances
<1>3. dep \in Pos
      <2>1. st[n] \in CallOn(Pos)
            BY <1>1, ElementOfSeq
      <2>. QED BY <1>1, <2>1 DEF CallOn
<1>4. e \in CallOn(Pos) /\ e.cell = at[dep] /\ e.todo = next[dep]
      BY <1>3 DEF IsTable, CallOn
<1>. HIDE DEF mid, e
<1>5. /\ new_st \in Seq(CallOn(Pos)) /\ new_st # <<>> /\ Len(new_st) = n + 1
      /\ new_st[n+1] = e
      /\ \A i \in 1..n : new_st[i] = mid[i]
      BY <1>2, <1>4, StackGrows
<1>. HIDE DEF new_st
<1>6. ASSUME NEW i \in 1..n
      PROVE  CheckingAt(next, at, goal, new, new_st, i)
      <2>1. PICK p \in ReachableFrom(new, next) :
               /\ at[p] = st[i].cell
               /\ st[i].todo \subseteq next[p]
               /\ \A q \in next[p] \ st[i].todo :
                     /\ q # goal
                     /\ \/ q \in Avoiding(next, goal)
                        \/ i < Len(st) /\ at[q] = st[i+1].cell
               /\ i < Len(st) => \E q \in next[p] : at[q] = st[i+1].cell
            BY DEF Checking, CheckingAt
      <2>2. CASE i = n
            <3>1. new_st[i].cell = st[i].cell /\ new_st[i].todo = st[i].todo \ {dep}
                  BY <1>1, <1>2, <1>5, <2>2
            <3>2. i < Len(new_st) /\ new_st[i+1].cell = at[dep]
                  BY <1>1, <1>4, <1>5, <2>2
            <3>. QED BY <1>1, <2>1, <2>2, <3>1, <3>2 DEF CheckingAt
      <2>3. CASE i < n
            <3>1. i \in 1..n-1 /\ i + 1 \in 1..n /\ i < Len(new_st)
                  BY <1>1, <1>5, <2>3
            <3>2. new_st[i] = st[i] /\ new_st[i+1].cell = st[i+1].cell
                  BY <1>2, <1>5, <3>1
            <3>. QED BY <2>1, <2>3, <3>1, <3>2 DEF CheckingAt
      <2>. QED BY <1>1, <2>2, <2>3
<1>7. CheckingAt(next, at, goal, new, new_st, n + 1)
      <2>1. PICK p \in ReachableFrom(new, next) : st[n].todo \subseteq next[p]
            BY <1>1 DEF Checking, CheckingAt
      <2>2. dep \in ReachableFrom(new, next)
            BY <1>1, <2>1, ReachableIsClosed DEF IsTable, IsClosed
      <2>. QED BY <1>1, <1>4, <1>5, <2>2 DEF CheckingAt
<1>8. ASSUME NEW i \in 1..n+1, NEW j \in 1..n+1, new_st[i].cell = new_st[j].cell
      PROVE  i = j
      <2>1. \A k \in 1..n : new_st[k].cell = st[k].cell /\ new_st[k].cell # new_st[n+1].cell
            BY <1>2, <1>4, <1>5
      <2>. QED BY <1>1, <1>8, <2>1 DEF Checking
<1>9. new_st[1].cell = st[1].cell
      BY <1>1, <1>2, <1>5
<1>10. \A i \in 1..Len(new_st) : CheckingAt(next, at, goal, new, new_st, i)
      BY <1>1, <1>5, <1>6, <1>7
<1>. QED BY <1>5, <1>8, <1>9, <1>10 DEF Checking, new_st, mid, e

\* A cell that the walk comes to again while a call on it is under way would be
\* on a cycle: in an acyclic graph there is none.
LEMMA NeverOnTheWay ==
    ASSUME NEW next, NEW at, IsTable(next, at), IsAcyclic(next),
           NEW goal \in Pos, NEW new \in SUBSET Pos,
           NEW start, NEW st, Checking(next, at, goal, new, start, st), st # <<>>,
           NEW dep \in Last(st).todo, at[dep] # Null
    PROVE  \A i \in 1..Len(st) : st[i].cell # at[dep]
<1>. DEFINE n == Len(st)
<1>1. st \in Seq(CallOn(Pos)) /\ n \in Nat \ {0} /\ dep \in st[n].todo
      BY EmptySeq DEF Checking, Last
<1>2. SUFFICES ASSUME NEW k \in 1..n, st[k].cell = at[dep] PROVE FALSE
      OBVIOUS
<1>. DEFINE S == {p \in Pos : \E i \in k..n : at[p] = st[i].cell}
<1>3. dep \in S
      <2>1. st[n] \in CallOn(Pos)
            BY <1>1, ElementOfSeq
      <2>2. dep \in Pos
            BY <1>1, <2>1 DEF CallOn
      <2>. QED BY <1>1, <1>2, <2>2
<1>4. ASSUME NEW p \in S
      PROVE  next[p] \cap S # {}
      <2>1. PICK i \in k..n : at[p] = st[i].cell
            OBVIOUS
      <2>2. i \in 1..n /\ st[i] \in CallOn(Pos)
            BY <1>1, ElementOfSeq
      <2>3. PICK r \in ReachableFrom(new, next) :
               /\ at[r] = st[i].cell
               /\ st[i].todo \subseteq next[r]
               /\ i < Len(st) => \E q \in next[r] : at[q] = st[i+1].cell
            BY <2>2 DEF Checking, CheckingAt
      <2>4. r \in Pos
            BY <2>3, ReachableIsClosed DEF IsTable
      <2>5. r = p
            BY <2>1, <2>2, <2>3, <2>4, NullAssumption DEF IsTable, CallOn
      <2>6. CASE i = n
            BY <1>1, <1>3, <2>3, <2>5, <2>6
      <2>7. CASE i < n
            <3>1. PICK q \in next[p] : at[q] = st[i+1].cell
                  BY <2>3, <2>5, <2>7
            <3>2. i + 1 \in k..n /\ q \in Pos
                  BY <1>1, <2>7, <3>1 DEF IsTable
            <3>. QED BY <3>1, <3>2
      <2>. QED BY <1>1, <2>6, <2>7
<1>5. S \in SUBSET DOMAIN next
      BY DEF IsTable
<1>. HIDE DEF S
<1>. QED BY <1>3, <1>4, <1>5 DEF IsAcyclic

\* has_cycle returns false: its cell avoids the written position.
LEMMA CheckReturns ==
    ASSUME NEW next, NEW at, IsTable(next, at), NEW goal \in Pos, NEW new \in SUBSET Pos,
           NEW start, NEW st, Checking(next, at, goal, new, start, st), st # <<>>,
           Last(st).todo = {}
    PROVE  Checking(next, at, goal, new, start, Front(st))
<1>. DEFINE n == Len(st)
            f == Front(st)
<1>1. st \in Seq(CallOn(Pos)) /\ n \in Nat \ {0} /\ st[n].todo = {}
      BY EmptySeq DEF Checking, Last
<1>2. /\ f \in Seq(CallOn(Pos)) /\ Len(f) = n - 1
      /\ f # <<>> <=> n > 1
      /\ \A i \in 1..n-1 : f[i] = st[i]
      BY <1>1, StackShrinks
<1>. HIDE DEF f
<1>3. PICK back \in ReachableFrom(new, next) :
         /\ at[back] = st[n].cell
         /\ \A q \in next[back] : q # goal /\ q \in Avoiding(next, goal)
      BY <1>1 DEF Checking, CheckingAt
<1>4. back \in Pos /\ at[back] # Null
      <2>1. st[n] \in CallOn(Pos)
            BY <1>1, ElementOfSeq
      <2>2. back \in Pos
            BY ReachableIsClosed DEF IsTable
      <2>. QED BY <1>3, <2>1, <2>2, NullAssumption DEF CallOn
<1>5. back \in Avoiding(next, goal)
      BY <1>3, <1>4, AvoidingGrows DEF IsTable
<1>6. \A q \in Pos : at[q] = st[n].cell => q \in Avoiding(next, goal)
      BY <1>3, <1>4, <1>5 DEF IsTable
<1>7. ASSUME NEW i \in 1..n-1
      PROVE  CheckingAt(next, at, goal, new, f, i)
      <2>0. i \in 1..n
            BY <1>1
      <2>1. PICK p \in ReachableFrom(new, next) :
               /\ at[p] = st[i].cell
               /\ st[i].todo \subseteq next[p]
               /\ \A q \in next[p] \ st[i].todo :
                     /\ q # goal
                     /\ \/ q \in Avoiding(next, goal)
                        \/ i < Len(st) /\ at[q] = st[i+1].cell
               /\ i < Len(st) => \E q \in next[p] : at[q] = st[i+1].cell
            BY <2>0 DEF Checking, CheckingAt
      <2>2. next[p] \subseteq Pos
            BY <2>1, ReachableIsClosed DEF IsTable
      <2>3. CASE i = n - 1
            BY <1>1, <1>2, <1>6, <2>1, <2>2, <2>3 DEF CheckingAt
      <2>4. CASE i < n - 1
            <3>1. i + 1 \in 1..n-1 /\ i < Len(st) /\ i < Len(f)
                  BY <1>1, <1>2, <2>4
            <3>2. f[i] = st[i] /\ f[i+1] = st[i+1]
                  BY <1>2, <3>1
            <3>. QED BY <2>1, <3>1, <3>2 DEF CheckingAt
      <2>. QED BY <1>1, <2>3, <2>4
<1>8. ASSUME NEW q \in new \ start
      PROVE  \/ q \in Avoiding(next, goal)
             \/ f # <<>> /\ at[q] = f[1].cell
      <2>1. q \in Avoiding(next, goal) \/ at[q] = st[1].cell
            BY DEF Checking
      <2>2. CASE n = 1
            BY <1>6, <2>1, <2>2
      <2>3. CASE n > 1
            <3>1. f # <<>> /\ f[1] = st[1]
                  BY <1>1, <1>2, <2>3
            <3>. QED BY <2>1, <3>1
      <2>4. n = 1 \/ n > 1
            <3>1. n \in Nat \ {0}
                  BY <1>1, Zenon
            <3>. HIDE DEF n
            <3>. QED BY <3>1
      <2>. QED BY <2>2, <2>3, <2>4
<1>9. ASSUME NEW i \in 1..n-1, NEW j \in 1..n-1, f[i].cell = f[j].cell
      PROVE  i = j
      BY <1>1, <1>2, <1>9 DEF Checking
<1>. QED BY <1>2, <1>7, <1>8, <1>9 DEF Checking, f

\* The outer loop is through: no start reaches the written position.
LEMMA CheckAccepts ==
    ASSUME NEW next, NEW at, IsTable(next, at), NEW goal \in Pos, NEW new \in SUBSET Pos,
           Checking(next, at, goal, new, {}, <<>>)
    PROVE  \A p \in ReachableFrom(new, next) : goal \notin next[p]
BY AvoidingReached DEF Checking, IsTable

---------------------------------------------------------------------------
(***************************************************************************)
(* The walk of InvalidateCache from root: next is dependents_, and done    *)
(* holds the cells that calls have returned from.                          *)
(***************************************************************************)
UnwindingAt(next, root, done, st, i) ==
    /\ st[i].cell \in ReachableFrom({root}, next)
    /\ st[i].todo \subseteq next[st[i].cell]
    /\ \A b \in next[st[i].cell] \ st[i].todo :
          b \in done \/ (i < Len(st) /\ b = st[i+1].cell)
    /\ i < Len(st) => st[i+1].cell \in next[st[i].cell]
    /\ \A j \in i+1..Len(st) :
          st[j].cell \in ReachableFrom(next[st[i].cell], next)

Unwinding(next, root, done, st) ==
    /\ st \in Seq(CallOn(Addr))
    /\ done \subseteq ReachableFrom({root}, next)
    /\ IsFinished(done, next)
    /\ root \in done \/ (st # <<>> /\ st[1].cell = root)
    /\ \A i \in 1..Len(st) : UnwindingAt(next, root, done, st, i)

OnStack(st) == {st[i].cell : i \in 1..Len(st)}

\* The first call of InvalidateCache.
LEMMA UnwindBegins ==
    ASSUME NEW next \in [Addr -> SUBSET Addr], NEW root \in Addr,
           NEW st, st = Append(<<>>, [cell |-> root, todo |-> next[root]])
    PROVE  /\ Unwinding(next, root, {}, st)
           /\ OnStack(st) = {root} /\ Len(st) = 1
<1>. DEFINE e  == [cell |-> root, todo |-> next[root]]
<1>1. e \in CallOn(Addr) /\ e.cell = root /\ e.todo = next[root]
      BY DEF CallOn
<1>2. /\ st \in Seq(CallOn(Addr)) /\ st # <<>> /\ Len(st) = 1 /\ st[1] = e
      <2>0. st = Append(<<>>, e)
            OBVIOUS
      <2>. HIDE DEF e
      <2>1. <<>> \in Seq(CallOn(Addr)) /\ Len(<<>>) = 0
            BY EmptySeq
      <2>. QED BY <1>1, <2>0, <2>1, StackGrows
<1>3. root \in ReachableFrom({root}, next)
      BY ReachableIsClosed
<1>. HIDE DEF e
<1>4. UnwindingAt(next, root, {}, st, 1)
      BY <1>1, <1>2, <1>3 DEF UnwindingAt
<1>5. IsFinished({}, next)
      BY DEF IsFinished, IsClosed
<1>. QED BY <1>1, <1>2, <1>4, <1>5 DEF Unwinding, OnStack

\* A call of InvalidateCache on b, made by the loop of the innermost call.
Descended(st, b, next) == Append(After(st, b), [cell |-> b, todo |-> next[b]])

\* A call of InvalidateCache puts its cell on the stack.
LEMMA DescendedOnStack ==
    ASSUME NEW next \in [Addr -> SUBSET Addr],
           NEW st \in Seq(CallOn(Addr)), st # <<>>, NEW b \in Addr
    PROVE  OnStack(Descended(st, b, next)) = OnStack(st) \cup {b}
<1>. DEFINE n   == Len(st)
            mid == After(st, b)
            e   == [cell |-> b, todo |-> next[b]]
            new_st == Append(mid, e)
<1>1. /\ mid \in Seq(CallOn(Addr)) /\ Len(mid) = n
      /\ \A i \in 1..n : mid[i].cell = st[i].cell
      BY StackAdvances
<1>2. e \in CallOn(Addr) /\ e.cell = b
      BY DEF CallOn
<1>. HIDE DEF mid, e
<1>3. /\ Len(new_st) = n + 1
      /\ new_st[n+1] = e
      /\ \A i \in 1..n : new_st[i] = mid[i]
      BY <1>1, <1>2, StackGrows
<1>4. 1..n+1 = 1..n \cup {n+1}
      BY LenProperties
<1>. HIDE DEF new_st
<1>5. OnStack(new_st) = OnStack(st) \cup {b}
      BY <1>1, <1>2, <1>3, <1>4 DEF OnStack
<1>. QED BY <1>5 DEF Descended, new_st, mid, e

\* InvalidateCache calls itself on a dependent.
LEMMA UnwindDescends ==
    ASSUME NEW next \in [Addr -> SUBSET Addr], NEW root \in Addr, NEW done,
           NEW st, Unwinding(next, root, done, st), st # <<>>,
           NEW b \in Last(st).todo
    PROVE  /\ b \in ReachableFrom({root}, next)
           /\ Unwinding(next, root, done, Descended(st, b, next))
           /\ Len(Descended(st, b, next)) = Len(st) + 1
<1>. DEFINE n   == Len(st)
            mid == After(st, b)
            e   == [cell |-> b, todo |-> next[b]]
            new_st == Descended(st, b, next)
<1>1. st \in Seq(CallOn(Addr)) /\ n \in Nat \ {0} /\ n \in 1..n /\ b \in st[n].todo
      BY EmptySeq DEF Unwinding, Last
<1>2. /\ mid \in Seq(CallOn(Addr)) /\ Len(mid) = n
      /\ \A i \in 1..n : mid[i].cell = st[i].cell
      /\ \A i \in 1..n-1 : mid[i] = st[i]
      /\ mid[n].todo = st[n].todo \ {b}
      <2>1. st \in Seq(CallOn(Addr)) /\ st # <<>>
            BY <1>1
      <2>. QED BY <2>1, StackAdvances
<1>3. \A i \in 1..n : st[i].cell \in Addr
      <2>1. ASSUME NEW i \in 1..n PROVE st[i] \in CallOn(Addr)
            BY <1>1, ElementOfSeq
      <2>. QED BY <2>1 DEF CallOn
<1>4. UnwindingAt(next, root, done, st, n)
      BY <1>1 DEF Unwinding
<1>5. b \in next[st[n].cell] /\ b \in Addr
      BY <1>1, <1>3, <1>4 DEF UnwindingAt
<1>6. b \in ReachableFrom({root}, next)
      BY <1>1, <1>3, <1>4, <1>5, ReachableIsClosed DEF UnwindingAt, IsClosed
<1>7. e \in CallOn(Addr) /\ e.cell = b /\ e.todo = next[b]
      BY <1>5 DEF CallOn
<1>0. new_st = Append(mid, e)
      BY DEF Descended
<1>. HIDE DEF mid, e, new_st
<1>8. /\ new_st \in Seq(CallOn(Addr)) /\ new_st # <<>> /\ Len(new_st) = n + 1
      /\ new_st[n+1] = e
      /\ \A i \in 1..n : new_st[i] = mid[i]
      <2>1. /\ Append(mid, e) \in Seq(CallOn(Addr))
            /\ Append(mid, e) # <<>>
            /\ Len(Append(mid, e)) = Len(mid) + 1
            /\ Append(mid, e)[Len(mid) + 1] = e
            /\ \A i \in 1..Len(mid) : Append(mid, e)[i] = mid[i]
            BY <1>2, <1>7, StackGrows
      <2>. HIDE DEF n
      <2>. QED BY <1>0, <1>2, <2>1
<1>9. \A i \in 1..n : new_st[i].cell = st[i].cell
      BY <1>2, <1>8
<1>10. ASSUME NEW i \in 1..n
       PROVE  UnwindingAt(next, root, done, new_st, i)
      <2>1. UnwindingAt(next, root, done, st, i)
            BY DEF Unwinding
      <2>2. \A j \in i+1..n+1 : new_st[j].cell \in ReachableFrom(next[st[i].cell], next)
            <3>1. ReachableFrom(next[st[i].cell], next) \subseteq Addr
                  /\ next[st[i].cell] \subseteq ReachableFrom(next[st[i].cell], next)
                  /\ IsClosed(ReachableFrom(next[st[i].cell], next), next)
                  BY <1>3, ReachableIsClosed
            <3>2. i = n \/ st[n].cell \in ReachableFrom(next[st[i].cell], next)
                  BY <1>1, <2>1 DEF UnwindingAt
            <3>3. b \in ReachableFrom(next[st[i].cell], next)
                  BY <1>5, <3>1, <3>2 DEF IsClosed
            <3>4. ASSUME NEW j \in i+1..n
                  PROVE  new_st[j].cell \in ReachableFrom(next[st[i].cell], next)
                  <4>1. j \in 1..n
                        BY <1>1
                  <4>. QED BY <1>9, <2>1, <4>1 DEF UnwindingAt
            <3>. QED BY <1>1, <1>7, <1>8, <3>3, <3>4
      <2>3. CASE i = n
            <3>1. new_st[i].todo = st[i].todo \ {b} /\ new_st[i+1].cell = b /\ i < Len(new_st)
                  BY <1>1, <1>2, <1>7, <1>8, <2>3
            <3>. QED BY <1>1, <1>5, <1>8, <1>9, <2>1, <2>2, <2>3, <3>1 DEF UnwindingAt
      <2>4. CASE i < n
            <3>1. i \in 1..n-1 /\ i + 1 \in 1..n /\ i < Len(new_st)
                  BY <1>1, <1>8, <2>4
            <3>2. new_st[i] = st[i] /\ new_st[i+1].cell = st[i+1].cell
                  BY <1>2, <1>8, <1>9, <3>1
            <3>. QED BY <1>8, <2>1, <2>2, <2>4, <3>1, <3>2 DEF UnwindingAt
      <2>. QED BY <1>1, <2>3, <2>4
<1>11. UnwindingAt(next, root, done, new_st, n + 1)
      BY <1>1, <1>6, <1>7, <1>8 DEF UnwindingAt
<1>12. Unwinding(next, root, done, new_st)
      <2>1. \A i \in 1..Len(new_st) : UnwindingAt(next, root, done, new_st, i)
            BY <1>1, <1>8, <1>10, <1>11
      <2>2. new_st[1].cell = st[1].cell
            BY <1>1, <1>9
      <2>. QED BY <1>8, <2>1, <2>2 DEF Unwinding
<1>. QED BY <1>6, <1>8, <1>12 DEF new_st

\* InvalidateCache returns: its cell is finished.
LEMMA UnwindReturns ==
    ASSUME NEW next \in [Addr -> SUBSET Addr], NEW root \in Addr, NEW done,
           NEW st, Unwinding(next, root, done, st), st # <<>>, Last(st).todo = {}
    PROVE  /\ Unwinding(next, root, done \cup {Last(st).cell}, Front(st))
           /\ (done \cup {Last(st).cell}) \cup OnStack(Front(st)) = done \cup OnStack(st)
           /\ Len(Front(st)) = Len(st) - 1
<1>. DEFINE n == Len(st)
            f == Front(st)
            top == st[n].cell
            all == done \cup {top}
<1>1. st \in Seq(CallOn(Addr)) /\ n \in Nat \ {0} /\ n \in 1..n /\ st[n].todo = {}
      BY EmptySeq DEF Unwinding, Last
<1>2. /\ f \in Seq(CallOn(Addr)) /\ Len(f) = n - 1
      /\ f # <<>> <=> n > 1
      /\ \A i \in 1..n-1 : f[i] = st[i]
      BY <1>1, StackShrinks
<1>3. UnwindingAt(next, root, done, st, n)
      BY <1>1 DEF Unwinding
<1>4. top \in Addr
      <2>1. st[n] \in CallOn(Addr)
            BY <1>1, ElementOfSeq
      <2>. QED BY <2>1 DEF CallOn
<1>5. next[top] \subseteq done /\ top \in ReachableFrom({root}, next)
      BY <1>1, <1>3 DEF UnwindingAt
<1>6. done \in SUBSET Addr /\ IsFinished(done, next)
      BY ReachableIsClosed DEF Unwinding
<1>7. IsFinished(all, next) /\ all \subseteq ReachableFrom({root}, next)
      <2>1. done \subseteq ReachableFrom({root}, next)
            BY DEF Unwinding
      <2>. HIDE DEF top
      <2>. QED BY <1>4, <1>5, <1>6, <2>1, FinishedGrows
<1>. HIDE DEF f
<1>8. ASSUME NEW i \in 1..n-1
      PROVE  UnwindingAt(next, root, all, f, i)
      <2>1. i \in 1..n
            BY <1>1
      <2>2. UnwindingAt(next, root, done, st, i)
            BY <2>1 DEF Unwinding
      <2>3. f[i] = st[i]
            BY <1>2
      <2>4. \A j \in i+1..n-1 : f[j].cell \in ReachableFrom(next[st[i].cell], next)
            <3>1. ASSUME NEW j \in i+1..n-1
                  PROVE  j \in 1..n-1 /\ j \in i+1..n
                  BY <1>1
            <3>. QED BY <1>2, <2>2, <3>1 DEF UnwindingAt
      <2>5. CASE i = n - 1
            <3>1. \A b \in next[st[i].cell] \ st[i].todo : b \in all
                  BY <1>1, <2>2, <2>5 DEF UnwindingAt
            <3>2. ~(i < Len(f))
                  BY <1>1, <1>2, <2>5
            <3>. QED BY <1>2, <2>2, <2>3, <2>4, <3>1, <3>2 DEF UnwindingAt
      <2>6. CASE i < n - 1
            <3>1. i + 1 \in 1..n-1 /\ i < Len(st)
                  BY <1>1, <2>6
            <3>2. f[i+1] = st[i+1]
                  BY <1>2, <3>1
            <3>. QED BY <1>2, <2>2, <2>3, <2>4, <2>6, <3>1, <3>2 DEF UnwindingAt
      <2>7. i = n - 1 \/ i < n - 1
            BY <1>1
      <2>. QED BY <2>5, <2>6, <2>7
<1>9. root \in all \/ (f # <<>> /\ f[1].cell = root)
      <2>1. root \in done \/ st[1].cell = root
            BY DEF Unwinding
      <2>2. CASE n = 1
            BY <2>1, <2>2
      <2>3. CASE n > 1
            <3>1. f # <<>> /\ f[1] = st[1]
                  BY <1>1, <1>2, <2>3
            <3>. QED BY <2>1, <3>1
      <2>4. n = 1 \/ n > 1
            <3>1. n \in Nat \ {0}
                  BY <1>1, Zenon
            <3>. HIDE DEF n
            <3>. QED BY <3>1
      <2>. QED BY <2>2, <2>3, <2>4
<1>10. all \cup OnStack(f) = done \cup OnStack(st)
      <2>1. 1..n = 1..n-1 \cup {n}
            BY <1>1
      <2>2. OnStack(st) = {st[i].cell : i \in 1..n-1} \cup {top}
            BY <2>1 DEF OnStack
      <2>3. OnStack(f) = {st[i].cell : i \in 1..n-1}
            BY <1>2 DEF OnStack
      <2>. QED BY <2>2, <2>3
<1>11. Unwinding(next, root, all, f)
      BY <1>2, <1>7, <1>8, <1>9 DEF Unwinding
<1>. QED BY <1>2, <1>10, <1>11 DEF f, Last

\* The walk that has returned has reset all that depends on root, and there was
\* no cycle to run around.
LEMMA UnwindEnds ==
    ASSUME NEW next \in [Addr -> SUBSET Addr], NEW root \in Addr, NEW done,
           Unwinding(next, root, done, <<>>)
    PROVE  /\ done = ReachableFrom({root}, next)
           /\ \A a \in done : ~OnCycle(a, next)
<1>1. root \in done /\ IsFinished(done, next) /\ done \subseteq ReachableFrom({root}, next)
      BY DEF Unwinding
<1>2. done \in SUBSET Addr
      BY <1>1, ReachableIsClosed
<1>3. ReachableFrom({root}, next) \subseteq done
      BY <1>1, <1>2, ReachableIsLeast DEF IsFinished
<1>. QED BY <1>1, <1>2, <1>3, FinishedHasNoCycle

\* More calls under way than there are cells: one cell is on the stack twice, and
\* the walk has come back to it.
LEMMA UnwindOverflows ==
    ASSUME NEW next \in [Addr -> SUBSET Addr], NEW root \in Addr, NEW done,
           NEW st, Unwinding(next, root, done, st), Len(st) > StackDepth
    PROVE  \E a \in ReachableFrom({root}, next) : OnCycle(a, next)
<1>. DEFINE n == Len(st)
            f == [i \in 1..n |-> st[i].cell]
<1>1. st \in Seq(CallOn(Addr)) /\ n \in Nat
      BY LenProperties DEF Unwinding
<1>2. f \in [1..n -> Addr]
      <2>1. ASSUME NEW i \in 1..n PROVE st[i] \in CallOn(Addr)
            BY <1>1, ElementOfSeq
      <2>. QED BY <2>1 DEF CallOn
<1>3. IsFiniteSet(1..n) /\ Cardinality(1..n) = n
      <2>1. IsFiniteSet(1..n) /\ Cardinality(1..n) = IF 1 > n THEN 0 ELSE n - 1 + 1
            <3>. HIDE DEF n
            <3>. QED BY <1>1, FS_Interval
      <2>. QED BY <1>1, <2>1
<1>4. Cardinality(Addr) \in Nat /\ Cardinality(Addr) < n
      BY <1>1, StackAssumption, FS_CardinalityType
<1>5. \E i, j \in 1..n : i # j /\ f[i] = f[j]
      <2>. HIDE DEF f, n
      <2>. QED BY <1>2, <1>3, <1>4, StackAssumption, FS_PigeonHole
<1>6. PICK i \in 1..n, j \in 1..n : i < j /\ st[i].cell = st[j].cell
      BY <1>1, <1>5
<1>7. j \in i+1..n
      BY <1>1, <1>6
<1>8. UnwindingAt(next, root, done, st, i)
      BY DEF Unwinding
<1>. QED BY <1>6, <1>7, <1>8 DEF UnwindingAt, OnCycle

---------------------------------------------------------------------------
(***************************************************************************)
(* The invariant.                                                          *)
(***************************************************************************)

\* Table has copies of the operators that look at no variable.
LEMMA TableConstants ==
    /\ Table!Pos = Pos
    /\ Table!Crash = Crash
    /\ \A t : Table!Refs(t) = Refs(t)
    /\ \A pos : Table!IsValid(pos) <=> IsValid(pos)
    /\ \A R, next : Table!ReachableFrom(R, next) = ReachableFrom(R, next)
    /\ \A x, next : Table!OnCycle(x, next) <=> OnCycle(x, next)
    /\ \A fresh : Table!Allocated(fresh) = Allocated(fresh)
    /\ \A D, S : Table!Injection(D, S) = Injection(D, S)
    /\ \A occ : Table!BoundingSize(occ) = BoundingSize(occ)
    /\ \A at, base, pos, old, new :
          Table!UpdatedDependencies(at, base, pos, old, new)
             = UpdatedDependencies(at, base, pos, old, new)
<1>1. Table!Pos = Pos
      BY DEF Table!Pos, Pos
<1>2. Table!Crash = Crash
      BY DEF Table!Crash, Crash
<1>3. \A t : Table!Refs(t) = Refs(t)
      BY DEF Table!Refs, Refs
<1>4. \A pos : Table!IsValid(pos) <=> IsValid(pos)
      BY DEF Table!IsValid, IsValid
<1>5. \A R, next : Table!ReachableFrom(R, next) = ReachableFrom(R, next)
      BY DEF Table!ReachableFrom, ReachableFrom, Table!IsClosed, IsClosed
<1>6. \A x, next : Table!OnCycle(x, next) <=> OnCycle(x, next)
      BY <1>5 DEF Table!OnCycle, OnCycle
<1>7. \A fresh : Table!Allocated(fresh) = Allocated(fresh)
      BY DEF Table!Allocated, Allocated
<1>8. \A D, S : Table!Injection(D, S) = Injection(D, S)
      BY DEF Table!Injection, Injection, Table!IsInjective, IsInjective
<1>9. \A occ : Table!BoundingSize(occ) = BoundingSize(occ)
      BY DEF Table!BoundingSize, BoundingSize, Table!Max, Max
<1>10. \A at, base, pos, old, new :
          Table!UpdatedDependencies(at, base, pos, old, new)
             = UpdatedDependencies(at, base, pos, old, new)
      BY DEF Table!UpdatedDependencies, UpdatedDependencies
<1>. QED BY <1>1, <1>2, <1>3, <1>4, <1>5, <1>6, <1>7, <1>8, <1>9, <1>10

\* Before the first change the caller sees the table there is.
LEMMA SeenIsNow ==
    ASSUME step # "returned", now = before
    PROVE  /\ Table!Live = Live
           /\ Table!Occupied = Occupied
           /\ Table!References = References
           /\ \A pos, t : Table!IsCircular(pos, t) <=> IsCircular(pos, t)
           /\ \A pos, refs : Table!Created(pos, refs) = Created(pos, refs)
           /\ \A fresh : /\ Table!CellsWith(fresh) = CellsWith(fresh)
                         /\ Table!DependentsWith(fresh) = DependentsWith(fresh)
<1>1. /\ Seen.cells = cells /\ Seen.impl = impl /\ Seen.cache = cache
      /\ Seen.dependents = dependents /\ Seen.print_size = print_size
      BY DEF Seen, now
<1>2. Table!Occupied = Occupied /\ Table!Live = Live
      BY <1>1, TableConstants DEF Table!Occupied, Occupied, Table!Live, Live
<1>3. Table!References = References
      BY <1>1, TableConstants DEF Table!References, References, Table!TextAt, TextAt
<1>4. \A pos, t : Table!IsCircular(pos, t) <=> IsCircular(pos, t)
      BY <1>3, TableConstants
         DEF Table!IsCircular, IsCircular,
             Table!CheckSelfReference, CheckSelfReference,
             Table!CheckCircularDependency, CheckCircularDependency
<1>5. \A pos, refs : Table!Created(pos, refs) = Created(pos, refs)
      BY <1>2 DEF Table!Created, Created
<1>6. \A fresh : /\ Table!CellsWith(fresh) = CellsWith(fresh)
                 /\ Table!DependentsWith(fresh) = DependentsWith(fresh)
      BY <1>1, TableConstants
         DEF Table!CellsWith, CellsWith, Table!DependentsWith, DependentsWith
<1>. QED BY <1>2, <1>3, <1>4, <1>5, <1>6

\* Until the call returns, the caller sees the table it was made on.
LEMMA SeenStays ==
    ASSUME step # "returned", step' # "returned", UNCHANGED before
    PROVE  /\ Seen = before /\ Seen' = before
           /\ Table!Live' = Table!Live
           /\ Table!References' = Table!References
           /\ \A pos, t : Table!IsCircular(pos, t)' <=> Table!IsCircular(pos, t)
           /\ \A pos, refs : Table!Created(pos, refs)' = Table!Created(pos, refs)
           /\ \A fresh : /\ Table!CellsWith(fresh)' = Table!CellsWith(fresh)
                         /\ Table!DependentsWith(fresh)' = Table!DependentsWith(fresh)
<1>1. Seen = before /\ Seen' = before
      BY DEF Seen
<1>2. Table!Occupied' = Table!Occupied /\ Table!Live' = Table!Live
      BY <1>1 DEF Table!Occupied, Table!Live
<1>3. Table!References' = Table!References
      BY <1>1 DEF Table!References, Table!TextAt
<1>4. \A pos, t : Table!IsCircular(pos, t)' <=> Table!IsCircular(pos, t)
      BY <1>3 DEF Table!IsCircular, Table!CheckSelfReference, Table!CheckCircularDependency
<1>5. \A pos, refs : Table!Created(pos, refs)' = Table!Created(pos, refs)
      BY <1>2 DEF Table!Created
<1>6. \A fresh : /\ Table!CellsWith(fresh)' = Table!CellsWith(fresh)
                 /\ Table!DependentsWith(fresh)' = Table!DependentsWith(fresh)
      BY <1>1 DEF Table!CellsWith, Table!DependentsWith
<1>. QED BY <1>1, <1>2, <1>3, <1>4, <1>5, <1>6

---------------------------------------------------------------------------
(***************************************************************************)
(* The invariant.                                                          *)
(***************************************************************************)

\* dependents_, impl_ and cache_ once the text is stored with the new cells at
\* fresh, and the caches of the cells of S reset.
LinksWith(fresh) ==
    UpdatedDependencies(Table!CellsWith(fresh), Table!DependentsWith(fresh), target,
                        Table!References[target], Refs(text))

ImplWith(fresh) ==
    [a \in Addr |-> CASE a = Table!CellsWith(fresh)[target] -> text
                      [] a \in Allocated(fresh) \ {Table!CellsWith(fresh)[target]} -> EmptyText
                      [] OTHER -> before.impl[a]]

CacheWithout(S, fresh) ==
    [a \in Addr |-> IF a \in Allocated(fresh) \cup S THEN NoValue ELSE before.cache[a]]

\* Nothing has been changed yet.
Untouched ==
    /\ now = before
    /\ outcome = "ok"
    /\ cells \in [Pos -> Addr \cup {Null}]
    /\ dependents \in [Addr -> SUBSET Addr]
    /\ OneOwner
    /\ ReferencesAcyclic

Checked == /\ IsValid(target)
           /\ text \notin BadFormulaText
           /\ target \notin Refs(text)
           /\ visited = OnStack(stack)
           /\ Checking(References, cells, target, Refs(text), starts, stack)

TextAccepted == /\ IsValid(target)
                /\ text \notin BadFormulaText
                /\ ~Table!IsCircular(target, text)

\* The caches reset are those of the cells that calls have returned from, and of
\* those with a call under way.
Resetting(fresh) ==
    \E done \in SUBSET Live :
        /\ Unwinding(dependents, cells[target], done, stack)
        /\ OnStack(stack) \subseteq Live
        /\ Len(stack) <= StackDepth
        /\ cache = CacheWithout(done \cup OnStack(stack), fresh)

\* The text is being stored: what each part of the table is by now.
Storing(fresh) ==
    /\ fresh \in Injection(Table!Created(target, Refs(text)), Addr \ Table!Live)
    /\ outcome = "ok"
    /\ cells = Table!CellsWith(fresh)
    /\ cells \in [Pos -> Addr \cup {Null}]
    /\ cells[target] \in Live
    /\ print_size = before.print_size
    /\ old_refs = Table!References[target]
    /\ Table!DependentsWith(fresh) \in [Addr -> SUBSET Addr]
    /\ dependents = IF step \in {"set", "relink"}
                    THEN Table!DependentsWith(fresh) ELSE LinksWith(fresh)
    /\ step = "set" =>
          /\ impl = [a \in Addr |-> IF a \in Allocated(fresh)
                                    THEN EmptyText ELSE before.impl[a]]
          /\ cache = CacheWithout({}, fresh)
    /\ step # "set" => impl = ImplWith(fresh)
    /\ step \in {"relink", "invalidate"} => cache = CacheWithout({cells[target]}, fresh)
    /\ step = "unwind" => Resetting(fresh)

SInv ==
    /\ step \in {"parse", "check", "create", "set", "relink", "invalidate", "unwind", "returned"}
    /\ starts \in SUBSET Pos
    /\ old_refs \in SUBSET Pos
    /\ target \in Int \X Int
    /\ text \in Text
    /\ step \in {"parse", "check", "create"} => Untouched
    /\ step \in {"parse", "create", "set", "relink", "invalidate"} =>
          stack = <<>> /\ visited = {}
    /\ step = "check" => Checked
    /\ step \in {"create", "set", "relink", "invalidate", "unwind"} => TextAccepted
    /\ step \in {"set", "relink", "invalidate", "unwind"} => \E fresh : Storing(fresh)

---------------------------------------------------------------------------
(***************************************************************************)
(* The steps.                                                              *)
(***************************************************************************)

\* What a step is to the caller: the call, or nothing yet.
Mapped == \/ Table!RejectPosition(target)
          \/ Table!SetCell(target, text)
          \/ UNCHANGED Table!vars

\* A step inside the call shows the caller nothing.
LEMMA Inside ==
    ASSUME step # "returned", step' # "returned", UNCHANGED <<before, outcome>>
    PROVE  Mapped
BY SeenStays DEF Mapped, Table!vars

\* A refused call has changed nothing.
LEMMA RefusedLeavesNoTrace ==
    ASSUME step # "returned", Untouched, NEW exception, Refuse(exception), UNCHANGED before
    PROVE  Table!Running /\ Table!Throw(exception)
<1>1. now' = now
      BY DEF Refuse, now
<1>2. Seen = before /\ Seen' = before
      BY <1>1 DEF Untouched, Seen
<1>. QED BY <1>2, TableConstants DEF Untouched, Refuse, Table!Running, Table!Throw, Crash

\* Once the call has returned, no more is asked of the table.
LEMMA ReturnedKeepsInv ==
    ASSUME SInv, step' = "returned", UNCHANGED <<starts, old_refs, call>>
    PROVE  SInv'
BY DEF SInv, call

\* A valid position is one of the table.
LEMMA TargetInTable ==
    ASSUME SInv, IsValid(target)
    PROVE  target \in Pos
BY BoundsAssumption DEF SInv, IsValid, Pos

\* The table as the graph has_cycle walks over.
LEMMA WalkOnTable ==
    ASSUME Untouched
    PROVE  /\ IsTable(References, cells)
           /\ IsAcyclic(References)
           /\ \A p \in Pos : cells[p] # Null => Refs(impl[cells[p]]) = References[p]
<1>1. \A p \in Pos : cells[p] = Null => References[p] = {}
      BY TextAssumption DEF References, TextAt, Refs
<1>2. \A p \in Pos : cells[p] # Null => Refs(impl[cells[p]]) = References[p]
      BY DEF References, TextAt
<1>3. \A p, q \in Pos : cells[p] # Null /\ cells[p] = cells[q] => p = q
      BY DEF Untouched, OneOwner, Occupied
<1>. QED BY <1>1, <1>2, <1>3, ReferencesType DEF IsTable, Untouched, ReferencesAcyclic

\* A step of the cycle check that neither refuses nor accepts.
LEMMA WalkGoesOn ==
    ASSUME SInv, step = "check", UNCHANGED <<vars, call, step, old_refs>>,
           visited' = OnStack(stack'), starts' \in SUBSET Pos,
           Checking(References, cells, target, Refs(text), starts', stack')
    PROVE  SInv' /\ Mapped
<1>1. Untouched'
      BY DEF SInv, Untouched, now, call, vars, OneOwner, Occupied,
             ReferencesAcyclic, References, TextAt, IsAcyclic
<1>2. References' = References
      BY DEF vars, References, TextAt
<1>3. Checked'
      BY <1>2 DEF SInv, Checked, call, vars
<1>4. SInv'
      BY <1>1, <1>3 DEF SInv, call
<1>. QED BY <1>4, Inside DEF call, vars

\* The walk refuses: it has met the written position.
LEMMA WalkRefuses ==
    ASSUME SInv, step = "check", Refuse("CircularDependencyException"), UNCHANGED call,
           IsCircular(target, text)
    PROVE  SInv' /\ Mapped
<1>1. Untouched /\ Checked
      BY DEF SInv
<1>2. Table!IsCircular(target, text)
      BY <1>1, SeenIsNow DEF Untouched
<1>3. Table!SetCellCircular(target, text)
      BY <1>1, <1>2, RefusedLeavesNoTrace, TableConstants
         DEF call, Checked, Table!SetCellCircular
<1>. QED BY <1>3, ReturnedKeepsInv DEF Refuse, locals, Mapped, Table!SetCell

\* Parse refuses for the reasons of the Sheet module, or goes on to the check.
LEMMA ParseStep ==
    ASSUME SInv, Parse, UNCHANGED call
    PROVE  SInv' /\ Mapped
<1>1. step = "parse" /\ Untouched /\ stack = <<>> /\ visited = {}
      BY DEF SInv, Parse
<1>2. CASE ~IsValid(target) /\ Refuse("InvalidPositionException")
      <2>1. Table!RejectPosition(target)
            BY <1>1, <1>2, RefusedLeavesNoTrace, TableConstants DEF call, Table!RejectPosition
      <2>. QED BY <1>2, <2>1, ReturnedKeepsInv DEF Refuse, locals, Mapped
<1>3. CASE IsValid(target) /\ text \in BadFormulaText /\ Refuse("FormulaException")
      <2>1. Table!SetCellBadFormula(target, text)
            BY <1>1, <1>3, RefusedLeavesNoTrace, TableConstants DEF call, Table!SetCellBadFormula
      <2>. QED BY <1>3, <2>1, ReturnedKeepsInv DEF Refuse, locals, Mapped, Table!SetCell
<1>4. CASE /\ IsValid(target)
           /\ CheckSelfReference(Refs(text), target)
           /\ Refuse("CircularDependencyException")
      <2>1. text \notin BadFormulaText
            BY <1>4, TextAssumption DEF CheckSelfReference, Refs
      <2>2. Table!IsCircular(target, text)
            BY <1>1, <1>4, SeenIsNow DEF IsCircular, Untouched
      <2>3. Table!SetCellCircular(target, text)
            BY <1>1, <1>4, <2>1, <2>2, RefusedLeavesNoTrace, TableConstants
               DEF call, Table!SetCellCircular
      <2>. QED BY <1>4, <2>3, ReturnedKeepsInv DEF Refuse, locals, Mapped, Table!SetCell
<1>5. CASE /\ IsValid(target)
           /\ text \notin BadFormulaText
           /\ ~CheckSelfReference(Refs(text), target)
           /\ step' = "check"
           /\ starts' = Refs(text)
           /\ UNCHANGED <<vars, stack, visited, old_refs, calls>>
      <2>1. Untouched'
            BY <1>1, <1>5 DEF Untouched, now, call, vars, OneOwner, Occupied,
                  ReferencesAcyclic, References, TextAt, IsAcyclic
      <2>2. Checking(References, cells, target, Refs(text), Refs(text), <<>>)
            BY EmptySeq DEF Checking
      <2>3. Checked'
            BY <1>1, <1>5, <2>2 DEF Checked, call, vars, CheckSelfReference, OnStack,
                  Checking, References, TextAt
      <2>4. SInv'
            BY <1>1, <1>5, <2>1, <2>3, RefsType DEF SInv, call
      <2>. QED BY <1>1, <1>5, <2>4, Inside DEF call, vars
<1>. QED BY <1>2, <1>3, <1>4, <1>5 DEF Parse

\* A round of the outer loop of CheckCircularDependency.
LEMMA StartFromStep ==
    ASSUME SInv, NEW p \in Pos, StartFrom(p), UNCHANGED call
    PROVE  SInv' /\ Mapped
<1>1. /\ step = "check" /\ Untouched /\ Checked
      /\ stack = <<>> /\ p \in starts
      BY DEF SInv, StartFrom, IsFirst
<1>2. IsTable(References, cells) /\ target \in Pos /\ Refs(text) \in SUBSET Pos
      BY <1>1, WalkOnTable, TargetInTable, RefsType DEF Checked
<1>3. Checking(References, cells, target, Refs(text), starts, <<>>)
      BY <1>1 DEF Checked
<1>4. starts \ {p} \in SUBSET Pos
      BY <1>1 DEF SInv
<1>5. visited = {}
      BY <1>1, EmptySeq DEF Checked, OnStack
<1>6. CASE /\ cells[p] = Null
           /\ starts' = starts \ {p}
           /\ UNCHANGED <<vars, step, stack, visited, old_refs, calls>>
      <2>1. Checking(References, cells, target, Refs(text), starts', stack')
            BY <1>1, <1>2, <1>3, <1>6, CheckSkipsStart
      <2>2. visited' = OnStack(stack')
            BY <1>1, <1>6 DEF Checked
      <2>. QED BY <1>1, <1>4, <1>6, <2>1, <2>2, WalkGoesOn
<1>7. CASE cells[p] # Null /\ HasCycle(cells[p], stack, starts \ {p})
      <2>. DEFINE e == [cell |-> cells[p], todo |-> Refs(impl[cells[p]])]
      <2>1. /\ stack' = Append(<<>>, e)
            /\ visited' = {cells[p]}
            /\ starts' = starts \ {p}
            /\ UNCHANGED <<vars, step, old_refs>>
            BY <1>1, <1>5, <1>7 DEF HasCycle
      <2>2. e = [cell |-> cells[p], todo |-> References[p]]
            BY <1>1, <1>7, WalkOnTable
      <2>3. Checking(References, cells, target, Refs(text), starts', stack')
            BY <1>1, <1>2, <1>3, <1>7, <2>1, <2>2, CheckBegins
      <2>4. e \in CallOn(Pos) /\ e.cell = cells[p]
            BY <1>1, <1>2, <1>7, <2>2, ReferencesType DEF CallOn, IsTable
      <2>5. Len(stack') = 1 /\ stack'[1] = e
            <3>. HIDE DEF e
            <3>1. <<>> \in Seq(CallOn(Pos)) /\ Len(<<>>) = 0
                  BY EmptySeq
            <3>. QED BY <2>1, <2>4, <3>1, StackGrows
      <2>6. visited' = OnStack(stack')
            BY <2>1, <2>4, <2>5 DEF OnStack
      <2>. QED BY <1>1, <1>4, <2>1, <2>3, <2>6, WalkGoesOn
<1>. QED BY <1>6, <1>7 DEF StartFrom

\* A round of the loop of has_cycle; where it refuses, there is a cycle.
LEMMA FollowStep ==
    ASSUME SInv, NEW dep \in Pos, Follow(dep), UNCHANGED call
    PROVE  SInv' /\ Mapped
<1>1. /\ step = "check" /\ Untouched /\ Checked
      /\ stack # <<>> /\ dep \in Last(stack).todo
      BY DEF SInv, Follow, IsFirst, Top
<1>2. /\ IsTable(References, cells) /\ IsAcyclic(References)
      /\ target \in Pos /\ Refs(text) \in SUBSET Pos
      BY <1>1, WalkOnTable, TargetInTable, RefsType DEF Checked
<1>3. Checking(References, cells, target, Refs(text), starts, stack)
      BY <1>1 DEF Checked
<1>4. stack \in Seq(CallOn(Pos))
      BY <1>3 DEF Checking
<1>5. Advanced(dep) = After(stack, dep)
      BY DEF Advanced, After
<1>6. CASE dep = target /\ Refuse("CircularDependencyException")
      <2>1. Len(stack) \in 1..Len(stack)
            BY <1>1, <1>4, EmptySeq
      <2>2. PICK p \in ReachableFrom(Refs(text), References) :
               stack[Len(stack)].todo \subseteq References[p]
            BY <1>3, <2>1 DEF Checking, CheckingAt
      <2>3. target \in References[p]
            BY <1>1, <1>6, <2>2 DEF Last
      <2>4. IsCircular(target, text)
            BY <2>2, <2>3 DEF IsCircular, CheckCircularDependency
      <2>. QED BY <1>1, <1>6, <2>4, WalkRefuses
<1>7. CASE /\ dep # target
           /\ cells[dep] = Null
           /\ stack' = Advanced(dep)
           /\ UNCHANGED <<vars, step, starts, visited, old_refs, calls>>
      <2>1. Checking(References, cells, target, Refs(text), starts', stack')
            BY <1>1, <1>2, <1>3, <1>5, <1>7, CheckSkips
      <2>2. OnStack(stack') = OnStack(stack)
            BY <1>1, <1>4, <1>5, <1>7, StackAdvances DEF OnStack
      <2>. QED BY <1>1, <1>7, <2>1, <2>2, WalkGoesOn DEF Checked, SInv
<1>8. CASE /\ dep # target
           /\ cells[dep] # Null
           /\ HasCycle(cells[dep], Advanced(dep), starts)
      <2>. DEFINE e == [cell |-> cells[dep], todo |-> Refs(impl[cells[dep]])]
                  mid == After(stack, dep)
      <2>1. \A i \in 1..Len(stack) : stack[i].cell # cells[dep]
            BY <1>1, <1>2, <1>3, <1>8, NeverOnTheWay
      <2>2. cells[dep] \notin visited
            BY <1>1, <2>1 DEF Checked, OnStack
      <2>3. /\ stack' = Append(mid, e)
            /\ visited' = visited \cup {cells[dep]}
            /\ UNCHANGED <<vars, step, starts, old_refs>>
            BY <1>5, <1>8, <2>2 DEF HasCycle
      <2>4. e = [cell |-> cells[dep], todo |-> References[dep]]
            BY <1>1, <1>8, WalkOnTable
      <2>5. Checking(References, cells, target, Refs(text), starts, stack')
            BY <1>1, <1>2, <1>3, <1>8, <2>1, <2>3, <2>4, CheckFollows
      <2>6. e \in CallOn(Pos) /\ e.cell = cells[dep]
            BY <1>1, <1>2, <1>8, <2>4, ReferencesType DEF CallOn, IsTable
      <2>7. /\ mid \in Seq(CallOn(Pos)) /\ Len(mid) = Len(stack)
            /\ \A i \in 1..Len(stack) : mid[i].cell = stack[i].cell
            BY <1>1, <1>4, StackAdvances
      <2>8. OnStack(stack') = OnStack(stack) \cup {cells[dep]}
            <3>. HIDE DEF e, mid
            <3>1. /\ Len(stack') = Len(stack) + 1
                  /\ stack'[Len(stack) + 1] = e
                  /\ \A i \in 1..Len(stack) : stack'[i] = mid[i]
                  BY <2>3, <2>6, <2>7, StackGrows
            <3>2. 1..Len(stack) + 1 = 1..Len(stack) \cup {Len(stack) + 1}
                  BY <1>4, LenProperties
            <3>. QED BY <2>6, <2>7, <3>1, <3>2 DEF OnStack
      <2>. QED BY <1>1, <1>8, <2>3, <2>5, <2>8, WalkGoesOn DEF Checked, SInv
<1>. QED BY <1>6, <1>7, <1>8 DEF Follow

\* has_cycle returns false.
LEMMA ReturnFalseStep ==
    ASSUME SInv, ReturnFalse, UNCHANGED call
    PROVE  SInv' /\ Mapped
<1>. DEFINE n == Len(stack)
<1>1. /\ step = "check" /\ Untouched /\ Checked
      /\ stack # <<>> /\ Last(stack).todo = {}
      /\ stack' = Front(stack) /\ visited' = visited \ {Last(stack).cell}
      /\ UNCHANGED <<vars, step, starts, old_refs>>
      BY DEF SInv, ReturnFalse, Top
<1>2. IsTable(References, cells) /\ target \in Pos /\ Refs(text) \in SUBSET Pos
      BY <1>1, WalkOnTable, TargetInTable, RefsType DEF Checked
<1>3. Checking(References, cells, target, Refs(text), starts, stack)
      BY <1>1 DEF Checked
<1>4. Checking(References, cells, target, Refs(text), starts, stack')
      BY <1>1, <1>2, <1>3, CheckReturns
<1>5. visited' = OnStack(stack')
      <2>1. /\ Len(stack') = n - 1 /\ n \in Nat \ {0}
            /\ \A i \in 1..n-1 : stack'[i] = stack[i]
            BY <1>1, <1>3, StackShrinks DEF Checking
      <2>2. \A i \in 1..n-1 : stack[i].cell # stack[n].cell
            BY <1>3, <2>1 DEF Checking
      <2>3. 1..n = 1..n-1 \cup {n}
            BY <2>1
      <2>4. OnStack(stack) = {stack[i].cell : i \in 1..n-1} \cup {stack[n].cell}
            BY <2>3 DEF OnStack
      <2>5. OnStack(stack') = {stack[i].cell : i \in 1..n-1}
            BY <2>1 DEF OnStack
      <2>. QED BY <1>1, <2>2, <2>4, <2>5 DEF Checked, Last
<1>. QED BY <1>1, <1>4, <1>5, WalkGoesOn DEF SInv

\* The check is through; there is no cycle.
LEMMA AcceptStep ==
    ASSUME SInv, Accept, UNCHANGED call
    PROVE  SInv' /\ Mapped
<1>1. /\ step = "check" /\ Untouched /\ Checked
      /\ stack = <<>> /\ starts = {} /\ step' = "create"
      /\ UNCHANGED <<vars, locals>>
      BY DEF SInv, Accept
<1>2. /\ IsTable(References, cells) /\ IsAcyclic(References)
      /\ target \in Pos /\ Refs(text) \in SUBSET Pos
      BY <1>1, WalkOnTable, TargetInTable, RefsType DEF Checked
<1>3. \A p \in ReachableFrom(Refs(text), References) : target \notin References[p]
      BY <1>1, <1>2, CheckAccepts DEF Checked
<1>4. \A p \in ReachableFrom(Refs(text), References) : ~OnCycle(p, References)
      BY <1>2, ReachableIsClosed, AcyclicHasNoCycle DEF IsTable
<1>5. ~IsCircular(target, text)
      BY <1>1, <1>3, <1>4
         DEF IsCircular, CheckSelfReference, CheckCircularDependency, Checked
<1>6. ~Table!IsCircular(target, text)
      BY <1>1, <1>5, SeenIsNow DEF Untouched
<1>7. TextAccepted'
      BY <1>1, <1>6, SeenStays DEF TextAccepted, Checked, call
<1>8. Untouched'
      BY <1>1 DEF Untouched, now, call, vars, OneOwner, Occupied,
             ReferencesAcyclic, References, TextAt, IsAcyclic
<1>9. visited' = {} /\ stack' = <<>>
      BY <1>1, EmptySeq DEF Checked, OnStack, locals
<1>10. SInv'
      BY <1>1, <1>7, <1>8, <1>9 DEF SInv, call, locals
<1>. QED BY <1>1, <1>10, Inside DEF call, vars

\* The new cells are created.
LEMMA CreateStep ==
    ASSUME SInv, CreateCells, UNCHANGED call
    PROVE  SInv' /\ Mapped
<1>1. /\ step = "create" /\ Untouched /\ TextAccepted /\ step' = "set"
      /\ old_refs' = References[target]
      /\ UNCHANGED <<print_size, outcome, starts, stack, visited>>
      BY DEF SInv, CreateCells
<1>2. PICK fresh \in Injection(Created(target, Refs(text)), Addr \ Live) :
         /\ cells' = CellsWith(fresh)
         /\ dependents' = DependentsWith(fresh)
         /\ impl' = [a \in Addr |-> IF a \in Allocated(fresh) THEN EmptyText ELSE impl[a]]
         /\ cache' = [a \in Addr |-> IF a \in Allocated(fresh) THEN NoValue ELSE cache[a]]
      BY DEF CreateCells
<1>3. target \in Pos /\ Refs(text) \in SUBSET Pos
      BY <1>1, TargetInTable, RefsType DEF TextAccepted
<1>4. /\ before.cells = cells /\ before.impl = impl /\ before.cache = cache
      /\ before.dependents = dependents /\ before.print_size = print_size
      BY <1>1 DEF Untouched, now
<1>5. /\ Table!Live' = Live
      /\ Table!References' = References
      /\ Table!Created(target, Refs(text))' = Created(target, Refs(text))
      /\ Table!CellsWith(fresh)' = CellsWith(fresh)
      /\ Table!DependentsWith(fresh)' = DependentsWith(fresh)
      /\ ~Table!IsCircular(target, text)'
      <2>1. UNCHANGED <<before, target, text>>
            BY DEF call
      <2>. QED BY <1>1, <2>1, SeenStays, SeenIsNow DEF Untouched, TextAccepted
<1>6. cells' \in [Pos -> Addr \cup {Null}] /\ cells'[target] \in Live'
      <2>1. fresh \in [Created(target, Refs(text)) -> Addr \ Live]
            BY <1>2 DEF Injection
      <2>2. cells' \in [Pos -> Addr \cup {Null}]
            BY <1>1, <1>2, <1>3, <2>1 DEF CellsWith, Untouched
      <2>3. cells'[target] # Null
            BY <1>2, <1>3, <2>1, NullAssumption DEF CellsWith, Created, Occupied
      <2>. QED BY <1>3, <2>2, <2>3 DEF Live, Occupied
<1>7. DependentsWith(fresh) \in [Addr -> SUBSET Addr]
      BY <1>1 DEF DependentsWith, Untouched
<1>8. cache' = CacheWithout({}, fresh)'
      BY <1>2, <1>4 DEF CacheWithout, call
<1>9. impl' = [a \in Addr |-> IF a \in Allocated(fresh) THEN EmptyText ELSE before'.impl[a]]
      BY <1>2, <1>4 DEF call
<1>10. Storing(fresh)'
      BY <1>1, <1>2, <1>4, <1>5, <1>6, <1>7, <1>8, <1>9 DEF Storing, Untouched, call
<1>11. TextAccepted'
      BY <1>1, <1>5 DEF TextAccepted, call
<1>12. References[target] \in SUBSET Pos
      BY <1>3, ReferencesType
<1>13. SInv'
      BY <1>1, <1>10, <1>11, <1>12 DEF SInv, call
<1>. QED BY <1>1, <1>13, Inside DEF call

\* While the text is stored, what was accepted and the new cells are the same.
LEMMA StoringGoesOn ==
    ASSUME step \in {"set", "relink", "invalidate", "unwind"},
           step' \in {"relink", "invalidate", "unwind"},
           UNCHANGED <<cells, print_size, outcome, old_refs, call>>,
           NEW fresh, Storing(fresh), TextAccepted
    PROVE  /\ TextAccepted'
           /\ fresh \in Injection(Table!Created(target, Refs(text)), Addr \ Table!Live)'
           /\ outcome' = "ok"
           /\ (cells = Table!CellsWith(fresh))'
           /\ cells' \in [Pos -> Addr \cup {Null}]
           /\ Live' = Live /\ cells'[target'] \in Live'
           /\ (print_size = before.print_size)'
           /\ (old_refs = Table!References[target])'
           /\ Table!DependentsWith(fresh)' = Table!DependentsWith(fresh)
           /\ Table!DependentsWith(fresh)' \in [Addr -> SUBSET Addr]
           /\ LinksWith(fresh)' = LinksWith(fresh)
           /\ ImplWith(fresh)' = ImplWith(fresh)
<1>1. /\ UNCHANGED <<before, target, text>>
      /\ step # "returned" /\ step' # "returned"
      BY DEF call
<1>2. /\ Table!Live' = Table!Live
      /\ Table!References' = Table!References
      /\ Table!Created(target, Refs(text))' = Table!Created(target, Refs(text))
      /\ Table!CellsWith(fresh)' = Table!CellsWith(fresh)
      /\ Table!DependentsWith(fresh)' = Table!DependentsWith(fresh)
      /\ Table!IsCircular(target, text)' <=> Table!IsCircular(target, text)
      BY <1>1, SeenStays
<1>3. Live' = Live
      BY DEF Live, Occupied
<1>4. /\ LinksWith(fresh)' = LinksWith(fresh)
      /\ ImplWith(fresh)' = ImplWith(fresh)
      BY <1>1, <1>2 DEF LinksWith, ImplWith
<1>5. TextAccepted'
      BY <1>1, <1>2 DEF TextAccepted
<1>. QED BY <1>1, <1>2, <1>3, <1>4, <1>5 DEF Storing

\* Cell::Set stores the text.
LEMMA SetImplStep ==
    ASSUME SInv, SetImpl, UNCHANGED call
    PROVE  SInv' /\ Mapped
<1>1. /\ step = "set" /\ TextAccepted /\ step' = "relink"
      /\ stack = <<>> /\ visited = {}
      /\ impl' = [impl EXCEPT ![cells[target]] = text]
      /\ cache' = [cache EXCEPT ![cells[target]] = NoValue]
      /\ UNCHANGED <<cells, dependents, print_size, outcome, locals>>
      BY DEF SInv, SetImpl
<1>2. PICK fresh : Storing(fresh)
      BY <1>1 DEF SInv
<1>3. /\ TextAccepted'
      /\ fresh \in Injection(Table!Created(target, Refs(text)), Addr \ Table!Live)'
      /\ outcome' = "ok"
      /\ (cells = Table!CellsWith(fresh))'
      /\ cells' \in [Pos -> Addr \cup {Null}]
      /\ Live' = Live /\ cells'[target'] \in Live'
      /\ (print_size = before.print_size)'
      /\ (old_refs = Table!References[target])'
      /\ Table!DependentsWith(fresh)' = Table!DependentsWith(fresh)
      /\ Table!DependentsWith(fresh)' \in [Addr -> SUBSET Addr]
      /\ ImplWith(fresh)' = ImplWith(fresh)
      BY <1>1, <1>2, StoringGoesOn DEF locals
<1>4. impl' = ImplWith(fresh)'
      <2>1. /\ impl = [a \in Addr |-> IF a \in Allocated(fresh)
                                      THEN EmptyText ELSE before.impl[a]]
            /\ cells = Table!CellsWith(fresh)
            BY <1>1, <1>2 DEF Storing
      <2>2. impl' = ImplWith(fresh)
            BY <1>1, <2>1 DEF ImplWith
      <2>. QED BY <1>3, <2>2
<1>5. (cache = CacheWithout({cells[target]}, fresh))'
      <2>1. cache' = CacheWithout({cells[target]}, fresh)
            BY <1>1, <1>2 DEF Storing, CacheWithout
      <2>. QED BY <1>1, <2>1 DEF CacheWithout, call
<1>6. cells'[target'] = cells[target]
      BY <1>1 DEF call
<1>7. dependents' = Table!DependentsWith(fresh)'
      BY <1>1, <1>2, <1>3 DEF Storing
<1>8. Storing(fresh)'
      BY <1>1, <1>3, <1>4, <1>5, <1>6, <1>7 DEF Storing
<1>9. SInv'
      BY <1>1, <1>3, <1>8 DEF SInv, call, locals
<1>. QED BY <1>1, <1>9, Inside DEF call

\* UpdateDependencies.
LEMMA RelinkStep ==
    ASSUME SInv, Relink, UNCHANGED call
    PROVE  SInv' /\ Mapped
<1>1. /\ step = "relink" /\ TextAccepted /\ step' = "invalidate"
      /\ stack = <<>> /\ visited = {}
      /\ dependents' = UpdatedDependencies(cells, dependents, target, old_refs, Refs(text))
      /\ UNCHANGED <<cells, impl, cache, print_size, outcome, starts, stack, visited, old_refs>>
      BY DEF SInv, Relink
<1>2. PICK fresh : Storing(fresh)
      BY <1>1 DEF SInv
<1>3. /\ TextAccepted'
      /\ fresh \in Injection(Table!Created(target, Refs(text)), Addr \ Table!Live)'
      /\ outcome' = "ok"
      /\ (cells = Table!CellsWith(fresh))'
      /\ cells' \in [Pos -> Addr \cup {Null}]
      /\ Live' = Live /\ cells'[target'] \in Live'
      /\ (print_size = before.print_size)'
      /\ (old_refs = Table!References[target])'
      /\ Table!DependentsWith(fresh)' \in [Addr -> SUBSET Addr]
      /\ LinksWith(fresh)' = LinksWith(fresh)
      /\ ImplWith(fresh)' = ImplWith(fresh)
      BY <1>1, <1>2, StoringGoesOn
<1>4. dependents' = LinksWith(fresh)
      BY <1>1, <1>2 DEF Storing, LinksWith
<1>5. (cache = CacheWithout({cells[target]}, fresh))' /\ impl' = ImplWith(fresh)'
      BY <1>1, <1>2, <1>3 DEF Storing, CacheWithout, call
<1>6. Storing(fresh)'
      BY <1>1, <1>3, <1>4, <1>5 DEF Storing
<1>7. SInv'
      BY <1>1, <1>3, <1>6 DEF SInv, call
<1>. QED BY <1>1, <1>7, Inside DEF call

\* The cells there are now: those there were, and the new ones.
LEMMA CellsNow ==
    ASSUME step # "returned", target \in Pos, NEW fresh, Storing(fresh)
    PROVE  /\ Occupied = Table!Occupied \cup DOMAIN fresh
           /\ Live = Table!Live \cup Allocated(fresh)
<1>1. Seen = before
      BY DEF Seen
<1>2. /\ fresh \in [Table!Created(target, Refs(text)) -> Addr \ Table!Live]
      /\ cells = Table!CellsWith(fresh)
      /\ cells[target] \in Live
      BY DEF Storing, Injection
<1>3. \A p \in Pos : cells[p] = IF p \in DOMAIN fresh THEN fresh[p] ELSE Seen.cells[p]
      BY <1>2, TableConstants DEF Table!CellsWith
<1>4. \A p \in DOMAIN fresh : fresh[p] # Null /\ p \notin Table!Occupied
      BY <1>2, NullAssumption DEF Table!Created
<1>5. Table!Occupied = {p \in Pos : Seen.cells[p] # Null}
      BY TableConstants DEF Table!Occupied
<1>6. DOMAIN fresh \subseteq Pos
      BY <1>2, RefsType DEF Table!Created
<1>7. Occupied = Table!Occupied \cup DOMAIN fresh
      BY <1>3, <1>4, <1>5, <1>6 DEF Occupied
<1>8. /\ \A p \in Table!Occupied : cells[p] = Seen.cells[p]
      /\ \A p \in DOMAIN fresh : cells[p] = fresh[p]
      BY <1>3, <1>4, <1>5, <1>6
<1>9. Live = {cells[p] : p \in Table!Occupied} \cup {cells[p] : p \in DOMAIN fresh}
      BY <1>7 DEF Live
<1>10. {cells[p] : p \in Table!Occupied} = Table!Live
      BY <1>8 DEF Table!Live
<1>11. {cells[p] : p \in DOMAIN fresh} = Allocated(fresh)
      BY <1>8 DEF Allocated
<1>. QED BY <1>7, <1>9, <1>10, <1>11

\* A crash is one that the Sheet module allows: what InvalidateCache reaches holds a
\* destroyed cell, or a cycle.
LEMMA CrashMapped ==
    ASSUME SInv, step \in {"invalidate", "unwind"}, NEW fresh, Storing(fresh), UNCHANGED call,
           NEW crash, CrashWith(crash),
           \/ /\ crash = "use_after_free"
              /\ ~(ReachableFrom({cells[target]}, dependents) \subseteq Live)
           \/ /\ crash = "stack_overflow"
              /\ \E a \in ReachableFrom({cells[target]}, dependents) : OnCycle(a, dependents)
    PROVE  SInv' /\ Mapped
<1>1. TextAccepted /\ step # "returned" /\ UNCHANGED <<before, target, text>>
      BY DEF SInv, call
<1>2. Seen = before /\ Seen' = before
      BY <1>1 DEF CrashWith, Seen, Running, Crash
<1>3. /\ cells = Table!CellsWith(fresh)
      /\ dependents = LinksWith(fresh)
      /\ fresh \in Injection(Table!Created(target, Refs(text)), Addr \ Table!Live)
      /\ outcome = "ok"
      BY DEF Storing
<1>4. Live = Table!Live \cup Allocated(fresh)
      BY <1>1, TargetInTable, CellsNow DEF TextAccepted
<1>5. Table!Running /\ Table!IsValid(target)
      BY <1>1, <1>3, TableConstants DEF Table!Running, Crash, TextAccepted
<1>6. UNCHANGED <<Seen.cells, Seen.impl, Seen.cache, Seen.dependents, Seen.print_size>>
      BY <1>2
<1>. DEFINE reached == ReachableFrom({cells[target]}, dependents)
<1>7. /\ Table!InvalidatedFrom(cells[target], dependents) = reached
      /\ Table!UpdatedDependencies(cells, Table!DependentsWith(fresh), target,
                                   Table!References[target], Table!Refs(text)) = dependents
      BY <1>3, TableConstants DEF Table!InvalidatedFrom, LinksWith
<1>8. CASE crash = "use_after_free" /\ ~(reached \subseteq Live)
      <2>1. ~(reached \subseteq Table!Live \cup Table!Allocated(fresh))
            BY <1>4, <1>8, TableConstants
      <2>2. Table!StoreAt(target, text, fresh)
            BY <1>3, <1>6, <1>7, <1>8, <2>1 DEF Table!StoreAt, CrashWith
      <2>3. Table!SetCellStore(target, text)
            BY <1>1, <1>3, <1>5, <2>2, TableConstants DEF Table!SetCellStore, TextAccepted
      <2>. QED BY <2>3, ReturnedKeepsInv DEF CrashWith, locals, Mapped, Table!SetCell
<1>9. CASE crash = "stack_overflow" /\ \E a \in reached : OnCycle(a, dependents)
      <2>1. \E a \in reached : Table!OnCycle(a, dependents)
            BY <1>9, TableConstants
      <2>2. Table!StoreAt(target, text, fresh)
            BY <1>3, <1>6, <1>7, <1>9, <2>1 DEF Table!StoreAt, CrashWith
      <2>3. Table!SetCellStore(target, text)
            BY <1>1, <1>3, <1>5, <2>2, TableConstants DEF Table!SetCellStore, TextAccepted
      <2>. QED BY <2>3, ReturnedKeepsInv DEF CrashWith, locals, Mapped, Table!SetCell
<1>. QED BY <1>8, <1>9

\* A step of InvalidateCache that keeps running.
LEMMA UnwindGoesOn ==
    ASSUME SInv, step \in {"invalidate", "unwind"}, step' = "unwind",
           NEW fresh, Storing(fresh), UNCHANGED call,
           UNCHANGED <<cells, impl, dependents, print_size, outcome, starts, old_refs>>,
           NEW done \in SUBSET Live, Unwinding(dependents, cells[target], done, stack'),
           OnStack(stack') \subseteq Live, Len(stack') <= StackDepth,
           cache' = CacheWithout(done \cup OnStack(stack'), fresh)
    PROVE  SInv' /\ Mapped
<1>1. TextAccepted /\ step # "returned"
      BY DEF SInv
<1>2. /\ TextAccepted'
      /\ fresh \in Injection(Table!Created(target, Refs(text)), Addr \ Table!Live)'
      /\ outcome' = "ok"
      /\ (cells = Table!CellsWith(fresh))'
      /\ cells' \in [Pos -> Addr \cup {Null}]
      /\ Live' = Live /\ cells'[target'] \in Live'
      /\ (print_size = before.print_size)'
      /\ (old_refs = Table!References[target])'
      /\ Table!DependentsWith(fresh)' \in [Addr -> SUBSET Addr]
      /\ LinksWith(fresh)' = LinksWith(fresh)
      /\ ImplWith(fresh)' = ImplWith(fresh)
      BY <1>1, StoringGoesOn
<1>3. dependents' = LinksWith(fresh)' /\ impl' = ImplWith(fresh)'
      BY <1>2 DEF Storing
<1>4. Unwinding(dependents', cells'[target'], done, stack')
      BY DEF call
<1>5. (cache = CacheWithout(done \cup OnStack(stack), fresh))'
      BY DEF CacheWithout, OnStack, call
<1>6. Resetting(fresh)'
      BY <1>2, <1>4, <1>5 DEF Resetting, OnStack
<1>7. Storing(fresh)'
      BY <1>2, <1>3, <1>6 DEF Storing
<1>8. SInv'
      BY <1>2, <1>7 DEF SInv, call
<1>. QED BY <1>1, <1>8, Inside DEF call

\* InvalidateCache is called on the written cell.
LEMMA BeginStep ==
    ASSUME SInv, BeginInvalidation, UNCHANGED call
    PROVE  SInv' /\ Mapped
<1>. DEFINE root == cells[target]
            st == Append(<<>>, [cell |-> root, todo |-> dependents[root]])
<1>1. step = "invalidate" /\ TextAccepted /\ InvalidateCache(root, <<>>)
      BY DEF SInv, BeginInvalidation
<1>2. PICK fresh : Storing(fresh)
      BY <1>1 DEF SInv
<1>3. target \in Pos /\ TextAccepted
      BY <1>1, TargetInTable DEF TextAccepted
<1>4. root \in Live /\ root \in Addr
      BY <1>2, <1>3 DEF Storing, Live, Occupied
<1>5. dependents \in [Addr -> SUBSET Addr]
      <2>1. dependents = LinksWith(fresh) /\ Table!DependentsWith(fresh) \in [Addr -> SUBSET Addr]
            BY <1>1, <1>2 DEF Storing
      <2>2. Table!CellsWith(fresh)[target] \in Addr
            BY <1>2, <1>4 DEF Storing
      <2>. QED BY <2>1, <2>2 DEF LinksWith, UpdatedDependencies
<1>6. Unwinding(dependents, root, {}, st) /\ OnStack(st) = {root} /\ Len(st) = 1
      BY <1>4, <1>5, UnwindBegins
<1>7. CASE Len(<<>>) = StackDepth /\ CrashWith("stack_overflow")
      <2>1. Len(st) > StackDepth
            BY <1>6, <1>7, EmptySeq
      <2>2. \E a \in ReachableFrom({root}, dependents) : OnCycle(a, dependents)
            <3>. HIDE DEF st, root
            <3>. QED BY <1>4, <1>5, <1>6, <2>1, UnwindOverflows
      <2>. QED BY <1>1, <1>2, <1>7, <2>2, CrashMapped
<1>8. CASE /\ Len(<<>>) < StackDepth
           /\ step' = "unwind"
           /\ cache' = [cache EXCEPT ![root] = NoValue]
           /\ stack' = st
           /\ UNCHANGED <<cells, impl, dependents, print_size, outcome, starts, visited, old_refs>>
      <2>1. cache' = CacheWithout({} \cup {root}, fresh)
            BY <1>1, <1>2, <1>8 DEF Storing, CacheWithout
      <2>2. Len(st) <= StackDepth
            BY <1>6, <1>8, StackAssumption, EmptySeq
      <2>3. /\ {} \in SUBSET Live /\ OnStack(stack') \subseteq Live
            /\ {} \cup OnStack(stack') = {} \cup {root}
            /\ Unwinding(dependents, root, {}, stack')
            /\ Len(stack') <= StackDepth
            BY <1>4, <1>6, <1>8, <2>2
      <2>4. cache' = CacheWithout({} \cup OnStack(stack'), fresh)
            BY <2>1, <2>3
      <2>. QED BY <1>1, <1>2, <1>8, <2>3, <2>4, UnwindGoesOn
<1>. QED BY <1>1, <1>4, <1>7, <1>8 DEF InvalidateCache

\* InvalidateCache goes on, or the process ends for a reason.
LEMMA DescendStep ==
    ASSUME SInv, NEW b \in Addr, Descend(b), UNCHANGED call
    PROVE  SInv' /\ Mapped
<1>. DEFINE root == cells[target]
            st == Descended(stack, b, dependents)
<1>1. /\ step = "unwind" /\ TextAccepted /\ stack # <<>> /\ b \in Last(stack).todo
      /\ InvalidateCache(b, After(stack, b))
      BY DEF SInv, Descend, Top, Advanced, After
<1>2. PICK fresh : Storing(fresh)
      BY <1>1 DEF SInv
<1>3. target \in Pos
      BY <1>1, TargetInTable DEF TextAccepted
<1>4. root \in Live /\ root \in Addr
      BY <1>2, <1>3 DEF Storing, Live, Occupied
<1>5. dependents \in [Addr -> SUBSET Addr]
      <2>1. dependents = LinksWith(fresh) /\ Table!DependentsWith(fresh) \in [Addr -> SUBSET Addr]
            BY <1>1, <1>2 DEF Storing
      <2>2. Table!CellsWith(fresh)[target] \in Addr
            BY <1>2, <1>4 DEF Storing
      <2>. QED BY <2>1, <2>2 DEF LinksWith, UpdatedDependencies
<1>6. PICK done \in SUBSET Live :
         /\ Unwinding(dependents, root, done, stack)
         /\ OnStack(stack) \subseteq Live
         /\ Len(stack) <= StackDepth
         /\ cache = CacheWithout(done \cup OnStack(stack), fresh)
      BY <1>1, <1>2 DEF Storing, Resetting
<1>7. /\ b \in ReachableFrom({root}, dependents)
      /\ Unwinding(dependents, root, done, st)
      /\ OnStack(st) = OnStack(stack) \cup {b}
      /\ Len(st) = Len(stack) + 1
      <2>1. /\ stack # <<>> /\ b \in Last(stack).todo
            /\ Unwinding(dependents, root, done, stack)
            BY <1>1, <1>6
      <2>2. st = Descended(stack, b, dependents)
            OBVIOUS
      <2>3. dependents \in [Addr -> SUBSET Addr] /\ root \in Addr
            BY <1>4, <1>5
      <2>. HIDE DEF root, st
      <2>4. b \in ReachableFrom({root}, dependents) /\ Unwinding(dependents, root, done, st)
            BY ONLY <2>1, <2>2, <2>3, UnwindDescends
      <2>5. Len(st) = Len(stack) + 1
            BY ONLY <2>1, <2>2, <2>3, UnwindDescends
      <2>6. OnStack(st) = OnStack(stack) \cup {b}
            BY <2>1, <2>2, <2>3, DescendedOnStack DEF Unwinding
      <2>. QED BY ONLY <2>4, <2>5, <2>6
<1>8. Len(After(stack, b)) = Len(stack) /\ Len(stack) \in Nat
      BY <1>1, <1>6, StackAdvances, LenProperties DEF Unwinding
<1>9. CASE b \notin Live /\ CrashWith("use_after_free")
      BY <1>1, <1>2, <1>7, <1>9, CrashMapped
<1>10. CASE Len(After(stack, b)) = StackDepth /\ CrashWith("stack_overflow")
      <2>1. Len(st) > StackDepth
            BY <1>7, <1>8, <1>10, StackAssumption
      <2>2. \E a \in ReachableFrom({root}, dependents) : OnCycle(a, dependents)
            <3>. HIDE DEF st, root
            <3>. QED BY <1>4, <1>5, <1>7, <2>1, UnwindOverflows
      <2>. QED BY <1>1, <1>2, <1>10, <2>2, CrashMapped
<1>11. CASE /\ b \in Live
            /\ Len(After(stack, b)) < StackDepth
            /\ step' = "unwind"
            /\ cache' = [cache EXCEPT ![b] = NoValue]
            /\ stack' = st
            /\ UNCHANGED <<cells, impl, dependents, print_size, outcome, starts, visited, old_refs>>
      <2>1. cache' = CacheWithout(done \cup OnStack(stack'), fresh)
            BY <1>6, <1>7, <1>11 DEF CacheWithout
      <2>2. Len(stack') <= StackDepth
            BY <1>7, <1>8, <1>11, StackAssumption
      <2>3. OnStack(stack') \subseteq Live
            BY <1>6, <1>7, <1>11
      <2>. QED BY <1>1, <1>2, <1>6, <1>7, <1>11, <2>1, <2>2, <2>3, UnwindGoesOn
<1>. QED BY <1>1, <1>9, <1>10, <1>11 DEF InvalidateCache, Descended

\* InvalidateCache returns.
LEMMA ReturnInvalidatedStep ==
    ASSUME SInv, ReturnInvalidated, UNCHANGED call
    PROVE  SInv' /\ Mapped
<1>. DEFINE root == cells[target]
<1>1. /\ step = "unwind" /\ step' = "unwind" /\ TextAccepted
      /\ stack # <<>> /\ Last(stack).todo = {}
      /\ stack' = Front(stack)
      /\ UNCHANGED <<vars, starts, old_refs>>
      BY DEF SInv, ReturnInvalidated, Top
<1>2. PICK fresh : Storing(fresh)
      BY <1>1 DEF SInv
<1>3. target \in Pos
      BY <1>1, TargetInTable DEF TextAccepted
<1>4. root \in Live /\ root \in Addr
      BY <1>2, <1>3 DEF Storing, Live, Occupied
<1>5. dependents \in [Addr -> SUBSET Addr]
      <2>1. dependents = LinksWith(fresh) /\ Table!DependentsWith(fresh) \in [Addr -> SUBSET Addr]
            BY <1>1, <1>2 DEF Storing
      <2>2. Table!CellsWith(fresh)[target] \in Addr
            BY <1>2, <1>4 DEF Storing
      <2>. QED BY <2>1, <2>2 DEF LinksWith, UpdatedDependencies
<1>6. PICK done \in SUBSET Live :
         /\ Unwinding(dependents, root, done, stack)
         /\ OnStack(stack) \subseteq Live
         /\ Len(stack) <= StackDepth
         /\ cache = CacheWithout(done \cup OnStack(stack), fresh)
      BY <1>1, <1>2 DEF Storing, Resetting
<1>. DEFINE all == done \cup {Last(stack).cell}
<1>7. /\ Unwinding(dependents, root, all, stack')
      /\ all \cup OnStack(stack') = done \cup OnStack(stack)
      /\ Len(stack') = Len(stack) - 1
      <2>. HIDE DEF root
      <2>. QED BY <1>1, <1>4, <1>5, <1>6, UnwindReturns
<1>8. all \in SUBSET Live /\ OnStack(stack') \subseteq Live
      BY <1>6, <1>7
<1>9. Len(stack') <= StackDepth
      <2>1. Len(stack) \in Nat
            BY <1>6, LenProperties DEF Unwinding
      <2>. QED BY <1>6, <1>7, <2>1, StackAssumption
<1>10. cache' = CacheWithout(all \cup OnStack(stack'), fresh)
      BY <1>1, <1>6, <1>7 DEF vars
<1>. HIDE DEF all
<1>. QED BY <1>1, <1>2, <1>7, <1>8, <1>9, <1>10, UnwindGoesOn DEF vars

\* The call returns, and the caller sees the table SetCell leaves.
LEMMA ResizeStep ==
    ASSUME SInv, Resize, UNCHANGED call
    PROVE  SInv' /\ Mapped
<1>. DEFINE root == cells[target]
<1>1. /\ step = "unwind" /\ TextAccepted /\ stack = <<>>
      /\ print_size' = BoundingSize(Occupied)
      /\ outcome' = "ok" /\ step' = "returned"
      /\ UNCHANGED <<cells, impl, cache, dependents, locals>>
      BY DEF SInv, Resize
<1>2. PICK fresh : Storing(fresh)
      BY <1>1 DEF SInv
<1>3. target \in Pos
      BY <1>1, TargetInTable DEF TextAccepted
<1>4. root \in Addr
      BY <1>2, <1>3, NullAssumption DEF Storing, Live, Occupied
<1>5. /\ fresh \in Injection(Table!Created(target, Refs(text)), Addr \ Table!Live)
      /\ outcome = "ok"
      /\ cells = Table!CellsWith(fresh)
      /\ dependents = LinksWith(fresh)
      /\ impl = ImplWith(fresh)
      BY <1>1, <1>2 DEF Storing
<1>6. dependents \in [Addr -> SUBSET Addr]
      <2>1. Table!DependentsWith(fresh) \in [Addr -> SUBSET Addr]
            BY <1>2 DEF Storing
      <2>. QED BY <1>4, <1>5, <2>1 DEF LinksWith, UpdatedDependencies
<1>7. PICK done \in SUBSET Live :
         /\ Unwinding(dependents, root, done, <<>>)
         /\ cache = CacheWithout(done \cup OnStack(<<>>), fresh)
      BY <1>1, <1>2 DEF Storing, Resetting
<1>. DEFINE reached == ReachableFrom({root}, dependents)
<1>8. done = reached /\ \A a \in reached : ~OnCycle(a, dependents)
      BY <1>4, <1>6, <1>7, UnwindEnds
<1>9. cache = CacheWithout(reached, fresh)
      <2>1. OnStack(<<>>) = {}
            BY EmptySeq DEF OnStack
      <2>. QED BY <1>7, <1>8, <2>1
<1>10. Seen = before /\ Seen' = now'
      BY <1>1 DEF Seen, Running, Crash
<1>11. /\ Seen'.cells = cells /\ Seen'.impl = impl /\ Seen'.cache = cache
       /\ Seen'.dependents = dependents /\ Seen'.print_size = BoundingSize(Occupied)
      BY <1>1, <1>10 DEF now
<1>12. /\ Occupied = Table!Occupied \cup DOMAIN fresh
       /\ Live = Table!Live \cup Allocated(fresh)
      BY <1>1, <1>2, <1>3, CellsNow
<1>13. /\ Table!InvalidatedFrom(root, dependents) = reached
       /\ Table!UpdatedDependencies(cells, Table!DependentsWith(fresh), target,
                                    Table!References[target], Table!Refs(text)) = dependents
      BY <1>5, TableConstants DEF Table!InvalidatedFrom, LinksWith
<1>14. Table!InvalidationReturns(root, dependents, Table!Live \cup Table!Allocated(fresh))
      BY <1>7, <1>8, <1>12, <1>13, TableConstants DEF Table!InvalidationReturns
<1>15. impl = [a \in Addr |-> CASE a = root -> text
                                [] a \in Table!Allocated(fresh) \ {root} -> EmptyText
                                [] OTHER -> Seen.impl[a]]
      BY <1>5, <1>10, TableConstants DEF ImplWith
<1>16. cache = [a \in Addr |-> IF a \in Table!Allocated(fresh) \cup reached
                               THEN NoValue ELSE Seen.cache[a]]
      BY <1>9, <1>10, TableConstants DEF CacheWithout
<1>17. Seen'.print_size = Table!BoundingSize(Table!Occupied \cup DOMAIN fresh)
      BY <1>11, <1>12, TableConstants
<1>18. Table!StoreAt(target, text, fresh)
      <2>. HIDE DEF reached
      <2>. QED BY <1>1, <1>5, <1>11, <1>13, <1>14, <1>15, <1>16, <1>17 DEF Table!StoreAt
<1>19. Table!SetCellStore(target, text)
      <2>1. Table!Running /\ Table!IsValid(target)
            BY <1>1, <1>5, TableConstants DEF Table!Running, Crash, TextAccepted
      <2>. QED BY <1>1, <1>5, <1>18, <2>1, TableConstants DEF Table!SetCellStore, TextAccepted
<1>20. SInv'
      BY <1>1, ReturnedKeepsInv DEF locals
<1>. QED BY <1>19, <1>20 DEF Mapped, Table!SetCell

---------------------------------------------------------------------------
(***************************************************************************)
(* The theorems.                                                           *)
(***************************************************************************)
LEMMA StutterKeepsInv ==
    ASSUME SInv, UNCHANGED allVars
    PROVE  SInv' /\ Mapped
<1>1. /\ UNCHANGED <<cells, impl, cache, dependents, print_size, outcome, target, text,
                     before, step, starts, stack, visited, old_refs>>
      /\ UNCHANGED vars
      BY DEF allVars, vars, call, locals
<1>2. Mapped
      BY <1>1 DEF Mapped, Table!vars, Seen, now, Running
<1>3. CASE step = "returned"
      BY <1>1, <1>2, <1>3 DEF SInv
<1>4. CASE step # "returned"
      <2>1. /\ Table!Live' = Table!Live
            /\ Table!References' = Table!References
            /\ \A pos, t : Table!IsCircular(pos, t)' <=> Table!IsCircular(pos, t)
            /\ \A pos, refs : Table!Created(pos, refs)' = Table!Created(pos, refs)
            /\ \A fresh : /\ Table!CellsWith(fresh)' = Table!CellsWith(fresh)
                          /\ Table!DependentsWith(fresh)' = Table!DependentsWith(fresh)
            BY <1>1, <1>4, SeenStays
      <2>2. References' = References /\ Live' = Live
            BY <1>1 DEF References, TextAt, Live, Occupied
      <2>3. Untouched => Untouched'
            BY <1>1, <2>2 DEF Untouched, now, OneOwner, Occupied, ReferencesAcyclic
      <2>4. Checked => Checked'
            BY <1>1, <2>2 DEF Checked, OnStack
      <2>5. TextAccepted => TextAccepted'
            BY <1>1, <2>1 DEF TextAccepted
      <2>6. ASSUME NEW fresh, Storing(fresh)
            PROVE  Storing(fresh)'
            <3>1. /\ LinksWith(fresh)' = LinksWith(fresh)
                  /\ ImplWith(fresh)' = ImplWith(fresh)
                  BY <1>1, <2>1 DEF LinksWith, ImplWith
            <3>2. step = "unwind" => Resetting(fresh)'
                  BY <1>1, <2>2, <2>6 DEF Storing, Resetting, OnStack, CacheWithout
            <3>3. /\ fresh \in Injection(Table!Created(target, Refs(text)), Addr \ Table!Live)'
                  /\ (outcome = "ok")'
                  /\ (cells = Table!CellsWith(fresh))'
                  /\ (cells \in [Pos -> Addr \cup {Null}])'
                  /\ (cells[target] \in Live)'
                  /\ (print_size = before.print_size)'
                  /\ (old_refs = Table!References[target])'
                  /\ (Table!DependentsWith(fresh) \in [Addr -> SUBSET Addr])'
                  BY <1>1, <2>1, <2>2, <2>6 DEF Storing
            <3>4. (dependents = IF step \in {"set", "relink"}
                                THEN Table!DependentsWith(fresh) ELSE LinksWith(fresh))'
                  BY <1>1, <2>1, <2>6, <3>1 DEF Storing
            <3>5. (step = "set" =>
                      /\ impl = [a \in Addr |-> IF a \in Allocated(fresh)
                                                THEN EmptyText ELSE before.impl[a]]
                      /\ cache = CacheWithout({}, fresh))'
                  BY <1>1, <2>6 DEF Storing, CacheWithout
            <3>6. (step \in {"relink", "invalidate"} =>
                      cache = CacheWithout({cells[target]}, fresh))'
                  BY <1>1, <2>6 DEF Storing, CacheWithout
            <3>7. (step # "set" => impl = ImplWith(fresh))'
                  BY <1>1, <2>6, <3>1 DEF Storing
            <3>. QED BY <1>1, <3>2, <3>3, <3>4, <3>5, <3>6, <3>7 DEF Storing
      <2>7. SInv'
            BY <1>1, <2>3, <2>4, <2>5, <2>6 DEF SInv
      <2>. QED BY <1>2, <2>7
<1>. QED BY <1>3, <1>4

\* SInv is inductive, and every step is the call or nothing yet to the caller.
LEMMA StepMapped ==
    ASSUME SInv, [Step]_allVars
    PROVE  SInv' /\ Mapped
<1>1. CASE UNCHANGED allVars
      BY <1>1, StutterKeepsInv
<1>2. CASE Step
      BY <1>2, ParseStep, StartFromStep, FollowStep, ReturnFalseStep, AcceptStep,
         CreateStep, SetImplStep, RelinkStep, BeginStep, DescendStep,
         ReturnInvalidatedStep, ResizeStep
         DEF Step
<1>. QED BY <1>1, <1>2

\* A call starts from a table that fits the invariant.
LEMMA StepsInitInv == StepsInit => SInv
<1>1. SUFFICES ASSUME StepsInit PROVE SInv
      OBVIOUS
<1>2. /\ cells \in Layouts /\ OneOwner = TRUE /\ ReferencesAcyclic = TRUE
      /\ dependents \in {MirrorBut(wrong) : wrong \in WrongLinks}
      /\ outcome = "ok" /\ target \in ArgPos /\ text \in Text /\ before = now
      /\ step = "parse"
      /\ starts = {} /\ stack = <<>> /\ visited = {} /\ old_refs = {}
      BY <1>1, Zenon DEF StepsInit
<1>3. cells \in [Pos -> Addr \cup {Null}]
      BY <1>2, LayoutsAssumption
<1>4. ASSUME NEW wrong
      PROVE  MirrorBut(wrong) \in [Addr -> SUBSET Addr]
      BY DEF MirrorBut
<1>5. dependents \in [Addr -> SUBSET Addr]
      BY <1>2, <1>4
<1>6. target \in Int \X Int
      BY <1>2, ArgPosAssumption
<1>7. OneOwner /\ ReferencesAcyclic
      BY <1>2
<1>. QED BY <1>2, <1>3, <1>5, <1>6, <1>7 DEF SInv, Untouched

\* The walks keep within their bounds, and visited is the way of the walk, whatever
\* links of dependents_ are wrong and whatever is cached when the call begins.
THEOREM WalksKeepType == StepsSpec => []WalkTypeOK
<1>1. SInv /\ [Step]_allVars => SInv'
      BY StepMapped
<1>2. SInv => WalkTypeOK
      <2>1. SUFFICES ASSUME SInv PROVE WalkTypeOK
            OBVIOUS
      <2>2. CASE step = "check"
            <3>1. /\ stack \in Seq(CallOn(Pos)) /\ visited = OnStack(stack)
                  /\ \A i, j \in 1..Len(stack) : stack[i].cell = stack[j].cell => i = j
                  /\ \A i \in 1..Len(stack) :
                        CheckingAt(References, cells, target, Refs(text), stack, i)
                  BY <2>1, <2>2 DEF SInv, Checked, Checking
            <3>2. DOMAIN stack = 1..Len(stack) /\ Len(stack) \in Nat
                  BY <3>1, LenProperties
            <3>3. ASSUME NEW i \in 1..Len(stack) - 1
                  PROVE  \E p \in Refs(impl[stack[i].cell]) : cells[p] = stack[i+1].cell
                  <4>1. i \in 1..Len(stack) /\ i < Len(stack)
                        BY <3>2
                  <4>2. PICK p \in ReachableFrom(Refs(text), References) :
                           /\ cells[p] = stack[i].cell
                           /\ \E q \in References[p] : cells[q] = stack[i+1].cell
                        BY <3>1, <4>1 DEF CheckingAt
                  <4>3. stack[i] \in CallOn(Pos)
                        BY <3>1, <4>1, ElementOfSeq
                  <4>4. p \in Pos /\ cells[p] # Null
                        <5>1. Refs(text) \subseteq Pos
                              BY RefsType
                        <5>2. stack[i].cell \in Addr
                              BY <4>3 DEF CallOn
                        <5>. QED BY <4>2, <5>1, <5>2, ReferencesType, ReachableIsClosed, NullAssumption
                  <4>5. References[p] = Refs(impl[stack[i].cell])
                        BY <4>2, <4>4 DEF References, TextAt
                  <4>. QED BY <4>2, <4>5
            <3>. QED BY <2>1, <2>2, <3>1, <3>2, <3>3 DEF SInv, WalkTypeOK, OnStack
      <2>3. CASE step = "unwind"
            <3>1. PICK fresh : Resetting(fresh)
                  BY <2>1, <2>3 DEF SInv, Storing
            <3>2. PICK done \in SUBSET Live :
                     /\ Unwinding(dependents, cells[target], done, stack)
                     /\ Len(stack) <= StackDepth
                  BY <3>1 DEF Resetting
            <3>3. Len(stack) \in Nat
                  BY <3>2, LenProperties DEF Unwinding
            <3>4. \A i \in 1..Len(stack) - 1 :
                     stack[i+1].cell \in dependents[stack[i].cell]
                  BY <3>2, <3>3 DEF Unwinding, UnwindingAt
            <3>. QED BY <2>1, <2>3, <3>2, <3>4 DEF SInv, WalkTypeOK
      <2>4. CASE step \notin {"check", "unwind"}
            BY <2>1, <2>4 DEF SInv, WalkTypeOK
      <2>. QED BY <2>2, <2>3, <2>4
<1>. QED BY <1>1, <1>2, StepsInitInv, PTL DEF StepsSpec

\* SetCell step by step is the SetCell of the Sheet module.
THEOREM StepsImplementSetCell == StepsSpec => ImplementsSetCell
<1>1. SInv /\ [Step]_allVars => SInv'
      BY StepMapped
<1>2. SInv /\ [Step]_allVars =>
         [Table!RejectPosition(target) \/ Table!SetCell(target, text)]_(Table!vars)
      BY StepMapped DEF Mapped
<1>. QED BY <1>1, <1>2, StepsInitInv, PTL DEF StepsSpec, ImplementsSetCell

---------------------------------------------------------------------------
(***************************************************************************)
(* Sums.  MapThenSumSet takes the members of a set in an order of its own; *)
(* its value is shown to be independent of it by taking a smallest set for *)
(* which it were not.                                                      *)
(***************************************************************************)
Picked(s) == CHOOSE x \in s : TRUE

\* g gives the sum of what w yields, for each subset of T.
AddsUp(g, w, T) ==
    /\ g \in [SUBSET T -> Nat]
    /\ \A s \in SUBSET T : g[s] = IF s = {} THEN 0 ELSE w[Picked(s)] + g[s \ {Picked(s)}]

\* Among sets of members of T there is one from which no member can be removed.
LEMMA SmallestSet ==
    ASSUME NEW T, IsFiniteSet(T), NEW F \in SUBSET (SUBSET T), F # {}
    PROVE  \E s \in F : \A x \in s : s \ {x} \notin F
<1>. DEFINE sizes == {Cardinality(s) : s \in F}
<1>1. \A s \in SUBSET T : IsFiniteSet(s) /\ Cardinality(s) \in Nat
      BY FS_Subset, FS_CardinalityType
<1>2. sizes \in SUBSET Nat /\ sizes # {}
      BY <1>1
<1>. HIDE DEF sizes
<1>3. PICK n \in sizes : \A m \in sizes : n <= m
      BY <1>2, LeastNatural
<1>. USE DEF sizes
<1>4. PICK s \in F : n = Cardinality(s)
      BY <1>3
<1>5. ASSUME NEW x \in s PROVE s \ {x} \notin F
      <2>1. Cardinality(s \ {x}) = Cardinality(s) - 1
            BY <1>1, FS_RemoveElement
      <2>2. s \ {x} \in F => n <= Cardinality(s \ {x})
            BY <1>3
      <2>. QED BY <1>1, <1>4, <2>1, <2>2
<1>. QED BY <1>5

\* There are such sums.
LEMMA SumsExist ==
    ASSUME NEW T, IsFiniteSet(T), NEW w, \A x \in T : w[x] \in Nat
    PROVE  \E g : AddsUp(g, w, T)
<1>. DEFINE Node == SUBSET T
            next == [s \in Node |-> IF s = {} THEN {} ELSE {s \ {Picked(s)}}]
            rule == [s \in Node |-> [v \in [Node -> Nat] |->
                        IF s = {} THEN 0 ELSE w[Picked(s)] + v[s \ {Picked(s)}]]]
<1>1. \A s \in Node : s # {} => Picked(s) \in s /\ s \ {Picked(s)} \in Node
      BY DEF Picked
<1>2. next \in [Node -> SUBSET Node]
      BY <1>1
<1>3. IsAcyclic(next)
      <2>1. SUFFICES ASSUME NEW F \in SUBSET Node, F # {}
                     PROVE  \E s \in F : next[s] \cap F = {}
            BY DEF IsAcyclic
      <2>2. PICK s \in F : \A x \in s : s \ {x} \notin F
            BY <2>1, SmallestSet
      <2>3. next[s] \cap F = {}
            BY <1>1, <2>2
      <2>. QED BY <2>3
<1>4. ASSUME NEW s \in Node, NEW v \in [Node -> Nat]
      PROVE  rule[s][v] = IF s = {} THEN 0 ELSE w[Picked(s)] + v[s \ {Picked(s)}]
      OBVIOUS
<1>5. \A s \in Node, v \in [Node -> Nat] : rule[s][v] \in Nat
      <2>1. SUFFICES ASSUME NEW s \in Node, NEW v \in [Node -> Nat], s # {}
                     PROVE  w[Picked(s)] + v[s \ {Picked(s)}] \in Nat
            BY <1>4
      <2>2. w[Picked(s)] \in Nat /\ v[s \ {Picked(s)}] \in Nat
            BY <1>1, <2>1
      <2>. QED BY <2>2
<1>6. IsLocal(Node, Nat, next, rule)
      <2>1. SUFFICES ASSUME NEW s \in Node, NEW v \in [Node -> Nat], NEW u \in [Node -> Nat],
                            \A t \in next[s] : v[t] = u[t]
                     PROVE  rule[s][v] = rule[s][u]
            <3>. HIDE DEF rule, next, Node
            <3>. QED BY DEF IsLocal
      <2>2. s # {} => v[s \ {Picked(s)}] = u[s \ {Picked(s)}]
            BY <2>1
      <2>. HIDE DEF rule, next, Node
      <2>3. /\ rule[s][v] = IF s = {} THEN 0 ELSE w[Picked(s)] + v[s \ {Picked(s)}]
            /\ rule[s][u] = IF s = {} THEN 0 ELSE w[Picked(s)] + u[s \ {Picked(s)}]
            BY <1>4
      <2>. QED BY ONLY <2>2, <2>3
<1>. HIDE DEF rule, next
<1>7. PICK g \in [Node -> Nat] : Solves(g, Node, next, rule)
      <2>. HIDE DEF Node
      <2>1. 0 \in Nat
            OBVIOUS
      <2>. QED BY <1>2, <1>3, <1>5, <1>6, <2>1, SolutionExists
<1>8. \A s \in Node : g[s] = rule[s][g]
      BY <1>7 DEF Solves
<1>9. \A s \in Node : g[s] = IF s = {} THEN 0 ELSE w[Picked(s)] + g[s \ {Picked(s)}]
      BY <1>4, <1>8
<1>. QED BY <1>9 DEF AddsUp

\* MapThenSumSet is the sum.
LEMMA TotalIs ==
    ASSUME NEW T, IsFiniteSet(T), NEW w, NEW g, AddsUp(g, w, T), NEW S \in SUBSET T,
           NEW v, \A x \in S : v[x] = w[x]
    PROVE  Total(v, S) = g[S]
<1>. DEFINE Eq(f) == f = [s \in SUBSET S |-> IF s = {} THEN 0 ELSE v[Picked(s)] + f[s \ {Picked(s)}]]
            h == [s \in SUBSET S |-> g[s]]
            iter == CHOOSE f : Eq(f)
<1>1. Total(v, S) = iter[S]
      BY DEF Total, MapThenSumSet, MapThenFoldSet, Picked
<1>2. \A s \in SUBSET S : s # {} => Picked(s) \in s /\ s \ {Picked(s)} \in SUBSET S
      BY DEF Picked
<1>3. ASSUME NEW s \in SUBSET S
      PROVE  h[s] = IF s = {} THEN 0 ELSE v[Picked(s)] + h[s \ {Picked(s)}]
      <2>1. h[s] = g[s]
            OBVIOUS
      <2>2. s # {} => h[s \ {Picked(s)}] = g[s \ {Picked(s)}] /\ v[Picked(s)] = w[Picked(s)]
            BY <1>2
      <2>3. s \in SUBSET T
            OBVIOUS
      <2>. HIDE DEF h
      <2>. QED BY <2>1, <2>2, <2>3 DEF AddsUp
<1>4. Eq(h)
      <2>1. h = [s \in SUBSET S |-> h[s]]
            OBVIOUS
      <2>. HIDE DEF h
      <2>. QED BY <1>3, <2>1
<1>5. Eq(iter)
      <2>. HIDE DEF Eq, h
      <2>. QED BY <1>4
<1>. HIDE DEF iter, h
<1>6. \A s \in SUBSET S : iter[s] = IF s = {} THEN 0 ELSE v[Picked(s)] + iter[s \ {Picked(s)}]
      BY <1>5
<1>. HIDE DEF Eq
<1>. DEFINE F == {s \in SUBSET S : iter[s] # h[s]}
<1>7. F = {}
      <2>1. SUFFICES ASSUME F # {} PROVE FALSE
            OBVIOUS
      <2>2. IsFiniteSet(S) /\ F \in SUBSET (SUBSET S)
            BY FS_Subset
      <2>3. PICK s \in F : \A x \in s : s \ {x} \notin F
            <3>. HIDE DEF F
            <3>. QED BY <2>1, <2>2, SmallestSet
      <2>4. s # {} => iter[s \ {Picked(s)}] = h[s \ {Picked(s)}]
            BY <1>2, <2>3
      <2>. QED BY <1>3, <1>6, <2>3, <2>4
<1>8. iter[S] = h[S] /\ h[S] = g[S]
      BY <1>7 DEF h
<1>. QED BY <1>1, <1>8

\* Any member may be the one that is added last.
LEMMA AddsUpAnyWay ==
    ASSUME NEW T, IsFiniteSet(T), NEW w, \A x \in T : w[x] \in Nat, NEW g, AddsUp(g, w, T),
           NEW S \in SUBSET T, NEW x \in S
    PROVE  g[S] = w[x] + g[S \ {x}]
<1>. DEFINE F == {s \in SUBSET T : \E y \in s : g[s] # w[y] + g[s \ {y}]}
<1>1. SUFFICES ASSUME F # {} PROVE FALSE
      OBVIOUS
<1>2. PICK s \in F : \A y \in s : s \ {y} \notin F
      <2>. F \in SUBSET (SUBSET T)
           OBVIOUS
      <2>. HIDE DEF F
      <2>. QED BY <1>1, SmallestSet
<1>3. PICK y \in s : g[s] # w[y] + g[s \ {y}]
      BY <1>2
<1>. DEFINE c == Picked(s)
<1>4. c \in s /\ c # y /\ g[s] = w[c] + g[s \ {c}]
      <2>1. c \in s
            BY <1>3 DEF Picked
      <2>2. g[s] = w[c] + g[s \ {c}]
            BY <1>3 DEF AddsUp
      <2>. QED BY <1>3, <2>1, <2>2
<1>. HIDE DEF c
<1>5. /\ s \ {c} \in SUBSET T /\ y \in s \ {c}
      /\ s \ {y} \in SUBSET T /\ c \in s \ {y}
      /\ (s \ {c}) \ {y} = (s \ {y}) \ {c}
      BY <1>3, <1>4
<1>6. g[s \ {c}] = w[y] + g[(s \ {c}) \ {y}]
      BY <1>2, <1>4, <1>5
<1>7. g[s \ {y}] = w[c] + g[(s \ {c}) \ {y}]
      <2>1. s \ {y} \notin F
            BY <1>2, <1>3
      <2>2. g[s \ {y}] = w[c] + g[(s \ {y}) \ {c}]
            BY ONLY <1>5, <2>1
      <2>. QED BY ONLY <1>5, <2>2
<1>8. /\ w[c] \in Nat /\ w[y] \in Nat
      /\ g[(s \ {c}) \ {y}] \in Nat
      BY <1>3, <1>4 DEF AddsUp
<1>. QED BY <1>3, <1>4, <1>6, <1>7, <1>8

\* What is used of a sum: it is a number, each member adds its own, and it depends on
\* nothing else.
LEMMA TotalAdds ==
    ASSUME NEW S, IsFiniteSet(S), NEW w, \A x \in S : w[x] \in Nat
    PROVE  /\ Total(w, S) \in Nat
           /\ S = {} => Total(w, S) = 0
           /\ \A x \in S : /\ Total(w, S \ {x}) \in Nat
                           /\ Total(w, S) = w[x] + Total(w, S \ {x})
           /\ \A v : (\A x \in S : v[x] = w[x]) => Total(v, S) = Total(w, S)
<1>1. PICK g : AddsUp(g, w, S)
      BY SumsExist
<1>2. \A s \in SUBSET S : Total(w, s) = g[s] /\ g[s] \in Nat
      <2>1. SUFFICES ASSUME NEW s \in SUBSET S PROVE Total(w, s) = g[s] /\ g[s] \in Nat
            OBVIOUS
      <2>2. \A x \in s : w[x] = w[x]
            OBVIOUS
      <2>3. Total(w, s) = g[s]
            BY <1>1, <2>2, TotalIs
      <2>. QED BY <1>1, <2>3 DEF AddsUp
<1>3. ASSUME NEW v, \A x \in S : v[x] = w[x] PROVE Total(v, S) = g[S]
      BY <1>1, <1>3, TotalIs
<1>4. \A x \in S : g[S] = w[x] + g[S \ {x}]
      BY <1>1, AddsUpAnyWay
<1>5. S = {} => g[S] = 0
      BY <1>1 DEF AddsUp
<1>. QED BY <1>2, <1>3, <1>4, <1>5

---------------------------------------------------------------------------
(***************************************************************************)
(* The ways.                                                               *)
(***************************************************************************)

\* w counts the ways from the nodes of D, each alone included.
Counts(w, D, next) ==
    w \in [D -> Nat] /\ \A x \in D : w[x] = 1 + Total(w, next[x])

\* Without cycles, ways can be counted, nodes that count for nothing left out.
LEMMA WaysCounted ==
    ASSUME NEW D, IsFiniteSet(D), NEW next \in [D -> SUBSET D], IsAcyclic(next),
           NEW out \in SUBSET D
    PROVE  \E w \in [D -> Nat] :
              \A x \in D : w[x] = IF x \in out THEN 0 ELSE 1 + Total(w, next[x])
<1>. DEFINE rule == [x \in D |-> [v \in [D -> Nat] |->
                        IF x \in out THEN 0 ELSE 1 + Total(v, next[x])]]
<1>1. ASSUME NEW x \in D, NEW v \in [D -> Nat]
      PROVE  /\ rule[x][v] = IF x \in out THEN 0 ELSE 1 + Total(v, next[x])
             /\ Total(v, next[x]) \in Nat
             /\ \A u : (\A y \in next[x] : u[y] = v[y]) => Total(u, next[x]) = Total(v, next[x])
      <2>1. IsFiniteSet(next[x]) /\ \A y \in next[x] : v[y] \in Nat
            BY FS_Subset
      <2>2. /\ Total(v, next[x]) \in Nat
            /\ \A u : (\A y \in next[x] : u[y] = v[y]) => Total(u, next[x]) = Total(v, next[x])
            BY <2>1, TotalAdds
      <2>3. rule[x][v] = IF x \in out THEN 0 ELSE 1 + Total(v, next[x])
            OBVIOUS
      <2>. HIDE DEF rule
      <2>. QED BY <2>2, <2>3
<1>. HIDE DEF rule
<1>2. \A x \in D, v \in [D -> Nat] : rule[x][v] \in Nat
      BY <1>1
<1>3. IsLocal(D, Nat, next, rule)
      BY <1>1 DEF IsLocal
<1>4. PICK w \in [D -> Nat] : Solves(w, D, next, rule)
      <2>1. 0 \in Nat
            OBVIOUS
      <2>. QED BY <1>2, <1>3, <2>1, SolutionExists
<1>. QED BY <1>1, <1>4 DEF Solves

\* A function that satisfies the equation is the count.
LEMMA WaysUnique ==
    ASSUME NEW D, IsFiniteSet(D), NEW next \in [D -> SUBSET D], IsAcyclic(next), NEW out,
           NEW w \in [D -> Nat],
           \A x \in D : w[x] = IF x \in out THEN 0 ELSE 1 + Total(w, next[x]),
           NEW f, f = [x \in D |-> IF x \in out THEN 0 ELSE 1 + Total(f, next[x])]
    PROVE  f = w
<1>. DEFINE S == {x \in D : f[x] # w[x]}
<1>1. \A x \in D : f[x] = IF x \in out THEN 0 ELSE 1 + Total(f, next[x])
      OBVIOUS
<1>2. S = {}
      <2>1. SUFFICES ASSUME S # {} PROVE FALSE
            OBVIOUS
      <2>2. PICK x \in S : next[x] \cap S = {}
            BY <2>1 DEF IsAcyclic
      <2>3. \A y \in next[x] : f[y] = w[y] /\ w[y] \in Nat
            BY <2>2
      <2>4. IsFiniteSet(next[x])
            BY FS_Subset
      <2>5. Total(f, next[x]) = Total(w, next[x])
            BY <2>3, <2>4, TotalAdds
      <2>. QED BY <1>1, <2>2, <2>5
<1>3. f = [x \in D |-> f[x]] /\ w = [x \in D |-> w[x]]
      OBVIOUS
<1>. QED BY <1>2, <1>3

\* The table is finite.
LEMMA PosFinite == IsFiniteSet(Pos)
<1>1. IsFiniteSet(0..MAX_ROWS-1) /\ IsFiniteSet(0..MAX_COLS-1)
      BY BoundsAssumption, FS_Interval
<1>. QED BY <1>1, FS_Product DEF Pos

\* WaysUp is what its equation says.
LEMMA WaysUpCounts ==
    ASSUME Untouched
    PROVE  /\ WaysUp \in [Pos -> Nat]
           /\ \A p \in Pos : WaysUp[p] = IF cells[p] = Null THEN 0
                                         ELSE 1 + Total(WaysUp, References[p])
<1>. DEFINE out == {p \in Pos : cells[p] = Null}
            Eq(f) == f = [p \in Pos |-> IF cells[p] = Null THEN 0 ELSE 1 + Total(f, References[p])]
<1>1. References \in [Pos -> SUBSET Pos] /\ IsAcyclic(References)
      BY WalkOnTable DEF IsTable
<1>2. PICK w \in [Pos -> Nat] :
         \A p \in Pos : w[p] = IF p \in out THEN 0 ELSE 1 + Total(w, References[p])
      <2>1. out \in SUBSET Pos
            OBVIOUS
      <2>. HIDE DEF out
      <2>. QED BY ONLY <1>1, <2>1, PosFinite, WaysCounted
<1>3. \A p \in Pos : w[p] = IF cells[p] = Null THEN 0 ELSE 1 + Total(w, References[p])
      BY <1>2
<1>4. Eq(w)
      <2>1. w = [p \in Pos |-> w[p]]
            OBVIOUS
      <2>. QED BY <1>3, <2>1
<1>5. WaysUp = CHOOSE f : Eq(f)
      BY DEF WaysUp
<1>6. Eq(WaysUp)
      <2>. HIDE DEF Eq
      <2>. QED BY <1>4, <1>5
<1>7. \A p \in Pos : WaysUp[p] = IF cells[p] = Null THEN 0 ELSE 1 + Total(WaysUp, References[p])
      BY <1>6
<1>8. WaysUp = [p \in Pos |-> IF p \in out THEN 0 ELSE 1 + Total(WaysUp, References[p])]
      <2>1. \A p \in Pos : p \in out <=> cells[p] = Null
            OBVIOUS
      <2>. HIDE DEF out
      <2>. QED BY <1>6, <2>1
<1>. HIDE DEF out, Eq
<1>9. WaysUp = w
      BY <1>1, <1>2, <1>8, PosFinite, WaysUnique
<1>. QED BY <1>7, <1>9

\* WaysDown counts, once the walk has come back from all it reaches.
LEMMA WaysDownCounts ==
    ASSUME dependents \in [Addr -> SUBSET Addr], cells[target] \in Addr,
           NEW R, R = ReachableFrom({cells[target]}, dependents), IsFinished(R, dependents)
    PROVE  Counts(WaysDown, R, dependents)
<1>. DEFINE next == [a \in R |-> dependents[a]]
            none == {}
            Eq(f) == f = [a \in R |-> 1 + Total(f, dependents[a])]
<1>1. R \in SUBSET Addr /\ IsClosed(R, dependents)
      BY ReachableIsClosed
<1>2. next \in [R -> SUBSET R] /\ \A a \in R : next[a] = dependents[a]
      BY <1>1 DEF IsClosed
<1>3. IsAcyclic(next)
      BY <1>2 DEF IsAcyclic, IsFinished
<1>4. IsFiniteSet(R)
      BY <1>1, StackAssumption, FS_Subset
<1>5. none \in SUBSET R /\ \A a \in R : a \notin none
      OBVIOUS
<1>. HIDE DEF next, none
<1>6. PICK w \in [R -> Nat] :
         \A a \in R : w[a] = IF a \in none THEN 0 ELSE 1 + Total(w, next[a])
      <2>1. next \in [R -> SUBSET R]
            BY <1>2
      <2>2. \E w \in [R -> Nat] : \A x \in R : w[x] = IF x \in none THEN 0 ELSE 1 + Total(w, next[x])
            BY ONLY <2>1, <1>3, <1>4, <1>5, WaysCounted
      <2>. QED BY ONLY <2>2
<1>7. Eq(w)
      <2>1. w = [a \in R |-> w[a]]
            OBVIOUS
      <2>. QED BY <1>2, <1>5, <1>6, <2>1
<1>8. WaysDown = CHOOSE f : Eq(f)
      BY DEF WaysDown, InvalidatedFrom
<1>9. Eq(WaysDown)
      <2>. HIDE DEF Eq
      <2>. QED BY <1>7, <1>8
<1>10. WaysDown = [a \in R |-> IF a \in none THEN 0 ELSE 1 + Total(WaysDown, next[a])]
      BY <1>2, <1>5, <1>9
<1>11. \A a \in R : WaysDown[a] = 1 + Total(WaysDown, dependents[a])
      BY <1>9
<1>. HIDE DEF Eq
<1>12. WaysDown = w
      <2>1. next \in [R -> SUBSET R]
            BY <1>2
      <2>. QED BY ONLY <2>1, <1>3, <1>4, <1>6, <1>10, WaysUnique
<1>. QED BY <1>11, <1>12 DEF Counts

---------------------------------------------------------------------------
(***************************************************************************)
(* The calls a walk still has to make: those for the positions or cells    *)
(* that the loops of the calls under way have not come to.                 *)
(***************************************************************************)

\* owe adds up what w yields for what is to do in the calls of st, from base on.
Owes(owe, w, st, base) ==
    /\ owe \in [0..Len(st) -> Nat]
    /\ owe[0] = base
    /\ \A i \in 1..Len(st) : owe[i] = owe[i-1] + Total(w, st[i].todo)

Owed(w, st, base, n) == \E owe : Owes(owe, w, st, base) /\ owe[Len(st)] = n

\* Nothing is under way.
LEMMA OwedAtFirst ==
    ASSUME NEW w, NEW n \in Nat
    PROVE  Owed(w, <<>>, n, n)
<1>. DEFINE owe == [i \in 0..0 |-> n]
<1>1. Len(<<>>) = 0 /\ owe \in [0..Len(<<>>) -> Nat] /\ owe[0] = n
      OBVIOUS
<1>. HIDE DEF owe
<1>. QED BY <1>1 DEF Owed, Owes

\* Then it is the base that is owed.
LEMMA OwedAtLast ==
    ASSUME NEW w, NEW base, NEW n, Owed(w, <<>>, base, n)
    PROVE  n = base
BY DEF Owed, Owes

\* A call owes what is to do in it.
LEMMA OwedByCall ==
    ASSUME NEW D, NEW st \in Seq(CallOn(D)), NEW e \in CallOn(D),
           NEW w, NEW base, NEW n \in Nat, Owed(w, st, base, n), Total(w, e.todo) \in Nat
    PROVE  Owed(w, Append(st, e), base, n + Total(w, e.todo))
<1>. DEFINE l == Len(st)
            longer == Append(st, e)
            sum == n + Total(w, e.todo)
<1>1. PICK owe : Owes(owe, w, st, base) /\ owe[l] = n
      BY DEF Owed
<1>. DEFINE more == [i \in 0..l+1 |-> IF i = l + 1 THEN sum ELSE owe[i]]
<1>2. /\ l \in Nat /\ Len(longer) = l + 1
      /\ \A i \in 1..l : longer[i] = st[i]
      /\ longer[l+1] = e
      /\ owe \in [0..l -> Nat]
      BY <1>1, StackGrows, LenProperties DEF Owes
<1>. HIDE DEF longer, l
<1>3. more \in [0..Len(longer) -> Nat]
      BY <1>2
<1>4. more[0] = base /\ more[l] = n /\ more[Len(longer)] = sum /\ more[l+1] = sum
      BY <1>1, <1>2 DEF Owes
<1>5. ASSUME NEW i \in 1..Len(longer)
      PROVE  more[i] = more[i-1] + Total(w, longer[i].todo)
      <2>1. CASE i = l + 1
            BY <1>2, <1>4, <2>1
      <2>2. CASE i # l + 1
            <3>1. i \in 1..l /\ more[i] = owe[i] /\ more[i-1] = owe[i-1] /\ longer[i] = st[i]
                  BY <1>2, <2>2
            <3>. QED BY <1>1, <3>1 DEF Owes, l
      <2>. QED BY <2>1, <2>2
<1>. HIDE DEF more, sum
<1>6. Owes(more, w, longer, base)
      BY <1>3, <1>4, <1>5 DEF Owes
<1>. QED BY <1>4, <1>6 DEF Owed, longer, sum

\* The innermost call owes no more for what it has come to.
LEMMA OwedAdvances ==
    ASSUME NEW D, NEW st \in Seq(CallOn(D)), st # <<>>, NEW x \in Last(st).todo,
           NEW w, NEW base, NEW n, Owed(w, st, base, n),
           IsFiniteSet(Last(st).todo), \A y \in Last(st).todo : w[y] \in Nat
    PROVE  /\ n - w[x] \in Nat /\ n \in Nat
           /\ Owed(w, After(st, x), base, n - w[x])
<1>. DEFINE l == Len(st)
            after == After(st, x)
            todo == Last(st).todo
<1>1. PICK owe : Owes(owe, w, st, base) /\ owe[l] = n
      BY DEF Owed
<1>. DEFINE less == [i \in 0..l |-> IF i = l THEN n - w[x] ELSE owe[i]]
<1>2. /\ l \in Nat \ {0} /\ Len(after) = l /\ Last(st) = st[l]
      /\ \A i \in 1..l-1 : after[i] = st[i]
      /\ after[l].todo = todo \ {x}
      BY StackAdvances, LenProperties, EmptySeq DEF Last
<1>3. owe \in [0..l -> Nat] /\ n = owe[l-1] + Total(w, todo)
      <2>1. l \in 1..Len(st)
            BY <1>2
      <2>. QED BY <1>1, <1>2, <2>1 DEF Owes
<1>4. Total(w, todo) = w[x] + Total(w, todo \ {x}) /\ Total(w, todo \ {x}) \in Nat /\ w[x] \in Nat
      BY TotalAdds
<1>. HIDE DEF after, l, todo
<1>5. n - w[x] = owe[l-1] + Total(w, todo \ {x}) /\ owe[l-1] \in Nat
      <2>1. l - 1 \in 0..l
            BY <1>2
      <2>2. owe[l-1] \in Nat
            BY <1>3, <2>1
      <2>. QED BY <1>3, <1>4, <2>2
<1>6. less \in [0..Len(after) -> Nat] /\ less[0] = base /\ less[l] = n - w[x]
      <2>1. n - w[x] \in Nat
            BY <1>4, <1>5
      <2>2. less \in [0..l -> Nat]
            BY <1>3, <2>1
      <2>. QED BY <1>1, <1>2, <2>2 DEF Owes
<1>7. ASSUME NEW i \in 1..Len(after)
      PROVE  less[i] = less[i-1] + Total(w, after[i].todo)
      <2>1. i \in 1..l /\ less[i-1] = owe[i-1]
            BY <1>2
      <2>2. CASE i = l
            BY <1>2, <1>5, <1>6, <2>1, <2>2
      <2>3. CASE i # l
            <3>1. less[i] = owe[i] /\ after[i] = st[i]
                  BY <1>2, <2>1, <2>3
            <3>. QED BY <1>1, <2>1, <3>1 DEF Owes, l
      <2>. QED BY <2>2, <2>3
<1>. HIDE DEF less
<1>8. Owes(less, w, after, base) /\ less[Len(after)] = n - w[x]
      BY <1>2, <1>6, <1>7 DEF Owes
<1>9. n - w[x] \in Nat /\ n \in Nat
      <2>1. n = owe[l-1] + Total(w, todo)
            BY <1>3
      <2>. QED BY ONLY <1>4, <1>5, <2>1
<1>. QED BY <1>8, <1>9 DEF Owed, after

\* A call that returns owes nothing.
LEMMA OwedReturns ==
    ASSUME NEW D, NEW st \in Seq(CallOn(D)), st # <<>>, Last(st).todo = {},
           NEW w, NEW base, NEW n, Owed(w, st, base, n)
    PROVE  Owed(w, Front(st), base, n)
<1>. DEFINE l == Len(st)
            front == Front(st)
<1>1. PICK owe : Owes(owe, w, st, base) /\ owe[l] = n
      BY DEF Owed
<1>. DEFINE less == [i \in 0..l-1 |-> owe[i]]
<1>2. /\ l \in Nat \ {0} /\ Len(front) = l - 1 /\ Last(st) = st[l]
      /\ \A i \in 1..l-1 : front[i] = st[i]
      BY StackShrinks DEF Last
<1>3. owe \in [0..l -> Nat] /\ n = owe[l-1] + Total(w, {})
      <2>1. l \in 1..Len(st)
            BY <1>2
      <2>. QED BY <1>1, <1>2, <2>1 DEF Owes
<1>4. Total(w, {}) = 0
      BY FS_EmptySet, TotalAdds
<1>. HIDE DEF front, l
<1>5. less \in [0..Len(front) -> Nat] /\ less[0] = base /\ less[Len(front)] = n
      BY <1>1, <1>2, <1>3, <1>4 DEF Owes
<1>6. ASSUME NEW i \in 1..Len(front)
      PROVE  less[i] = less[i-1] + Total(w, front[i].todo)
      <2>1. i \in 1..l /\ less[i] = owe[i] /\ less[i-1] = owe[i-1] /\ front[i] = st[i]
            BY <1>2
      <2>. QED BY <1>1, <2>1 DEF Owes, l
<1>. HIDE DEF less
<1>. QED BY <1>5, <1>6 DEF Owed, Owes, front

---------------------------------------------------------------------------
(***************************************************************************)
(* The calls made and the calls owed together are the ways.                *)
(***************************************************************************)
CheckOwes == \E n \in Nat : /\ Owed(WaysUp, stack, Total(WaysUp, starts), n)
                            /\ calls + n = Total(WaysUp, Refs(text))

Reached == ReachableFrom({cells[target]}, dependents)

\* While InvalidateCache runs, it is not known yet that there is such a w: on a cycle
\* of dependents_ there is none.
UnwindOwes == \A w : Counts(w, Reached, dependents) =>
                 \E n \in Nat : Owed(w, stack, 0, n) /\ calls + n = w[cells[target]]

Counted ==
    /\ calls \in Nat
    /\ step \in {"parse", "invalidate"} => calls = 0
    /\ step = "check" => CheckOwes
    /\ step = "create" => calls = Total(WaysUp, Refs(text))
    /\ step = "unwind" => UnwindOwes

\* The sums of the walk up are over finite sets of positions.
LEMMA UpSums ==
    ASSUME Untouched, NEW S \in SUBSET Pos
    PROVE  /\ IsFiniteSet(S) /\ Total(WaysUp, S) \in Nat
           /\ \A p \in S : WaysUp[p] \in Nat /\ Total(WaysUp, S) = WaysUp[p] + Total(WaysUp, S \ {p})
<1>1. IsFiniteSet(S) /\ \A p \in S : WaysUp[p] \in Nat
      BY PosFinite, FS_Subset, WaysUpCounts
<1>. QED BY <1>1, TotalAdds

\* The ways up are the same while the table is.
LEMMA WaysUpStay ==
    ASSUME UNCHANGED <<cells, impl>>
    PROVE  WaysUp' = WaysUp
<1>1. References' = References
      BY DEF References, TextAt
<1>. QED BY <1>1 DEF WaysUp

\* Every reference of the formula is owed.
LEMMA ParseCounts ==
    ASSUME SInv, Counted, Parse, UNCHANGED call
    PROVE  Counted'
<1>1. step = "parse" /\ Untouched /\ stack = <<>> /\ calls = 0
      BY DEF SInv, Parse, Counted
<1>2. CASE \E exception : Refuse(exception)
      BY <1>1, <1>2 DEF Counted, Refuse, locals
<1>3. CASE /\ step' = "check"
           /\ starts' = Refs(text)
           /\ UNCHANGED <<vars, stack, visited, old_refs, calls>>
      <2>1. Total(WaysUp, Refs(text)) \in Nat
            BY <1>1, UpSums, RefsType DEF SInv
      <2>2. Owed(WaysUp, <<>>, Total(WaysUp, Refs(text)), Total(WaysUp, Refs(text)))
            BY <2>1, OwedAtFirst
      <2>3. WaysUp' = WaysUp /\ text' = text
            BY <1>3, WaysUpStay DEF vars, call
      <2>4. CheckOwes'
            BY <1>1, <1>3, <2>1, <2>2, <2>3 DEF CheckOwes
      <2>. QED BY <1>1, <1>3, <2>4 DEF Counted
<1>. QED BY <1>2, <1>3 DEF Parse

\* A call on the cell at p leaves what was owed for p, less the call itself.
LEMMA StartFromCounts ==
    ASSUME SInv, Counted, NEW p \in Pos, StartFrom(p), UNCHANGED call
    PROVE  Counted'
<1>1. /\ step = "check" /\ Untouched /\ Checked /\ CheckOwes /\ calls \in Nat
      /\ stack = <<>> /\ p \in starts /\ starts \in SUBSET Pos
      /\ UNCHANGED text
      BY DEF SInv, StartFrom, IsFirst, Counted, call
<1>. DEFINE owed == Total(WaysUp, starts)
            left == Total(WaysUp, starts \ {p})
<1>2. calls + owed = Total(WaysUp, Refs(text))
      BY <1>1, OwedAtLast DEF CheckOwes
<1>3. owed = WaysUp[p] + left /\ left \in Nat
      BY <1>1, UpSums
<1>4. Owed(WaysUp, <<>>, left, left)
      BY <1>3, OwedAtFirst
<1>5. CASE /\ cells[p] = Null
           /\ starts' = starts \ {p}
           /\ UNCHANGED <<vars, step, stack, visited, old_refs, calls>>
      <2>1. WaysUp' = WaysUp
            BY <1>5, WaysUpStay DEF vars
      <2>2. WaysUp[p] = 0
            BY <1>1, <1>5, WaysUpCounts
      <2>. HIDE DEF owed, left
      <2>3. calls + left = Total(WaysUp, Refs(text))
            BY <1>2, <1>3, <2>2
      <2>. USE DEF left
      <2>4. CheckOwes'
            BY <1>1, <1>3, <1>4, <1>5, <2>1, <2>3 DEF CheckOwes
      <2>. QED BY <1>1, <1>5, <2>4 DEF Counted
<1>6. CASE cells[p] # Null /\ HasCycle(cells[p], stack, starts \ {p})
      <2>. DEFINE e == [cell |-> cells[p], todo |-> References[p]]
                  in == Total(WaysUp, References[p])
      <2>1. cells[p] \notin visited
            BY <1>1, EmptySeq DEF Checked, OnStack
      <2>2. /\ stack' = Append(stack, e) /\ calls' = calls + 1
            /\ starts' = starts \ {p}
            /\ UNCHANGED <<vars, step>>
            BY <1>1, <1>6, <2>1, WalkOnTable DEF HasCycle
      <2>3. e \in CallOn(Pos) /\ e.todo = References[p] /\ <<>> \in Seq(CallOn(Pos))
            BY <1>1, <1>6, WalkOnTable, EmptySeq DEF CallOn, IsTable
      <2>4. WaysUp[p] = 1 + in
            BY <1>1, <1>6, WaysUpCounts
      <2>5. in \in Nat
            BY <1>1, WalkOnTable, UpSums DEF IsTable
      <2>. HIDE DEF e
      <2>6. Owed(WaysUp, stack', left, left + in)
            BY <1>1, <1>3, <1>4, <2>2, <2>3, <2>5, OwedByCall
      <2>7. WaysUp' = WaysUp
            BY <2>2, WaysUpStay DEF vars
      <2>8. calls' + (left + in) = Total(WaysUp, Refs(text)) /\ left + in \in Nat /\ calls' \in Nat
            <3>. HIDE DEF owed, left, in
            <3>. QED BY <1>1, <1>2, <1>3, <2>2, <2>4, <2>5
      <2>9. CheckOwes'
            BY <1>1, <2>2, <2>6, <2>7, <2>8 DEF CheckOwes
      <2>. QED BY <1>1, <2>2, <2>8, <2>9 DEF Counted
<1>. QED BY <1>5, <1>6 DEF StartFrom

\* So does a call made by has_cycle itself.
LEMMA FollowCounts ==
    ASSUME SInv, Counted, NEW dep \in Pos, Follow(dep), UNCHANGED call
    PROVE  Counted'
<1>. DEFINE todo == Last(stack).todo
            mid  == After(stack, dep)
<1>1. /\ step = "check" /\ Untouched /\ CheckOwes /\ calls \in Nat
      /\ stack # <<>> /\ dep \in todo /\ starts \in SUBSET Pos
      /\ UNCHANGED text
      BY DEF SInv, Follow, IsFirst, Counted, call, Top
<1>2. stack \in Seq(CallOn(Pos)) /\ todo \in SUBSET Pos
      <2>1. stack \in Seq(CallOn(Pos))
            BY <1>1 DEF SInv, Checked, Checking
      <2>2. Last(stack) \in CallOn(Pos)
            BY <1>1, <2>1, EmptySeq, ElementOfSeq DEF Last
      <2>. QED BY <2>1, <2>2 DEF CallOn
<1>3. PICK n \in Nat : /\ Owed(WaysUp, stack, Total(WaysUp, starts), n)
                       /\ calls + n = Total(WaysUp, Refs(text))
      BY <1>1 DEF CheckOwes
<1>4. /\ n - WaysUp[dep] \in Nat
      /\ Owed(WaysUp, mid, Total(WaysUp, starts), n - WaysUp[dep])
      <2>1. IsFiniteSet(todo) /\ \A p \in todo : WaysUp[p] \in Nat
            BY <1>1, <1>2, UpSums
      <2>. HIDE DEF mid, todo
      <2>. USE DEF mid
      <2>. QED BY <1>1, <1>2, <1>3, <2>1, OwedAdvances DEF todo
<1>5. mid \in Seq(CallOn(Pos)) /\ Advanced(dep) = mid
      BY <1>1, <1>2, StackAdvances DEF Advanced, After
<1>. HIDE DEF mid, todo
<1>6. CASE Refuse("CircularDependencyException")
      BY <1>1, <1>6 DEF Counted, Refuse, locals
<1>7. CASE /\ cells[dep] = Null
           /\ stack' = Advanced(dep)
           /\ UNCHANGED <<vars, step, starts, visited, old_refs, calls>>
      <2>1. WaysUp' = WaysUp
            BY <1>7, WaysUpStay DEF vars
      <2>2. WaysUp[dep] = 0
            BY <1>1, <1>7, WaysUpCounts
      <2>3. Owed(WaysUp, stack', Total(WaysUp, starts), n)
            BY <1>4, <1>5, <1>7, <2>2
      <2>4. CheckOwes'
            BY <1>1, <1>3, <1>7, <2>1, <2>3 DEF CheckOwes
      <2>. QED BY <1>1, <1>7, <2>4 DEF Counted
<1>8. CASE /\ cells[dep] # Null
           /\ cells[dep] \notin visited
           /\ HasCycle(cells[dep], Advanced(dep), starts)
      <2>. DEFINE e == [cell |-> cells[dep], todo |-> References[dep]]
                  in == Total(WaysUp, References[dep])
                  m == n - WaysUp[dep]
      <2>1. /\ stack' = Append(mid, e) /\ calls' = calls + 1
            /\ UNCHANGED <<vars, step, starts>>
            BY <1>1, <1>5, <1>8, WalkOnTable DEF HasCycle
      <2>2. e \in CallOn(Pos) /\ e.todo = References[dep]
            BY <1>1, <1>8, WalkOnTable DEF CallOn, IsTable
      <2>3. WaysUp[dep] = 1 + in
            BY <1>1, <1>8, WaysUpCounts
      <2>4. in \in Nat
            BY <1>1, WalkOnTable, UpSums DEF IsTable
      <2>. HIDE DEF e, m
      <2>5. Owed(WaysUp, stack', Total(WaysUp, starts), m + in)
            <3>1. m \in Nat /\ Owed(WaysUp, mid, Total(WaysUp, starts), m)
                  BY <1>4 DEF m
            <3>. QED BY <1>5, <2>1, <2>2, <2>4, <3>1, OwedByCall
      <2>6. WaysUp' = WaysUp
            BY <2>1, WaysUpStay DEF vars
      <2>7. calls' + (m + in) = Total(WaysUp, Refs(text)) /\ m + in \in Nat /\ calls' \in Nat
            <3>. HIDE DEF in
            <3>. QED BY <1>1, <1>3, <1>4, <2>1, <2>3, <2>4 DEF m
      <2>8. CheckOwes'
            BY <1>1, <2>1, <2>5, <2>6, <2>7 DEF CheckOwes
      <2>. QED BY <1>1, <2>1, <2>7, <2>8 DEF Counted
<1>9. CASE cells[dep] \in visited /\ HasCycle(cells[dep], Advanced(dep), starts)
      BY <1>6, <1>9 DEF HasCycle
<1>. QED BY <1>6, <1>7, <1>8, <1>9 DEF Follow

\* has_cycle returns once it owes nothing.
LEMMA ReturnFalseCounts ==
    ASSUME SInv, Counted, ReturnFalse, UNCHANGED call
    PROVE  Counted'
<1>1. /\ step = "check" /\ CheckOwes /\ calls \in Nat
      /\ stack # <<>> /\ Last(stack).todo = {} /\ stack' = Front(stack)
      /\ UNCHANGED <<vars, step, starts, calls, text>>
      BY DEF SInv, ReturnFalse, Top, Counted, call
<1>2. stack \in Seq(CallOn(Pos))
      BY <1>1 DEF SInv, Checked, Checking
<1>3. PICK n \in Nat : /\ Owed(WaysUp, stack, Total(WaysUp, starts), n)
                       /\ calls + n = Total(WaysUp, Refs(text))
      BY <1>1 DEF CheckOwes
<1>4. Owed(WaysUp, Front(stack), Total(WaysUp, starts), n)
      BY <1>1, <1>2, <1>3, OwedReturns
<1>5. WaysUp' = WaysUp
      BY <1>1, WaysUpStay DEF vars
<1>6. CheckOwes'
      BY <1>1, <1>3, <1>4, <1>5 DEF CheckOwes
<1>. QED BY <1>1, <1>6 DEF Counted

\* The check accepts when all calls are made.
LEMMA AcceptCounts ==
    ASSUME SInv, Counted, Accept, UNCHANGED call
    PROVE  Counted'
<1>1. /\ step = "check" /\ step' = "create" /\ CheckOwes /\ calls \in Nat
      /\ stack = <<>> /\ starts = {}
      /\ UNCHANGED <<vars, starts, calls, text>>
      BY DEF SInv, Accept, Counted, call, locals
<1>2. PICK n \in Nat : /\ Owed(WaysUp, <<>>, Total(WaysUp, {}), n)
                       /\ calls + n = Total(WaysUp, Refs(text))
      BY <1>1 DEF CheckOwes
<1>3. n = 0
      <2>1. Total(WaysUp, {}) = 0
            BY FS_EmptySet, TotalAdds
      <2>. QED BY <1>2, <2>1, OwedAtLast
<1>4. WaysUp' = WaysUp
      BY <1>1, WaysUpStay DEF vars
<1>. QED BY <1>1, <1>2, <1>3, <1>4 DEF Counted

\* What InvalidateCache walks over, and how far it has come.
LEMMA UnwindNow ==
    ASSUME SInv, step \in {"invalidate", "unwind"}
    PROVE  /\ dependents \in [Addr -> SUBSET Addr] /\ cells[target] \in Addr
           /\ Reached \in SUBSET Addr /\ IsClosed(Reached, dependents)
           /\ cells[target] \in Reached
           /\ step = "unwind" =>
                 /\ stack \in Seq(CallOn(Addr))
                 /\ \A i \in 1..Len(stack) : stack[i].todo \subseteq Reached
                 /\ stack = <<>> => IsFinished(Reached, dependents)
<1>. DEFINE root == cells[target]
<1>1. PICK fresh : Storing(fresh)
      BY DEF SInv
<1>2. target \in Pos
      BY TargetInTable DEF SInv, TextAccepted
<1>3. root \in Addr
      BY <1>1, <1>2, NullAssumption DEF Storing, Live, Occupied
<1>4. dependents \in [Addr -> SUBSET Addr]
      <2>1. dependents = LinksWith(fresh) /\ Table!DependentsWith(fresh) \in [Addr -> SUBSET Addr]
            BY <1>1 DEF Storing
      <2>2. Table!CellsWith(fresh)[target] \in Addr
            BY <1>1, <1>3 DEF Storing
      <2>. QED BY <2>1, <2>2 DEF LinksWith, UpdatedDependencies
<1>5. Reached \in SUBSET Addr /\ IsClosed(Reached, dependents) /\ root \in Reached
      BY <1>3, <1>4, ReachableIsClosed DEF Reached
<1>6. ASSUME step = "unwind"
      PROVE  /\ stack \in Seq(CallOn(Addr))
             /\ \A i \in 1..Len(stack) : stack[i].todo \subseteq Reached
             /\ stack = <<>> => IsFinished(Reached, dependents)
      <2>1. PICK done : Unwinding(dependents, root, done, stack)
            BY <1>1, <1>6 DEF Storing, Resetting
      <2>2. \A i \in 1..Len(stack) : stack[i].todo \subseteq Reached
            BY <1>5, <2>1 DEF Unwinding, UnwindingAt, IsClosed, Reached
      <2>3. ASSUME stack = <<>> PROVE IsFinished(Reached, dependents)
            <3>1. done = Reached
                  <4>. HIDE DEF root
                  <4>1. done = ReachableFrom({root}, dependents)
                        BY <1>3, <1>4, <2>1, <2>3, UnwindEnds
                  <4>. QED BY <4>1 DEF Reached, root
            <3>. QED BY <2>1, <3>1 DEF Unwinding
      <2>. QED BY <2>1, <2>2, <2>3 DEF Unwinding
<1>. QED BY <1>3, <1>4, <1>5, <1>6

\* The sums of the walk down are over finite sets of cells.
LEMMA DownSums ==
    ASSUME NEW R \in SUBSET Addr, NEW w, Counts(w, R, dependents), NEW S \in SUBSET R
    PROVE  /\ IsFiniteSet(S) /\ Total(w, S) \in Nat
           /\ \A a \in S : w[a] \in Nat /\ Total(w, S) = w[a] + Total(w, S \ {a})
<1>1. IsFiniteSet(S) /\ \A a \in S : w[a] \in Nat
      BY StackAssumption, FS_Subset DEF Counts
<1>. QED BY <1>1, TotalAdds

\* The first call, on the written cell.
LEMMA BeginCounts ==
    ASSUME SInv, Counted, BeginInvalidation, UNCHANGED call
    PROVE  Counted'
<1>. DEFINE root == cells[target]
            e == [cell |-> root, todo |-> dependents[root]]
<1>1. step = "invalidate" /\ calls = 0 /\ InvalidateCache(root, <<>>) /\ UNCHANGED target
      BY DEF BeginInvalidation, Counted, call
<1>2. CASE \E crash : CrashWith(crash)
      BY <1>1, <1>2 DEF Counted, CrashWith, locals
<1>3. CASE /\ step' = "unwind" /\ stack' = Append(<<>>, e) /\ calls' = 0 + 1
           /\ UNCHANGED <<cells, dependents>>
      <2>1. Reached' = Reached
            BY <1>1, <1>3 DEF Reached
      <2>2. ASSUME NEW w, Counts(w, Reached, dependents)
            PROVE  \E n \in Nat : Owed(w, stack', 0, n) /\ calls' + n = w[root]
            <3>1. /\ Reached \in SUBSET Addr /\ IsClosed(Reached, dependents) /\ root \in Reached
                  /\ dependents \in [Addr -> SUBSET Addr] /\ root \in Addr
                  BY <1>1, UnwindNow
            <3>. DEFINE in == Total(w, dependents[root])
            <3>2. in \in Nat /\ w[root] = 1 + in
                  <4>1. dependents[root] \in SUBSET Reached
                        BY <3>1 DEF IsClosed
                  <4>2. in \in Nat
                        BY <2>2, <3>1, <4>1, DownSums
                  <4>. QED BY <2>2, <3>1, <4>2 DEF Counts
            <3>3. e \in CallOn(Addr) /\ e.todo = dependents[root] /\ <<>> \in Seq(CallOn(Addr))
                  BY <3>1, EmptySeq DEF CallOn
            <3>4. Owed(w, <<>>, 0, 0)
                  BY OwedAtFirst
            <3>. HIDE DEF e
            <3>5. Owed(w, stack', 0, 0 + in)
                  BY <1>3, <3>2, <3>3, <3>4, OwedByCall
            <3>6. 0 + in \in Nat /\ calls' + (0 + in) = w[root]
                  <4>. HIDE DEF in
                  <4>. QED BY <1>3, <3>2
            <3>. QED BY <3>5, <3>6
      <2>3. UnwindOwes'
            BY <1>1, <1>3, <2>1, <2>2 DEF UnwindOwes
      <2>. QED BY <1>3, <2>3 DEF Counted
<1>. QED BY <1>1, <1>2, <1>3 DEF InvalidateCache

\* A call on a dependent leaves what was owed for it, less the call itself.
LEMMA DescendCounts ==
    ASSUME SInv, Counted, NEW b \in Addr, Descend(b), UNCHANGED call
    PROVE  Counted'
<1>. DEFINE root == cells[target]
            e == [cell |-> b, todo |-> dependents[b]]
            todo == Last(stack).todo
            mid == After(stack, b)
<1>1. /\ step = "unwind" /\ UnwindOwes /\ calls \in Nat
      /\ stack # <<>> /\ b \in todo /\ Advanced(b) = mid
      /\ InvalidateCache(b, Advanced(b)) /\ UNCHANGED target
      BY DEF Descend, Counted, call, Top, Advanced, After
<1>2. /\ Reached \in SUBSET Addr /\ IsClosed(Reached, dependents)
      /\ dependents \in [Addr -> SUBSET Addr] /\ stack \in Seq(CallOn(Addr))
      /\ todo \in SUBSET Reached
      <2>1. /\ Reached \in SUBSET Addr /\ IsClosed(Reached, dependents)
            /\ dependents \in [Addr -> SUBSET Addr] /\ stack \in Seq(CallOn(Addr))
            /\ \A i \in 1..Len(stack) : stack[i].todo \subseteq Reached
            BY <1>1, UnwindNow
      <2>2. Len(stack) \in 1..Len(stack)
            BY <1>1, <2>1, EmptySeq, LenProperties
      <2>. QED BY <2>1, <2>2 DEF Last
<1>3. CASE \E crash : CrashWith(crash)
      BY <1>1, <1>3 DEF Counted, CrashWith, locals
<1>4. CASE /\ step' = "unwind" /\ stack' = Append(mid, e) /\ calls' = calls + 1
           /\ UNCHANGED <<cells, dependents>>
      <2>1. Reached' = Reached
            BY <1>1, <1>4 DEF Reached
      <2>2. ASSUME NEW w, Counts(w, Reached, dependents)
            PROVE  \E n \in Nat : Owed(w, stack', 0, n) /\ calls' + n = w[root]
            <3>. DEFINE in == Total(w, dependents[b])
            <3>1. PICK n \in Nat : Owed(w, stack, 0, n) /\ calls + n = w[root]
                  BY <1>1, <2>2 DEF UnwindOwes
            <3>2. in \in Nat /\ w[b] = 1 + in
                  <4>1. dependents[b] \in SUBSET Reached /\ b \in Reached
                        BY <1>1, <1>2 DEF IsClosed
                  <4>2. in \in Nat
                        BY <1>2, <2>2, <4>1, DownSums
                  <4>. QED BY <2>2, <4>1, <4>2 DEF Counts
            <3>. DEFINE m == n - w[b]
            <3>3. m \in Nat /\ Owed(w, mid, 0, m)
                  <4>1. IsFiniteSet(todo) /\ \A a \in todo : w[a] \in Nat
                        BY <1>2, <2>2, DownSums
                  <4>. HIDE DEF mid, todo
                  <4>. USE DEF mid
                  <4>. QED BY <1>1, <1>2, <3>1, <4>1, OwedAdvances DEF todo
            <3>4. mid \in Seq(CallOn(Addr))
                  BY <1>1, <1>2, StackAdvances
            <3>5. e \in CallOn(Addr) /\ e.todo = dependents[b]
                  BY <1>2 DEF CallOn
            <3>. HIDE DEF e, m, mid
            <3>6. Owed(w, stack', 0, m + in)
                  BY <1>4, <3>2, <3>3, <3>4, <3>5, OwedByCall
            <3>7. m + in \in Nat /\ calls' + (m + in) = w[root]
                  <4>. HIDE DEF in
                  <4>. QED BY <1>1, <1>4, <3>1, <3>2, <3>3 DEF m
            <3>. QED BY <3>6, <3>7
      <2>3. UnwindOwes'
            BY <1>1, <1>4, <2>1, <2>2 DEF UnwindOwes
      <2>4. calls' \in Nat
            BY <1>1, <1>4
      <2>. QED BY <1>4, <2>3, <2>4 DEF Counted
<1>. QED BY <1>1, <1>3, <1>4 DEF InvalidateCache

\* InvalidateCache returns once it owes nothing.
LEMMA ReturnInvalidatedCounts ==
    ASSUME SInv, Counted, ReturnInvalidated, UNCHANGED call
    PROVE  Counted'
<1>1. /\ step = "unwind" /\ UnwindOwes /\ calls \in Nat
      /\ stack # <<>> /\ Last(stack).todo = {} /\ stack' = Front(stack)
      /\ UNCHANGED <<cells, dependents, step, calls, target>>
      BY DEF ReturnInvalidated, Counted, call, Top, vars
<1>2. stack \in Seq(CallOn(Addr))
      BY <1>1, UnwindNow
<1>3. Reached' = Reached
      BY <1>1 DEF Reached
<1>4. ASSUME NEW w, Counts(w, Reached, dependents)
      PROVE  \E n \in Nat : Owed(w, stack', 0, n) /\ calls' + n = w[cells[target]]
      <2>1. PICK n \in Nat : Owed(w, stack, 0, n) /\ calls + n = w[cells[target]]
            BY <1>1, <1>4 DEF UnwindOwes
      <2>2. Owed(w, Front(stack), 0, n)
            BY <1>1, <1>2, <2>1, OwedReturns
      <2>. QED BY <1>1, <2>1, <2>2
<1>5. UnwindOwes'
      BY <1>1, <1>3, <1>4 DEF UnwindOwes
<1>. QED BY <1>1, <1>5 DEF Counted

\* A walk under way never makes more calls than there are ways, and makes them all.
LEMMA StepCounts ==
    ASSUME SInv, Counted, [Step]_allVars
    PROVE  Counted'
<1>1. CASE UNCHANGED allVars
      <2>1. UNCHANGED <<cells, impl, dependents, target, text, step, starts, stack, calls>>
            BY <1>1 DEF allVars, vars, call, locals
      <2>2. WaysUp' = WaysUp /\ Reached' = Reached
            BY <2>1, WaysUpStay DEF Reached
      <2>. QED BY <2>1, <2>2 DEF Counted, CheckOwes, UnwindOwes
<1>2. CASE CreateCells \/ SetImpl \/ Relink \/ Resize
      <2>1. step' \in {"set", "relink", "invalidate", "returned"}
            BY <1>2 DEF CreateCells, SetImpl, Relink, Resize
      <2>2. (step' = "invalidate" => calls' = 0) /\ calls' \in Nat
            BY <1>2 DEF CreateCells, SetImpl, Relink, Resize, locals, Counted
      <2>. QED BY <2>1, <2>2 DEF Counted
<1>3. CASE /\ UNCHANGED call
           /\ \/ Parse
              \/ \E p \in Pos : StartFrom(p) \/ Follow(p)
              \/ ReturnFalse \/ Accept
              \/ BeginInvalidation \/ ReturnInvalidated \/ \E a \in Addr : Descend(a)
      BY <1>3, ParseCounts, StartFromCounts, FollowCounts, ReturnFalseCounts, AcceptCounts,
         BeginCounts, DescendCounts, ReturnInvalidatedCounts
<1>. QED BY <1>1, <1>2, <1>3 DEF Step

\* Whatever the table: has_cycle, and InvalidateCache where it returns, is called once
\* for every way along the edges from where the walk starts, and not once for every
\* cell.
THEOREM CallsAreWays == StepsSpec => []OneCallPerWay
<1>1. StepsInit => SInv /\ Counted
      <2>1. StepsInit => Counted
            BY DEF StepsInit, Counted
      <2>. QED BY <2>1, StepsInitInv
<1>2. SInv /\ Counted /\ [Step]_allVars => SInv' /\ Counted'
      BY StepMapped, StepCounts
<1>3. SInv /\ Counted => OneCallPerWay
      <2>1. SUFFICES ASSUME SInv, Counted PROVE OneCallPerWay
            OBVIOUS
      <2>2. ASSUME step = "unwind", stack = <<>> PROVE calls = WaysDown[cells[target]]
            <3>1. /\ dependents \in [Addr -> SUBSET Addr] /\ cells[target] \in Addr
                  /\ IsFinished(Reached, dependents)
                  BY <2>1, <2>2, UnwindNow
            <3>2. Counts(WaysDown, Reached, dependents)
                  BY <3>1, WaysDownCounts DEF Reached
            <3>3. PICK n \in Nat : Owed(WaysDown, <<>>, 0, n) /\ calls + n = WaysDown[cells[target]]
                  BY <2>1, <2>2, <3>2 DEF Counted, UnwindOwes
            <3>4. n = 0
                  BY <3>3, OwedAtLast
            <3>. QED BY <2>1, <3>3, <3>4 DEF Counted
      <2>. QED BY <2>1, <2>2 DEF Counted, OneCallPerWay
<1>. QED BY <1>1, <1>2, <1>3, PTL DEF StepsSpec
===========================================================================
