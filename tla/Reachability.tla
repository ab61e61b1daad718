--------------------------- MODULE Reachability ---------------------------
(***************************************************************************)
(* Directed graphs given by their successor function, next \in             *)
(* [Node -> SUBSET Node].  The spreadsheet keeps two of them: the          *)
(* references of the formulas (a position to the positions its formula     *)
(* reads) and the dependents_ sets (a cell to the cells to invalidate      *)
(* after it).  The code walks both by recursion; the operators below say   *)
(* what those walks reach, without recursion, so that they can be used in  *)
(* proofs.                                                                 *)
(***************************************************************************)

\* S is closed: no edge leaves it.
IsClosed(S, next) == \A x \in S : next[x] \subseteq S

\* The nodes a walk that starts at every node of R reaches, R included: the
\* smallest closed set that contains R.
ReachableFrom(R, next) ==
    {x \in DOMAIN next :
        \A S \in SUBSET DOMAIN next : R \subseteq S /\ IsClosed(S, next) => x \in S}

\* A walk that leaves x comes back to x.
OnCycle(x, next) == x \in ReachableFrom(next[x], next)

\* Every nonempty set of nodes has a node with no edge into the set: on a
\* finite graph this is the absence of cycles, and it is the form of it that
\* carries an induction.
IsAcyclic(next) ==
    \A S \in SUBSET DOMAIN next : S # {} => \E x \in S : next[x] \cap S = {}
===========================================================================
