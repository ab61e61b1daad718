-------------------------- MODULE MCSetCellSteps --------------------------
(***************************************************************************)
(* SetCellSteps on every acyclic table of three cells whose formulas have  *)
(* one or two references, with a fourth block that is free or was freed.   *)
(* A formula is its set of references; its value plays no part here.       *)
(***************************************************************************)
EXTENDS SetCellSteps

CONSTANTS x1, x2, x3

\* Three columns, the cell of each at a block of its own.
Block == (<<0, 0>> :> x1) @@ (<<0, 1>> :> x2) @@ (<<0, 2>> :> x3)

MCLayouts == {[p \in Pos |-> IF p \in occ THEN Block[p] ELSE Null] : occ \in SUBSET Pos}

MCArgPos == Pos \cup {<<0, 3>>}

\* No link, one, or two with an end in common: a cleared formula leaves the links
\* from both cells it referenced, and a cell that is cleared and created again has
\* lost the links to all that reference it.
MCWrongLinks == LET links == {l \in Addr \X Addr : l[1] # l[2]}
                IN {wrong \in SUBSET links : /\ Cardinality(wrong) <= 2
                                             /\ \A l, k \in wrong : l[1] = k[1] \/ l[2] = k[2]}

MCFormulaText == {{p, q} : p, q \in Pos}

MCRefsOf(refs) == refs
MCTextValue(t) == 0
MCEvaluate(refs, v) == 0
MCReads(refs, v) == {}
===========================================================================
