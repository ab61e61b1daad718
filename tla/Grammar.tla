------------------------------ MODULE Grammar -----------------------------
(***************************************************************************)
(* The rule expr of Formula.g4: what it derives from a sequence of tokens. *)
(* A token is a record of its kind and its characters.  Where the rule can *)
(* derive a text in several ways, the order of its alternatives decides:   *)
(* an earlier one binds tighter than those after it, and the operators of  *)
(* one alternative associate to the left.                                  *)
(*                                                                         *)
(* A tree is                                                               *)
(*    <<"CELL", chars>>, <<"NUMBER", chars>>    a CellExpr, a NumberExpr   *)
(*    <<"unary", op, operand>>                  a UnaryOpExpr              *)
(*    <<"binary", op, left, right>>             a BinaryOpExpr             *)
(***************************************************************************)
EXTENDS Integers, Sequences

Operator == {"+", "-", "*", "/"}
AddSub   == {"+", "-"}
MulDiv   == {"*", "/"}
Bracket  == {"(", ")"}

\* The token of an operator or a bracket, and the one behind the last.
Symbol(c) == [kind |-> c, chars |-> <<c>>]
EOF == [kind |-> "EOF", chars |-> <<>>]

Priority(op) == IF op \in AddSub THEN 3 ELSE 4

\* A tree, with the first and the last of the tokens that are read as it, and the
\* priority of what is at its root.
Item(first, last, tree, p) == [first |-> first, last |-> last, tree |-> tree, p |-> p]

\* What the rule derives from one token of ts, from one item x and from two.  The
\* operand of a sign is not a binary operation, and the operands of one bind no
\* less than it does, the right one more.
IsLeaf(ts, i) == ts[i].kind \in {"CELL", "NUMBER"}
LeafAt(ts, i) == Item(i, i, <<ts[i].kind, ts[i].chars>>, 6)

IsBracketed(ts, x) == x.first > 1 /\ ts[x.first - 1].kind = "(" /\ ts[x.last + 1].kind = ")"
Bracketed(x) == Item(x.first - 1, x.last + 1, x.tree, 6)

IsSigned(ts, x) == x.first > 1 /\ ts[x.first - 1].kind \in AddSub /\ x.p >= 5
Signed(ts, x) == Item(x.first - 1, x.last, <<"unary", ts[x.first - 1].kind, x.tree>>, 5)

\* Faulty variant: operators of one priority associate to the right.
AreJoinedToTheRight(ts, x, y) ==
    LET op == ts[x.last + 1].kind
    IN /\ y.first = x.last + 2
       /\ op \in Operator
       /\ x.p > Priority(op) /\ y.p >= Priority(op)

AreJoined(ts, x, y) == LET op == ts[x.last + 1].kind
                       IN /\ y.first = x.last + 2
                          /\ op \in Operator
                          /\ x.p >= Priority(op) /\ y.p > Priority(op)
Joined(ts, x, y) == LET op == ts[x.last + 1].kind
                    IN Item(x.first, y.last, <<"binary", op, x.tree, y.tree>>, Priority(op))

\* All that the rule derives from the tokens i to j of ts, as a function of <<i, j>>.
Items(ts) ==
    LET items[s \in (1..Len(ts)) \X (0..Len(ts))] ==
            LET i == s[1]
                j == s[2]
                enclosed == IF ts[i].kind = "(" /\ ts[j].kind = ")" THEN items[<<i + 1, j - 1>>] ELSE {}
                operands == IF ts[i].kind \in AddSub THEN items[<<i + 1, j>>] ELSE {}
                splits == {k \in i+1..j-1 : ts[k].kind \in Operator}
                pairs == UNION {items[<<i, k - 1>>] \X items[<<k + 1, j>>] : k \in splits}
            IN IF i >= j THEN {LeafAt(ts, k) : k \in {k \in i..j : IsLeaf(ts, k)}}
               ELSE {Bracketed(x) : x \in {x \in enclosed : IsBracketed(ts, x)}}
                    \cup {Signed(ts, x) : x \in {x \in operands : IsSigned(ts, x)}}
                    \cup {Joined(ts, z[1], z[2]) : z \in {z \in pairs : AreJoined(ts, z[1], z[2])}}
    IN items

\* The items of all tokens of ts but the last.
Whole(ts) == Items(ts)[<<1, Len(ts) - 1>>]
===========================================================================
