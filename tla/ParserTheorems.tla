--------------------------- MODULE ParserTheorems -------------------------
(***************************************************************************)
(* For every set of texts, and whatever cells and numbers are refused: the *)
(* tree the parser hands over is a postorder, so that the listener finds   *)
(* on its stack the operands each operator takes, and one expression in    *)
(* the end; and a text is parsed exactly if the rules of Formula.g4 derive *)
(* it and its leaves are allowed, to the one tree they derive.             *)
(***************************************************************************)
EXTENDS FormulaParser, GeneralTheorems, SequenceTheorems

Kind == Operator \cup Bracket \cup {"CELL", "NUMBER", "EOF", "error", "none"}

\* All of these are strings, the last two of which the provers do not see it.
Character == STRING \cup Operator \cup Bracket

Token == [kind : Kind, chars : Seq(Character)]

Frame == [for : [kind : {"main", "parens", "unary", "binary"}, op : Operator \cup {"none"}],
          p : Nat]

Leaf == [kind : {"CELL", "NUMBER"}, chars : Seq(Character)]

Branch == [kind : {"unary", "binary"}, op : Operator \cup {"none"}]

Node == Leaf \cup Branch

---------------------------------------------------------------------------
(***************************************************************************)
(* Tokens.                                                                 *)
(***************************************************************************)

\* The characters of a text are characters of a token.
LEMMA TextOfToken == \A s \in Seq(STRING) : s \in Seq(Character)
<1>1. STRING \subseteq Character
      BY DEF Character
<1>. QED BY ONLY <1>1, SeqMonotonic

LEMMA SymbolType == \A c \in Operator \cup Bracket : Symbol(c) \in Token
<1>1. SUFFICES ASSUME NEW c \in Operator \cup Bracket PROVE Symbol(c) \in Token
      OBVIOUS
<1>2. c \in Character /\ c \in Kind
      BY DEF Character, Kind
<1>3. <<c>> \in Seq(Character)
      BY <1>2
<1>. QED BY <1>2, <1>3 DEF Symbol, Token

\* A part of a text is one.
LEMMA PartOfText ==
    ASSUME NEW s \in Seq(STRING), NEW i \in Nat \ {0}, NEW j \in 0..Len(s)
    PROVE  SubSeq(s, i, j) \in Seq(STRING)
BY LenProperties

\* The length of the rest of a text.
LEMMA RestLength ==
    ASSUME NEW s \in Seq(STRING), NEW i \in Nat \ {0}, i <= Len(s) + 1
    PROVE  Len(SubSeq(s, i, Len(s))) = Len(s) - i + 1
BY LenProperties

\* The lexer takes its token from the text.
LEMMA FirstTokenType ==
    ASSUME NEW s \in Seq(STRING)
    PROVE  FirstToken(s) \in Token
<1>. DEFINE lengths == {n \in DOMAIN s : NumberToken(SubSeq(s, 1, n)) \/ CellToken(SubSeq(s, 1, n))}
            longest == SubSeq(s, 1, Max(lengths))
<1>1. Len(s) \in Nat /\ DOMAIN s = 1..Len(s)
      BY LenProperties
<1>2. lengths # {} => longest \in Seq(STRING)
      <2>1. SUFFICES ASSUME lengths # {} PROVE longest \in Seq(STRING)
            OBVIOUS
      <2>2. lengths \in SUBSET (0..Len(s))
            BY <1>1
      <2>. HIDE DEF lengths
      <2>3. Max(lengths) \in 0..Len(s)
            BY <1>1, <2>1, <2>2, MaxOfBounded
      <2>. QED BY <2>3, PartOfText
<1>. HIDE DEF lengths, longest
<1>3. CASE s = <<>>
      <2>1. FirstToken(s) = [kind |-> "EOF", chars |-> <<>>]
            BY <1>3, EmptySeq DEF FirstToken, EOF
      <2>. QED BY <2>1, EmptySeq DEF Token, Kind
<1>4. CASE s # <<>> /\ s[1] \in Operator \cup Bracket
      <2>1. FirstToken(s) = Symbol(s[1])
            BY <1>4 DEF FirstToken
      <2>. QED BY <1>4, <2>1, SymbolType
<1>5. CASE s # <<>> /\ s[1] \notin Operator \cup Bracket /\ lengths = {}
      <2>1. FirstToken(s) = [kind |-> "error", chars |-> s]
            BY <1>5 DEF FirstToken, lengths
      <2>2. s \in Seq(Character)
            BY TextOfToken
      <2>. QED BY <2>1, <2>2 DEF Token, Kind
<1>6. CASE s # <<>> /\ s[1] \notin Operator \cup Bracket /\ lengths # {}
      <2>1. FirstToken(s) = [kind |-> IF CellToken(longest) THEN "CELL" ELSE "NUMBER",
                             chars |-> longest]
            BY <1>6 DEF FirstToken, lengths, longest
      <2>2. longest \in Seq(Character)
            BY <1>2, <1>6, TextOfToken
      <2>. QED BY <2>1, <2>2 DEF Token, Kind
<1>. QED BY <1>3, <1>4, <1>5, <1>6

\* What is left behind the blanks is a part of the text.
LEMMA SkipWhiteType ==
    ASSUME NEW s \in Seq(STRING)
    PROVE  SkipWhite(s) \in Seq(STRING)
<1>. DEFINE solid == {i \in DOMAIN s : s[i] \notin White}
<1>1. Len(s) \in Nat /\ DOMAIN s = 1..Len(s)
      BY LenProperties
<1>2. CASE solid = {}
      BY <1>2, EmptySeq DEF SkipWhite
<1>3. CASE solid # {}
      <2>1. solid \in SUBSET Nat
            BY <1>1
      <2>. HIDE DEF solid
      <2>2. Min(solid) \in solid
            BY <1>3, <2>1, MinOfNaturals
      <2>. USE DEF solid
      <2>3. Min(solid) \in Nat \ {0}
            BY <1>1, <2>2
      <2>4. SkipWhite(s) = SubSeq(s, Min(solid), Len(s))
            BY <1>3 DEF SkipWhite
      <2>. HIDE DEF solid
      <2>. QED BY <1>1, <2>3, <2>4, PartOfText
<1>. QED BY <1>2, <1>3

\* The parser goes on to a token of the text.
LEMMA ConsumeType ==
    ASSUME rest \in Seq(STRING), Consume
    PROVE  token' \in Token /\ rest' \in Seq(STRING)
<1>. DEFINE solid == SkipWhite(rest)
<1>1. /\ token' = FirstToken(solid)
      /\ rest' = SubSeq(solid, Len(token'.chars) + 1, Len(solid))
      BY DEF Consume, Lex
<1>2. solid \in Seq(STRING)
      BY SkipWhiteType
<1>. HIDE DEF solid
<1>3. token' \in Token
      BY <1>1, <1>2, FirstTokenType
<1>4. Len(token'.chars) + 1 \in Nat \ {0} /\ Len(solid) \in 0..Len(solid)
      <2>1. token'.chars \in Seq(Character)
            BY <1>3 DEF Token
      <2>. QED BY <1>2, <2>1, LenProperties
<1>. QED BY <1>1, <1>2, <1>3, <1>4, PartOfText

---------------------------------------------------------------------------
(***************************************************************************)
(* Postorders.                                                             *)
(***************************************************************************)

\* The nodes of s, walked with from operands on the stack, leave to of them there,
\* and each finds the operands it takes: height tells how many there are.
Leaves(height, s, from, to) ==
    /\ height \in [0..Len(s) -> Nat]
    /\ height[0] = from
    /\ height[Len(s)] = to
    /\ \A i \in 1..Len(s) :
          \/ s[i].kind \in {"CELL", "NUMBER"} /\ height[i] = height[i-1] + 1
          \/ s[i].kind = "unary" /\ height[i-1] >= 1 /\ height[i] = height[i-1]
          \/ s[i].kind = "binary" /\ height[i-1] >= 2 /\ height[i] = height[i-1] - 1

Postorder(s, from, to) == \E height \in [0..Len(s) -> Nat] : Leaves(height, s, from, to)

\* How many operators of calls wait for an operand on the right: each holds the one
\* on its left.
Holds(held, calls) ==
    /\ held \in [0..Len(calls) -> Nat]
    /\ held[0] = 0
    /\ \A i \in 1..Len(calls) :
          held[i] = IF calls[i].for.kind = "binary" THEN held[i-1] + 1 ELSE held[i-1]

Holding(calls, n) == \E held \in [0..Len(calls) -> Nat] : Holds(held, calls) /\ held[Len(calls)] = n

\* A postorder goes on with a node that finds its operands.
LEMMA NodeAppended ==
    ASSUME NEW s \in Seq(Node), NEW from \in Nat, NEW to \in Nat, Postorder(s, from, to),
           NEW node \in Node, NEW then \in Nat,
           \/ node.kind \in {"CELL", "NUMBER"} /\ then = to + 1
           \/ node.kind = "unary" /\ to >= 1 /\ then = to
           \/ node.kind = "binary" /\ to >= 2 /\ then = to - 1
    PROVE  Append(s, node) \in Seq(Node) /\ Postorder(Append(s, node), from, then)
<1>. DEFINE n == Len(s)
            t == Append(s, node)
<1>1. PICK height \in [0..n -> Nat] : Leaves(height, s, from, to)
      BY DEF Postorder
<1>. DEFINE longer == [i \in 0..n+1 |-> IF i = n + 1 THEN then ELSE height[i]]
<1>2. /\ n \in Nat /\ t \in Seq(Node) /\ Len(t) = n + 1
      /\ \A i \in 1..n : t[i] = s[i]
      /\ t[n+1] = node
      BY AppendProperties, LenProperties
<1>. HIDE DEF t, n
<1>3. longer \in [0..Len(t) -> Nat]
      BY <1>2
<1>4. longer[0] = from /\ longer[Len(t)] = then /\ longer[n] = to /\ longer[n+1] = then
      BY <1>1, <1>2 DEF Leaves, n
<1>5. ASSUME NEW i \in 1..Len(t)
      PROVE  \/ t[i].kind \in {"CELL", "NUMBER"} /\ longer[i] = longer[i-1] + 1
             \/ t[i].kind = "unary" /\ longer[i-1] >= 1 /\ longer[i] = longer[i-1]
             \/ t[i].kind = "binary" /\ longer[i-1] >= 2 /\ longer[i] = longer[i-1] - 1
      <2>1. CASE i = n + 1
            BY <1>2, <1>4, <2>1
      <2>2. CASE i # n + 1
            <3>1. i \in 1..n /\ longer[i] = height[i] /\ longer[i-1] = height[i-1] /\ t[i] = s[i]
                  BY <1>2, <2>2
            <3>. QED BY <1>1, <3>1 DEF Leaves, n
      <2>. QED BY <2>1, <2>2
<1>. HIDE DEF longer
<1>6. Leaves(longer, t, from, then)
      BY <1>3, <1>4, <1>5 DEF Leaves
<1>. QED BY <1>2, <1>3, <1>6 DEF Postorder, t

\* The first node of a postorder finds its operands, and the others go on from
\* what it leaves.
LEMMA NodeTaken ==
    ASSUME NEW s \in Seq(Node), NEW from \in Nat, NEW to \in Nat, Postorder(s, from, to),
           s # <<>>
    PROVE  /\ Tail(s) \in Seq(Node) /\ Head(s) \in Node
           /\ \/ Head(s).kind \in {"CELL", "NUMBER"} /\ Postorder(Tail(s), from + 1, to)
              \/ Head(s).kind = "unary" /\ from >= 1 /\ Postorder(Tail(s), from, to)
              \/ Head(s).kind = "binary" /\ from >= 2 /\ Postorder(Tail(s), from - 1, to)
<1>. DEFINE n == Len(s)
            t == Tail(s)
<1>1. PICK height \in [0..n -> Nat] : Leaves(height, s, from, to)
      BY DEF Postorder
<1>. DEFINE later == [i \in 0..n-1 |-> height[i+1]]
<1>2. /\ n \in Nat \ {0} /\ t \in Seq(Node) /\ Len(t) = n - 1 /\ Head(s) \in Node
      /\ Head(s) = s[1]
      /\ \A i \in 1..n-1 : t[i] = s[i+1]
      <2>1. Len(s) \in Nat \ {0}
            BY EmptySeq
      <2>2. Head(s) = s[1]
            OBVIOUS
      <2>3. /\ Tail(s) \in Seq(Node) /\ Len(Tail(s)) = Len(s) - 1 /\ Head(s) \in Node
            /\ \A i \in 1..Len(Tail(s)) : Tail(s)[i] = s[i+1]
            BY HeadTailProperties
      <2>. QED BY <2>1, <2>2, <2>3
<1>. HIDE DEF t, n
<1>3. later \in [0..Len(t) -> Nat]
      BY <1>2
<1>4. /\ height[0] = from /\ later[0] = height[1] /\ later[Len(t)] = to
      BY <1>1, <1>2 DEF Leaves, n
<1>5. ASSUME NEW i \in 1..Len(t)
      PROVE  \/ t[i].kind \in {"CELL", "NUMBER"} /\ later[i] = later[i-1] + 1
             \/ t[i].kind = "unary" /\ later[i-1] >= 1 /\ later[i] = later[i-1]
             \/ t[i].kind = "binary" /\ later[i-1] >= 2 /\ later[i] = later[i-1] - 1
      <2>1. i + 1 \in 1..n /\ later[i] = height[i+1] /\ later[i-1] = height[i+1-1] /\ t[i] = s[i+1]
            BY <1>2
      <2>. QED BY <1>1, <2>1 DEF Leaves, n
<1>. HIDE DEF later
<1>6. Postorder(t, height[1], to)
      BY <1>3, <1>4, <1>5 DEF Leaves, Postorder
<1>7. \/ s[1].kind \in {"CELL", "NUMBER"} /\ height[1] = from + 1
      \/ s[1].kind = "unary" /\ from >= 1 /\ height[1] = from
      \/ s[1].kind = "binary" /\ from >= 2 /\ height[1] = from - 1
      <2>1. 1 \in 1..n /\ 1 - 1 = 0
            BY <1>2
      <2>. QED BY <1>1, <1>4, <2>1 DEF Leaves, n
<1>. QED BY <1>2, <1>6, <1>7 DEF t

\* One more call, and one less.
LEMMA CallAdded ==
    ASSUME NEW calls \in Seq(Frame), NEW n \in Nat, Holding(calls, n), NEW f \in Frame
    PROVE  /\ Append(calls, f) \in Seq(Frame)
           /\ Holding(Append(calls, f), IF f.for.kind = "binary" THEN n + 1 ELSE n)
<1>. DEFINE l == Len(calls)
            longer == Append(calls, f)
            to == IF f.for.kind = "binary" THEN n + 1 ELSE n
<1>1. PICK held \in [0..l -> Nat] : Holds(held, calls) /\ held[l] = n
      BY DEF Holding
<1>. DEFINE more == [i \in 0..l+1 |-> IF i = l + 1 THEN to ELSE held[i]]
<1>2. /\ l \in Nat /\ longer \in Seq(Frame) /\ Len(longer) = l + 1
      /\ \A i \in 1..l : longer[i] = calls[i]
      /\ longer[l+1] = f
      BY AppendProperties, LenProperties
<1>. HIDE DEF longer, l
<1>3. more \in [0..Len(longer) -> Nat]
      BY <1>2
<1>4. more[0] = 0 /\ more[l] = n /\ more[Len(longer)] = to /\ more[l+1] = to
      BY <1>1, <1>2 DEF Holds
<1>5. ASSUME NEW i \in 1..Len(longer)
      PROVE  more[i] = IF longer[i].for.kind = "binary" THEN more[i-1] + 1 ELSE more[i-1]
      <2>1. CASE i = l + 1
            BY <1>2, <1>4, <2>1
      <2>2. CASE i # l + 1
            <3>1. i \in 1..l /\ more[i] = held[i] /\ more[i-1] = held[i-1] /\ longer[i] = calls[i]
                  BY <1>2, <2>2
            <3>. QED BY <1>1, <3>1 DEF Holds, l
      <2>. QED BY <2>1, <2>2
<1>. HIDE DEF more
<1>. QED BY <1>2, <1>3, <1>4, <1>5 DEF Holding, Holds, longer

\* The innermost call returns, and the operator it was for waits no more.
LEMMA CallRemoved ==
    ASSUME NEW calls \in Seq(Frame), calls # <<>>, NEW n \in Nat, Holding(calls, n)
    PROVE  /\ Last(calls) \in Frame /\ Last(calls) = calls[Len(calls)]
           /\ Front(calls) \in Seq(Frame) /\ Len(Front(calls)) = Len(calls) - 1
           /\ \A i \in 1..Len(calls)-1 : Front(calls)[i] = calls[i]
           /\ IF Last(calls).for.kind = "binary"
              THEN n >= 1 /\ Holding(Front(calls), n - 1)
              ELSE Holding(Front(calls), n)
<1>. DEFINE l == Len(calls)
            front == Front(calls)
<1>1. PICK held \in [0..l -> Nat] : Holds(held, calls) /\ held[l] = n
      BY DEF Holding
<1>. DEFINE less == [i \in 0..l-1 |-> held[i]]
<1>2. l \in Nat \ {0} /\ Last(calls) = calls[l] /\ Last(calls) \in Frame
      BY EmptySeq, ElementOfSeq DEF Last
<1>3. /\ front \in Seq(Frame) /\ Len(front) = l - 1
      /\ \A i \in 1..l-1 : front[i] = calls[i]
      <2>1. \A i \in 1..l-1 : calls[i] \in Frame
            BY <1>2, ElementOfSeq
      <2>2. front = SubSeq(calls, 1, l-1)
            BY DEF Front
      <2>. HIDE DEF l
      <2>. QED BY <1>2, <2>1, <2>2, SubSeqProperties
<1>. HIDE DEF front, l
<1>4. less \in [0..Len(front) -> Nat] /\ less[0] = 0 /\ less[Len(front)] = held[l-1]
      BY <1>1, <1>2, <1>3 DEF Holds, l
<1>5. ASSUME NEW i \in 1..Len(front)
      PROVE  less[i] = IF front[i].for.kind = "binary" THEN less[i-1] + 1 ELSE less[i-1]
      <2>1. i \in 1..l /\ less[i] = held[i] /\ less[i-1] = held[i-1] /\ front[i] = calls[i]
            BY <1>2, <1>3
      <2>. QED BY <1>1, <2>1 DEF Holds, l
<1>. HIDE DEF less
<1>6. Holding(front, held[l-1])
      BY <1>3, <1>4, <1>5 DEF Holding, Holds
<1>7. n = (IF Last(calls).for.kind = "binary" THEN held[l-1] + 1 ELSE held[l-1]) /\ held[l-1] \in Nat
      <2>1. l \in 1..l /\ l - 1 \in 0..l
            BY <1>2
      <2>. QED BY <1>1, <1>2, <2>1 DEF Holds, l
<1>. QED BY <1>2, <1>3, <1>6, <1>7 DEF front, l

---------------------------------------------------------------------------
(***************************************************************************)
(* The invariant.                                                          *)
(***************************************************************************)
Phase == {"start", "operand", "operator", "walk", "parsed", "FormulaException"}

\* A call that reads the operand on the right of an operator asks for more than
\* the one that makes it.
Binding(calls) ==
    \A i \in 2..Len(calls) : calls[i].p > calls[i-1].p \/ calls[i].for.kind # "binary"

\* The nodes read so far leave an operand for every operator that waits, and one
\* more behind an operand; those not walked yet make one of what is on the stack.
ParserInv ==
    /\ phase \in Phase
    /\ rest \in Seq(STRING) /\ token \in Token
    /\ exprs \in Seq(Frame) /\ Binding(exprs)
    /\ nodes \in Seq(Node)
    /\ args \in Seq({args[i] : i \in DOMAIN args})
    /\ phase \in {"start", "operand", "operator"} =>
          /\ args = <<>>
          /\ exprs # <<>>
          /\ \A i \in 1..Len(exprs) : exprs[i].for.kind = "main" <=> i = 1
          /\ \E n \in Nat : /\ Holding(exprs, n)
                            /\ Postorder(nodes, 0, IF phase = "operator" THEN n + 1 ELSE n)
    /\ phase = "walk" => Postorder(nodes, Len(args), 1)

\* Nothing is read yet.
LEMMA ParserInitInv == ParserInit => ParserInv
<1>1. SUFFICES ASSUME ParserInit PROVE ParserInv
      OBVIOUS
<1>. DEFINE f == [for |-> [kind |-> "main", op |-> "none"], p |-> 0]
            none == [i \in {0} |-> 0]
<1>2. /\ expression \in Expression /\ phase = "start" /\ rest = expression
      /\ token = [kind |-> "none", chars |-> <<>>]
      /\ exprs = <<f>> /\ nodes = <<>> /\ args = <<>>
      BY <1>1 DEF ParserInit
<1>3. f \in Frame /\ exprs \in Seq(Frame) /\ Len(exprs) = 1 /\ exprs[1] = f
      BY <1>2 DEF Frame
<1>4. rest \in Seq(STRING) /\ token \in Token
      BY <1>2, ExpressionAssumption, EmptySeq DEF Token, Kind
<1>5. Holding(<<>>, 0) /\ Postorder(<<>>, 0, 0)
      <2>1. none \in [0..Len(<<>>) -> Nat] /\ none[0] = 0 /\ Len(<<>>) = 0
            OBVIOUS
      <2>. HIDE DEF none
      <2>. QED BY <2>1 DEF Holding, Holds, Postorder, Leaves
<1>6. Holding(exprs, 0)
      <2>1. Append(<<>>, f) = exprs
            BY <1>2
      <2>2. f.for.kind # "binary"
            OBVIOUS
      <2>3. <<>> \in Seq(Frame)
            BY EmptySeq
      <2>. HIDE DEF f
      <2>. QED BY <1>3, <1>5, <2>1, <2>2, <2>3, CallAdded
<1>7. nodes \in Seq(Node) /\ args \in Seq({args[i] : i \in DOMAIN args})
      BY <1>2, EmptySeq
<1>. QED BY <1>2, <1>3, <1>4, <1>5, <1>6, <1>7 DEF ParserInv, Phase, Binding

---------------------------------------------------------------------------
(***************************************************************************)
(* The steps.                                                              *)
(***************************************************************************)
\* The listener's stack is one while it is left alone.
LEMMA ArgsStay ==
    ASSUME ParserInv, UNCHANGED args
    PROVE  args' \in Seq({args[i] : i \in DOMAIN args})'
BY DEF ParserInv

\* The lexer takes its first token.
LEMMA BeginInv == ASSUME ParserInv, Begin PROVE ParserInv'
<1>1. token' \in Token /\ rest' \in Seq(STRING)
      BY ConsumeType DEF ParserInv, Begin
<1>2. phase = "start" /\ phase' = "operand" /\ UNCHANGED <<exprs, nodes, args>>
      BY DEF Begin
<1>. QED BY <1>1, <1>2, ArgsStay DEF ParserInv, Phase

\* An error ends all.
LEMMA ParsingErrorInv == ASSUME ParserInv, ParsingError PROVE ParserInv'
BY ArgsStay DEF ParserInv, ParsingError, Phase, Binding

\* A leaf is an operand, a bracket or a sign makes a call.
LEMMA ReadOperandInv == ASSUME ParserInv, ReadOperand PROVE ParserInv'
<1>1. phase = "operand"
      BY DEF ReadOperand
<1>2. PICK n \in Nat : Holding(exprs, n) /\ Postorder(nodes, 0, n)
      BY <1>1 DEF ParserInv
<1>3. CASE token.kind \in {"CELL", "NUMBER"}
      <2>1. /\ nodes' = Append(nodes, token) /\ phase' = "operator" /\ Consume
            /\ UNCHANGED <<exprs, args>>
            BY <1>3 DEF ReadOperand, AddSub
      <2>2. token' \in Token /\ rest' \in Seq(STRING)
            BY <2>1, ConsumeType DEF ParserInv
      <2>3. token \in Node
            BY <1>3 DEF ParserInv, Token, Node, Leaf
      <2>4. nodes' \in Seq(Node) /\ Postorder(nodes', 0, n + 1)
            <3>1. nodes \in Seq(Node) /\ 0 \in Nat /\ n + 1 \in Nat
                  BY DEF ParserInv
            <3>. QED BY <1>2, <1>3, <2>1, <2>3, <3>1, NodeAppended
      <2>. QED BY <1>1, <1>2, <2>1, <2>2, <2>4, ArgsStay DEF ParserInv, Phase
<1>4. ASSUME NEW kind \in {"parens", "unary"}, NEW op \in Operator \cup {"none"}, NEW p \in Nat,
             Call(kind, op, p), Consume, UNCHANGED <<phase, nodes, args>>
      PROVE  ParserInv'
      <2>. DEFINE f == [for |-> [kind |-> kind, op |-> op], p |-> p]
      <2>1. f \in Frame /\ f.for.kind = kind /\ f.for.kind \notin {"binary", "main"}
            BY DEF Frame
      <2>2. exprs' = Append(exprs, f)
            BY <1>4 DEF Call
      <2>. HIDE DEF f
      <2>3. /\ exprs' \in Seq(Frame) /\ exprs' # <<>>
            /\ Len(exprs') = Len(exprs) + 1 /\ Len(exprs) \in Nat
            /\ \A i \in 1..Len(exprs) : exprs'[i] = exprs[i]
            /\ exprs'[Len(exprs)+1] = f
            <3>1. exprs \in Seq(Frame)
                  BY DEF ParserInv
            <3>. QED BY <2>1, <2>2, <3>1, AppendProperties, LenProperties
      <2>4. Holding(exprs', n)
            BY <1>2, <2>1, <2>2, CallAdded DEF ParserInv
      <2>5. Binding(exprs')
            <3>1. Binding(exprs)
                  BY DEF ParserInv
            <3>2. ASSUME NEW i \in 2..Len(exprs')
                  PROVE  exprs'[i].p > exprs'[i-1].p \/ exprs'[i].for.kind # "binary"
                  <4>1. CASE i = Len(exprs) + 1
                        BY <2>1, <2>3, <4>1
                  <4>2. CASE i # Len(exprs) + 1
                        <5>1. i \in 2..Len(exprs) /\ exprs'[i] = exprs[i] /\ exprs'[i-1] = exprs[i-1]
                              BY <2>3, <4>2
                        <5>. QED BY <3>1, <5>1 DEF Binding
                  <4>. QED BY <4>1, <4>2
            <3>. QED BY <3>2 DEF Binding
      <2>6. \A i \in 1..Len(exprs') : exprs'[i].for.kind = "main" <=> i = 1
            <3>1. Len(exprs) >= 1 /\ \A i \in 1..Len(exprs) : exprs[i].for.kind = "main" <=> i = 1
                  BY <1>1, EmptySeq DEF ParserInv
            <3>. QED BY <2>1, <2>3, <3>1
      <2>7. token' \in Token /\ rest' \in Seq(STRING)
            BY <1>4, ConsumeType DEF ParserInv
      <2>. QED BY <1>1, <1>2, <1>4, <2>3, <2>4, <2>5, <2>6, <2>7, ArgsStay DEF ParserInv
<1>5. CASE token.kind = "("
      BY <1>1, <1>4, <1>5 DEF ReadOperand, AddSub
<1>6. CASE token.kind \in AddSub
      <2>1. token.kind \in Operator
            BY <1>6 DEF AddSub, Operator
      <2>. QED BY <1>1, <1>4, <1>6, <2>1 DEF ReadOperand, AddSub
<1>7. CASE token.kind \in {")", "*", "/", "EOF"}
      BY <1>7, ParsingErrorInv DEF ReadOperand, AddSub
<1>. QED BY <1>3, <1>5, <1>6, <1>7 DEF ReadOperand

\* An operator calls for its operand on the right.
LEMMA ReadOperatorInv == ASSUME ParserInv, ReadOperator PROVE ParserInv'
<1>. DEFINE f == [for |-> [kind |-> "binary", op |-> token.kind], p |-> PriorityAtRight(token.kind)]
            l == Len(exprs)
<1>1. /\ phase = "operator" /\ phase' = "operand" /\ Continues /\ Consume
      /\ exprs' = Append(exprs, f)
      /\ UNCHANGED <<nodes, args>>
      BY DEF ReadOperator, Call
<1>2. PICK n \in Nat : Holding(exprs, n) /\ Postorder(nodes, 0, n + 1)
      BY <1>1 DEF ParserInv
<1>3. /\ token.kind \in Operator /\ Inner.p <= Priority(token.kind)
      /\ PriorityAtRight(token.kind) \in Nat /\ PriorityAtRight(token.kind) = Priority(token.kind) + 1
      /\ Priority(token.kind) \in Nat
      BY <1>1 DEF Continues, PriorityAtRight, Priority
<1>4. f \in Frame /\ f.for.kind = "binary" /\ f.p = PriorityAtRight(token.kind)
      BY <1>3 DEF Frame
<1>. HIDE DEF f
<1>5. /\ exprs' \in Seq(Frame) /\ exprs' # <<>>
      /\ Len(exprs') = l + 1 /\ l \in Nat
      /\ \A i \in 1..l : exprs'[i] = exprs[i]
      /\ exprs'[l+1] = f
      BY <1>1, <1>4, AppendProperties, LenProperties DEF ParserInv
<1>6. Holding(exprs', n + 1)
      BY <1>1, <1>2, <1>4, CallAdded DEF ParserInv
<1>7. Inner = exprs[l] /\ Inner \in Frame /\ l \in Nat \ {0}
      BY <1>1, EmptySeq, ElementOfSeq DEF ParserInv, Inner, Last
<1>8. Binding(exprs')
      <2>1. f.p > exprs[l].p
            BY <1>3, <1>4, <1>7 DEF Frame
      <2>2. Binding(exprs)
            BY DEF ParserInv
      <2>. HIDE DEF l
      <2>3. ASSUME NEW i \in 2..Len(exprs')
            PROVE  exprs'[i].p > exprs'[i-1].p \/ exprs'[i].for.kind # "binary"
            <3>1. CASE i = l + 1
                  <4>1. l \in 1..l /\ i - 1 = l
                        BY <1>7, <3>1
                  <4>. QED BY <1>5, <2>1, <3>1, <4>1
            <3>2. CASE i # l + 1
                  <4>1. i \in 2..l /\ exprs'[i] = exprs[i] /\ exprs'[i-1] = exprs[i-1]
                        BY <1>5, <3>2
                  <4>. QED BY <2>2, <4>1 DEF Binding, l
            <3>. QED BY <3>1, <3>2
      <2>. QED BY <2>3 DEF Binding
<1>9. \A i \in 1..Len(exprs') : exprs'[i].for.kind = "main" <=> i = 1
      <2>1. \A i \in 1..l : exprs[i].for.kind = "main" <=> i = 1
            BY <1>1 DEF ParserInv
      <2>. HIDE DEF l
      <2>. QED BY <1>4, <1>5, <1>7, <2>1
<1>10. token' \in Token /\ rest' \in Seq(STRING)
       BY <1>1, ConsumeType DEF ParserInv
<1>. QED BY <1>1, <1>2, <1>5, <1>6, <1>8, <1>9, <1>10, ArgsStay DEF ParserInv, Phase

\* A call returns: behind an operator, its node has the operands it takes.
LEMMA EndOperandInv == ASSUME ParserInv, EndOperand PROVE ParserInv'
<1>. DEFINE l == Len(exprs)
<1>1. phase = "operator" /\ exprs # <<>> /\ args = <<>>
      BY DEF ParserInv, EndOperand
<1>2. PICK n \in Nat : Holding(exprs, n) /\ Postorder(nodes, 0, n + 1)
      BY <1>1 DEF ParserInv
<1>3. /\ Inner \in Frame /\ Inner = exprs[l]
      /\ Front(exprs) \in Seq(Frame) /\ Len(Front(exprs)) = l - 1 /\ l \in Nat \ {0}
      /\ \A i \in 1..l-1 : Front(exprs)[i] = exprs[i]
      /\ IF Inner.for.kind = "binary" THEN n >= 1 /\ Holding(Front(exprs), n - 1)
                                      ELSE Holding(Front(exprs), n)
      BY <1>1, <1>2, CallRemoved, EmptySeq DEF ParserInv, Inner
<1>4. /\ Binding(Front(exprs))
      /\ \A i \in 1..l-1 : Front(exprs)[i].for.kind = "main" <=> i = 1
      /\ Inner.for.kind = "main" <=> l = 1
      <2>1. Binding(exprs) /\ \A i \in 1..l : exprs[i].for.kind = "main" <=> i = 1
            BY <1>1 DEF ParserInv
      <2>. HIDE DEF l
      <2>2. ASSUME NEW i \in 2..l-1
            PROVE  \/ Front(exprs)[i].p > Front(exprs)[i-1].p
                   \/ Front(exprs)[i].for.kind # "binary"
            <3>1. /\ i \in 2..l /\ Front(exprs)[i] = exprs[i]
                  /\ Front(exprs)[i-1] = exprs[i-1]
                  BY <1>3
            <3>. QED BY <2>1, <3>1 DEF Binding, l
      <2>3. Binding(Front(exprs))
            BY <1>3, <2>2 DEF Binding
      <2>. QED BY <1>3, <2>1, <2>3
<1>5. Inner.for.kind # "main" => Front(exprs) # <<>>
      BY <1>3, <1>4, EmptySeq
<1>. HIDE DEF l
<1>6. CASE Inner.for.kind \in {"unary", "binary"}
      <2>. DEFINE m == IF Inner.for.kind = "binary" THEN n - 1 ELSE n
      <2>1. /\ exprs' = Front(exprs) /\ nodes' = Append(nodes, Inner.for)
            /\ UNCHANGED <<phase, rest, token, args>>
            BY <1>6 DEF EndOperand
      <2>2. Inner.for \in Node
            BY <1>3, <1>6 DEF Frame, Node, Branch
      <2>3. m \in Nat /\ Holding(exprs', m)
            BY <1>3, <2>1
      <2>4. nodes' \in Seq(Node) /\ Postorder(nodes', 0, m + 1)
            <3>1. nodes \in Seq(Node) /\ 0 \in Nat /\ n + 1 \in Nat /\ m + 1 \in Nat
                  BY <2>3 DEF ParserInv
            <3>2. CASE Inner.for.kind = "unary"
                  <4>1. m + 1 = n + 1 /\ n + 1 >= 1
                        BY <3>2
                  <4>. QED BY <1>2, <2>1, <2>2, <3>1, <3>2, <4>1, NodeAppended
            <3>3. CASE Inner.for.kind = "binary"
                  <4>1. m + 1 = (n + 1) - 1 /\ n + 1 >= 2
                        BY <1>3, <3>3
                  <4>. QED BY <1>2, <2>1, <2>2, <3>1, <3>3, <4>1, NodeAppended
            <3>. QED BY <1>6, <3>2, <3>3
      <2>. HIDE DEF m
      <2>. QED BY <1>1, <1>3, <1>4, <1>5, <1>6, <2>1, <2>3, <2>4, ArgsStay DEF ParserInv
<1>7. CASE Inner.for.kind = "parens" /\ token.kind = ")"
      <2>1. /\ exprs' = Front(exprs) /\ Consume /\ UNCHANGED <<phase, nodes, args>>
            BY <1>7 DEF EndOperand
      <2>2. token' \in Token /\ rest' \in Seq(STRING)
            BY <2>1, ConsumeType DEF ParserInv
      <2>3. Holding(exprs', n)
            BY <1>3, <1>7, <2>1
      <2>. QED BY <1>1, <1>2, <1>3, <1>4, <1>5, <1>7, <2>1, <2>2, <2>3, ArgsStay DEF ParserInv
<1>8. CASE Inner.for.kind = "main" /\ token.kind = "EOF"
      <2>1. /\ exprs' = <<>> /\ phase' = "walk" /\ UNCHANGED <<rest, token, nodes, args>>
            BY <1>8 DEF EndOperand
      <2>2. Holding(Front(exprs), n) /\ Len(Front(exprs)) = 0
            BY <1>3, <1>4, <1>8
      <2>3. n = 0
            BY <2>2 DEF Holding, Holds
      <2>4. Len(args) = 0 /\ 0 + 1 = 1
            BY <1>1, EmptySeq
      <2>5. exprs' \in Seq(Frame) /\ Binding(exprs')
            BY <2>1, EmptySeq DEF Binding
      <2>. QED BY <1>2, <2>1, <2>3, <2>4, <2>5, ArgsStay DEF ParserInv, Phase
<1>9. CASE \/ Inner.for.kind = "parens" /\ token.kind # ")"
           \/ Inner.for.kind = "main" /\ token.kind # "EOF"
      BY <1>9, ParsingErrorInv DEF EndOperand
<1>. QED BY <1>3, <1>6, <1>7, <1>8, <1>9 DEF Frame

\* What a sequence consists of makes it one.
LEMMA ElementsMakeSeq ==
    ASSUME NEW S, NEW s \in Seq(S)
    PROVE  s \in Seq({s[i] : i \in DOMAIN s})
<1>. DEFINE T == {s[i] : i \in DOMAIN s}
<1>1. Len(s) \in Nat /\ DOMAIN s = 1..Len(s) /\ s = [i \in 1..Len(s) |-> s[i]]
      BY LenProperties
<1>2. \A i \in 1..Len(s) : s[i] \in T
      BY <1>1
<1>. HIDE DEF T
<1>. QED BY <1>1, <1>2, IsASeq

\* A node of the walk finds on the stack the operands it takes.
LEMMA WalkInv == ASSUME ParserInv, Walk PROVE ParserInv'
<1>. DEFINE S == {args[i] : i \in DOMAIN args}
            node == Head(nodes)
            l == Len(args)
            Args == {args'[i] : i \in DOMAIN args'}
<1>1. /\ phase = "walk" /\ nodes # <<>> /\ nodes' = Tail(nodes)
      /\ UNCHANGED <<rest, token, exprs>>
      /\ VisitTerminal(node) \/ ExitUnaryOp(node) \/ ExitBinaryOp(node)
      BY DEF Walk
<1>2. args \in Seq(S) /\ l \in Nat
      BY LenProperties DEF ParserInv
<1>3. /\ nodes' \in Seq(Node) /\ node \in Node
      /\ \/ node.kind \in {"CELL", "NUMBER"} /\ Postorder(nodes', l + 1, 1)
         \/ node.kind = "unary" /\ l >= 1 /\ Postorder(nodes', l, 1)
         \/ node.kind = "binary" /\ l >= 2 /\ Postorder(nodes', l - 1, 1)
      <2>1. nodes \in Seq(Node) /\ Postorder(nodes, l, 1) /\ 1 \in Nat
            BY <1>1 DEF ParserInv
      <2>. HIDE DEF l
      <2>. QED BY <1>1, <1>2, <2>1, NodeTaken
<1>. HIDE DEF node, S
<1>4. SUFFICES /\ args' \in Seq(Args)
               /\ phase' = "FormulaException" \/ (phase' = "walk" /\ Postorder(nodes', Len(args'), 1))
      BY <1>1, <1>3 DEF ParserInv, Phase
<1>5. ASSUME NEW T, NEW s \in Seq(T), NEW x, args' = Append(s, x)
      PROVE  args' \in Seq(Args) /\ Len(args') = Len(s) + 1
      <2>1. s \in Seq(T \cup {x}) /\ x \in T \cup {x}
            <3>1. Len(s) \in Nat /\ s = [i \in 1..Len(s) |-> s[i]] /\ \A i \in 1..Len(s) : s[i] \in T
                  BY LenProperties, ElementOfSeq
            <3>2. \A i \in 1..Len(s) : s[i] \in T \cup {x}
                  BY <3>1
            <3>. QED BY <3>1, <3>2, IsASeq
      <2>2. args' \in Seq(T \cup {x}) /\ Len(args') = Len(s) + 1
            BY <1>5, <2>1, AppendProperties
      <2>. QED BY <2>2, ElementsMakeSeq
<1>6. CASE VisitTerminal(node)
      <2>1. node.kind \in {"CELL", "NUMBER"}
            BY <1>6 DEF VisitTerminal
      <2>2. CASE args' = Append(args, <<node.kind, node.chars>>) /\ UNCHANGED phase
            BY <1>1, <1>2, <1>3, <1>5, <2>1, <2>2
      <2>3. CASE phase' = "FormulaException" /\ UNCHANGED args
            BY <2>3, ArgsStay
      <2>. QED BY <1>6, <2>2, <2>3 DEF VisitTerminal
<1>7. CASE ExitUnaryOp(node)
      <2>. DEFINE x == <<"unary", node.op, args[l]>>
      <2>1. node.kind = "unary" /\ args' = [args EXCEPT ![l] = x] /\ UNCHANGED phase
            BY <1>7 DEF ExitUnaryOp
      <2>. HIDE DEF x
      <2>2. l >= 1 /\ Postorder(nodes', l, 1)
            BY <1>3, <2>1
      <2>3. args \in Seq(S \cup {x}) /\ l \in 1..Len(args)
            <3>1. args = [i \in 1..l |-> args[i]] /\ \A i \in 1..l : args[i] \in S
                  BY <1>2, LenProperties, ElementOfSeq
            <3>2. \A i \in 1..l : args[i] \in S \cup {x}
                  BY <3>1
            <3>3. args \in Seq(S \cup {x})
                  BY <1>2, <3>1, <3>2, IsASeq
            <3>. QED BY <1>2, <2>2, <3>3
      <2>4. args' \in Seq(S \cup {x}) /\ Len(args') = l
            BY <2>1, <2>3, ExceptSeq
      <2>5. args' \in Seq(Args)
            BY <2>4, ElementsMakeSeq
      <2>. HIDE DEF Args, l
      <2>. QED BY <1>1, <2>1, <2>2, <2>4, <2>5
<1>8. CASE ExitBinaryOp(node)
      <2>. DEFINE x == <<"binary", node.op, args[l - 1], args[l]>>
                  s == SubSeq(args, 1, l - 2)
      <2>1. node.kind = "binary" /\ args' = Append(s, x) /\ UNCHANGED phase
            BY <1>8 DEF ExitBinaryOp
      <2>2. l >= 2 /\ Postorder(nodes', l - 1, 1)
            BY <1>3, <2>1
      <2>3. s \in Seq(S) /\ Len(s) = l - 2
            <3>1. \A i \in 1..l-2 : args[i] \in S
                  BY <1>2, ElementOfSeq
            <3>. HIDE DEF l
            <3>2. 1 \in Int /\ l - 2 \in Int /\ l - 2 = IF 1 <= l - 2 THEN l - 2 - 1 + 1 ELSE 0
                  BY <1>2, <2>2
            <3>. QED BY <3>1, <3>2, SubSeqProperties
      <2>. HIDE DEF s, x
      <2>4. args' \in Seq(Args) /\ Len(args') = Len(s) + 1
            BY <1>5, <2>1, <2>3
      <2>5. Len(args') = l - 1
            BY <1>2, <2>3, <2>4
      <2>. QED BY <1>1, <2>1, <2>2, <2>4, <2>5
<1>. QED BY <1>1, <1>6, <1>7, <1>8

\* The root is taken from the stack, and the rest is done.
LEMMA MoveRootInv == ASSUME ParserInv, MoveRoot PROVE ParserInv'
BY ArgsStay DEF ParserInv, MoveRoot, Phase, Binding

\* What the nodes and the calls say of the stack while the walk goes on.
LEMMA InvKeepsDiscipline == ParserInv => StackDiscipline
<1>1. SUFFICES ASSUME ParserInv PROVE StackDiscipline
      OBVIOUS
<1>2. ASSUME phase = "walk", nodes # <<>>
      PROVE  Len(args) >= CASE Head(nodes).kind = "unary"  -> 1
                            [] Head(nodes).kind = "binary" -> 2
                            [] OTHER -> 0
      <2>1. nodes \in Seq(Node) /\ Postorder(nodes, Len(args), 1) /\ Len(args) \in Nat /\ 1 \in Nat
            BY <1>1, <1>2, LenProperties DEF ParserInv
      <2>2. \/ Head(nodes).kind \in {"CELL", "NUMBER"}
            \/ Head(nodes).kind = "unary" /\ Len(args) >= 1
            \/ Head(nodes).kind = "binary" /\ Len(args) >= 2
            BY <1>2, <2>1, NodeTaken
      <2>. QED BY <2>1, <2>2
<1>3. ASSUME phase = "walk", nodes = <<>>
      PROVE  Len(args) = 1
      <2>1. Postorder(nodes, Len(args), 1) /\ Len(nodes) = 0
            BY <1>1, <1>3, EmptySeq DEF ParserInv
      <2>. QED BY <2>1 DEF Postorder, Leaves
<1>. QED BY <1>1, <1>2, <1>3 DEF ParserInv, StackDiscipline, Phase, Binding

\* The invariant is inductive.
LEMMA ParserStepInv == ParserInv /\ [ParserNext]_parserVars => ParserInv'
<1>1. SUFFICES ASSUME ParserInv, [ParserNext]_parserVars PROVE ParserInv'
      OBVIOUS
<1>2. CASE Begin
      BY <1>1, <1>2, BeginInv
<1>3. CASE LexingFails
      BY <1>1, <1>3, ParsingErrorInv DEF LexingFails
<1>4. CASE ReadOperand
      BY <1>1, <1>4, ReadOperandInv
<1>5. CASE ReadOperator
      BY <1>1, <1>5, ReadOperatorInv
<1>6. CASE EndOperand
      BY <1>1, <1>6, EndOperandInv
<1>7. CASE Walk
      BY <1>1, <1>7, WalkInv
<1>8. CASE MoveRoot
      BY <1>1, <1>8, MoveRootInv
<1>9. CASE UNCHANGED parserVars
      BY <1>1, <1>9 DEF ParserInv, parserVars, Phase, Binding
<1>. QED BY <1>1, <1>2, <1>3, <1>4, <1>5, <1>6, <1>7, <1>8, <1>9 DEF ParserNext

\* Whatever the text: the tree the parser hands over is a postorder, so that each
\* operator finds its operands on the stack of ParseASTListener, and the assert of
\* MoveRoot holds; and no operand on the right of an operator reads one that binds
\* no more.
THEOREM StackDisciplineKept == ParserSpec => []StackDiscipline
<1>1. ParserInit => ParserInv
      BY ParserInitInv
<1>2. ParserInv /\ [ParserNext]_parserVars => ParserInv'
      BY ParserStepInv
<1>3. ParserInv => StackDiscipline
      BY InvKeepsDiscipline
<1>. QED BY <1>1, <1>2, <1>3, PTL DEF ParserSpec

---------------------------------------------------------------------------
(***************************************************************************)
(* What the grammar derives.                                               *)
(***************************************************************************)

\* What the lexer makes of a text: one token at the end tells that it is the last.
IsTokens(ts) == /\ ts \in Seq(Token) /\ ts # <<>>
                /\ \A i \in 1..Len(ts) : IsLastToken(ts[i]) <=> i = Len(ts)

\* Items have tokens, none of them the last.
InRange(ts, x) == /\ x.first \in 1..Len(ts)-1
                  /\ x.last \in x.first..Len(ts)-1
                  /\ x.p \in 3..6

\* An item is a leaf or made of items of d.
IsMade(ts, x, d) ==
    \/ \E i \in 1..Len(ts) : IsLeaf(ts, i) /\ x = LeafAt(ts, i)
    \/ \E y \in d : IsBracketed(ts, y) /\ x = Bracketed(y)
    \/ \E y \in d : IsSigned(ts, y) /\ x = Signed(ts, y)
    \/ \E y \in d, z \in d : AreJoined(ts, y, z) /\ x = Joined(ts, y, z)

\* What the tokens i to j are made of, f giving the items of narrower parts.
Part(ts) == (1..Len(ts)) \X (0..Len(ts))

Enclosed(ts, f, i, j) == IF ts[i].kind = "(" /\ ts[j].kind = ")" THEN f[<<i + 1, j - 1>>] ELSE {}

Operands(ts, f, i, j) == IF ts[i].kind \in AddSub THEN f[<<i + 1, j>>] ELSE {}

Splits(ts, i, j) == {k \in i+1..j-1 : ts[k].kind \in Operator}

Pairs(ts, f, i, j) == UNION {f[<<i, k - 1>>] \X f[<<k + 1, j>>] : k \in Splits(ts, i, j)}

ItemsOf(ts, f, i, j) ==
    IF i >= j THEN {LeafAt(ts, k) : k \in {k \in i..j : IsLeaf(ts, k)}}
    ELSE {Bracketed(x) : x \in {x \in Enclosed(ts, f, i, j) : IsBracketed(ts, x)}}
         \cup {Signed(ts, x) : x \in {x \in Operands(ts, f, i, j) : IsSigned(ts, x)}}
         \cup {Joined(ts, z[1], z[2]) : z \in {z \in Pairs(ts, f, i, j) : AreJoined(ts, z[1], z[2])}}

\* All items of ts.
Derived(ts) == UNION {Items(ts)[s] : s \in Part(ts)}

\* The items of some tokens depend on those of fewer.
LEMMA ItemsAreLocal ==
    ASSUME NEW ts, Len(ts) \in Nat, NEW i \in 1..Len(ts), NEW j \in 0..Len(ts), NEW f, NEW g,
           \A s \in Part(ts) : s[2] - s[1] < j - i => f[s] = g[s]
    PROVE  ItemsOf(ts, f, i, j) = ItemsOf(ts, g, i, j)
<1>1. CASE i >= j
      BY <1>1 DEF ItemsOf
<1>2. CASE ~(i >= j)
      <2>1. ASSUME NEW a \in 1..Len(ts), NEW b \in 0..Len(ts), b - a < j - i
            PROVE  f[<<a, b>>] = g[<<a, b>>]
            <3>1. <<a, b>> \in Part(ts) /\ <<a, b>>[1] = a /\ <<a, b>>[2] = b
                  BY DEF Part
            <3>. QED BY <2>1, <3>1
      <2>2. Enclosed(ts, f, i, j) = Enclosed(ts, g, i, j)
            <3>1. i + 1 \in 1..Len(ts) /\ j - 1 \in 0..Len(ts) /\ (j - 1) - (i + 1) < j - i
                  BY <1>2
            <3>. QED BY <2>1, <3>1 DEF Enclosed
      <2>3. Operands(ts, f, i, j) = Operands(ts, g, i, j)
            <3>1. i + 1 \in 1..Len(ts) /\ j - (i + 1) < j - i
                  BY <1>2
            <3>. QED BY <2>1, <3>1 DEF Operands
      <2>4. Pairs(ts, f, i, j) = Pairs(ts, g, i, j)
            <3>1. ASSUME NEW k \in Splits(ts, i, j)
                  PROVE  f[<<i, k - 1>>] = g[<<i, k - 1>>] /\ f[<<k + 1, j>>] = g[<<k + 1, j>>]
                  <4>1. k \in i+1..j-1
                        BY DEF Splits
                  <4>2. k - 1 \in 0..Len(ts) /\ k + 1 \in 1..Len(ts) /\ (k - 1) - i < j - i /\ j - (k + 1) < j - i
                        BY <1>2, <4>1
                  <4>. QED BY <2>1, <4>2
            <3>2. {f[<<i, k - 1>>] \X f[<<k + 1, j>>] : k \in Splits(ts, i, j)}
                     = {g[<<i, k - 1>>] \X g[<<k + 1, j>>] : k \in Splits(ts, i, j)}
                  BY <3>1
            <3>. QED BY <3>2 DEF Pairs
      <2>. QED BY <1>2, <2>2, <2>3, <2>4 DEF ItemsOf
<1>. QED BY <1>1, <1>2

\* The equation of Items has a solution: one of the parts of a width is continued
\* to those of the next.
LEMMA ItemsExist ==
    ASSUME NEW ts, Len(ts) \in Nat
    PROVE  \A i \in 1..Len(ts), j \in 0..Len(ts) : Items(ts)[<<i, j>>] = ItemsOf(ts, Items(ts), i, j)
<1>. DEFINE l == Len(ts)
            Upto(n) == {s \in Part(ts) : s[2] - s[1] < n}
            Solved(r, n) == r = [s \in Upto(n) |-> ItemsOf(ts, r, s[1], s[2])]
            S == {n \in Nat : ~ \E r : Solved(r, n)}
            Eq(f) == f = [s \in Part(ts) |-> ItemsOf(ts, f, s[1], s[2])]
<1>1. \A s \in Part(ts) : s[1] \in 1..l /\ s[2] \in 0..l
      BY DEF Part
<1>2. S = {}
      <2>1. SUFFICES ASSUME S # {} PROVE FALSE
            OBVIOUS
      <2>2. PICK n \in S : \A m \in S : n <= m
            <3>. S \in SUBSET Nat
                 OBVIOUS
            <3>. HIDE DEF S
            <3>. QED BY <2>1, LeastNatural
      <2>3. n \in Nat /\ ~ \E r : Solved(r, n)
            OBVIOUS
      <2>4. \E r : \A s \in Part(ts) : s[2] - s[1] < n - 1 => r[s] = ItemsOf(ts, r, s[1], s[2])
            <3>1. CASE n = 0
                  <4>. DEFINE r == [s \in Part(ts) |-> ItemsOf(ts, {}, s[1], s[2])]
                  <4>1. ASSUME NEW s \in Part(ts), s[2] - s[1] < n - 1
                        PROVE  r[s] = ItemsOf(ts, r, s[1], s[2])
                        <5>1. s[1] >= s[2]
                              BY <1>1, <3>1, <4>1
                        <5>. QED BY <5>1 DEF ItemsOf
                  <4>. QED BY <4>1
            <3>2. CASE n # 0
                  <4>1. n - 1 \in Nat /\ n - 1 \notin S
                        <5>1. n - 1 \in Nat /\ ~(n <= n - 1)
                              BY ONLY <2>3, <3>2
                        <5>. HIDE DEF S
                        <5>. QED BY ONLY <2>2, <5>1
                  <4>2. PICK r : Solved(r, n - 1)
                        BY <4>1
                  <4>. QED BY <4>2
            <3>. QED BY <3>1, <3>2
      <2>5. PICK r : \A s \in Part(ts) : s[2] - s[1] < n - 1 => r[s] = ItemsOf(ts, r, s[1], s[2])
            BY <2>4
      <2>. DEFINE q == [s \in Upto(n) |-> ItemsOf(ts, r, s[1], s[2])]
      <2>6. ASSUME NEW s \in Upto(n)
            PROVE  ItemsOf(ts, r, s[1], s[2]) = ItemsOf(ts, q, s[1], s[2])
            <3>1. s \in Part(ts) /\ s[1] \in 1..l /\ s[2] \in 0..l /\ s[2] - s[1] < n
                  BY <1>1
            <3>2. ASSUME NEW u \in Part(ts), u[2] - u[1] < s[2] - s[1]
                  PROVE  r[u] = q[u]
                  <4>1. u[2] - u[1] < n - 1
                        BY <1>1, <2>3, <3>1, <3>2
                  <4>2. u \in Upto(n)
                        BY <1>1, <2>3, <4>1
                  <4>. QED BY <2>5, <4>1, <4>2
            <3>3. \A u \in Part(ts) : u[2] - u[1] < s[2] - s[1] => r[u] = q[u]
                  BY <3>2
            <3>4. l \in Nat
                  OBVIOUS
            <3>. HIDE DEF q, l
            <3>5. ASSUME NEW i, NEW j, i = s[1], j = s[2]
                  PROVE  ItemsOf(ts, r, i, j) = ItemsOf(ts, q, i, j)
                  <4>1. /\ i \in 1..Len(ts) /\ j \in 0..Len(ts) /\ Len(ts) \in Nat
                        /\ \A u \in Part(ts) : u[2] - u[1] < j - i => r[u] = q[u]
                        BY ONLY <3>1, <3>3, <3>4, <3>5 DEF l
                  <4>. QED BY ONLY <4>1, ItemsAreLocal, ZenonT(30)
            <3>. QED BY <3>5
      <2>7. Solved(q, n)
            BY <2>6
      <2>. QED BY <2>3, <2>7
<1>3. \E f : Eq(f)
      <2>1. PICK r : Solved(r, l)
            BY <1>2
      <2>2. Upto(l) = Part(ts)
            BY <1>1
      <2>. QED BY <2>1, <2>2
<1>. DEFINE items == CHOOSE f : Eq(f)
<1>4. Eq(items)
      <2>. HIDE DEF Eq
      <2>. QED BY <1>3
<1>5. Items(ts) = items
      BY DEF Items, ItemsOf, Enclosed, Operands, Splits, Pairs, Part
<1>. HIDE DEF items
<1>6. ASSUME NEW i \in 1..l, NEW j \in 0..l
      PROVE  items[<<i, j>>] = ItemsOf(ts, items, i, j)
      <2>1. <<i, j>> \in Part(ts) /\ <<i, j>>[1] = i /\ <<i, j>>[2] = j
            BY DEF Part
      <2>. QED BY <1>4, <2>1
<1>. QED BY <1>5, <1>6

\* An item has tokens of its own, and more than those it is made of.
LEMMA MadeInRange ==
    ASSUME NEW ts, IsTokens(ts), NEW d, \A y \in d : InRange(ts, y), NEW x, IsMade(ts, x, d)
    PROVE  /\ InRange(ts, x)
           /\ IsMade(ts, x, {y \in d : y.last - y.first < x.last - x.first})
<1>. DEFINE n == Len(ts)
            less == {y \in d : y.last - y.first < x.last - x.first}
<1>1. /\ n \in Nat \ {0} /\ DOMAIN ts = 1..n
      /\ \A i \in 1..n : ts[i].kind \in {"EOF", "error"} <=> i = n
      BY EmptySeq, LenProperties DEF IsTokens, IsLastToken
<1>2. \A y \in d : /\ y.first \in 1..n-1 /\ y.last \in y.first..n-1 /\ y.p \in 3..6
                   /\ y.last \in Nat /\ y.first \in Nat /\ y.last + 1 \in 1..n
      <2>1. SUFFICES ASSUME NEW y \in d
                     PROVE  /\ y.first \in 1..n-1 /\ y.last \in y.first..n-1 /\ y.p \in 3..6
                            /\ y.last \in Nat /\ y.first \in Nat /\ y.last + 1 \in 1..n
            OBVIOUS
      <2>2. y.first \in 1..n-1 /\ y.last \in y.first..n-1 /\ y.p \in 3..6
            BY DEF InRange
      <2>. HIDE DEF n
      <2>. QED BY <1>1, <2>2
<1>. HIDE DEF n
<1>3. CASE \E i \in 1..n : IsLeaf(ts, i) /\ x = LeafAt(ts, i)
      <2>1. PICK i \in 1..n : IsLeaf(ts, i) /\ x = LeafAt(ts, i)
            BY <1>3
      <2>2. i # n /\ i \in 1..n-1
            BY <1>1, <2>1 DEF IsLeaf
      <2>3. x.first = i /\ x.last = i /\ x.p = 6
            BY <2>1 DEF LeafAt, Item
      <2>4. InRange(ts, x)
            BY <2>2, <2>3 DEF InRange, n
      <2>. QED BY <2>1, <2>4 DEF IsMade, n
<1>4. CASE \E y \in d : IsBracketed(ts, y) /\ x = Bracketed(y)
      <2>1. PICK y \in d : IsBracketed(ts, y) /\ x = Bracketed(y)
            BY <1>4
      <2>2. x.first = y.first - 1 /\ x.last = y.last + 1 /\ x.p = 6
            BY <2>1 DEF Bracketed, Item
      <2>3. y.first > 1 /\ y.last + 1 # n
            BY <1>1, <1>2, <2>1 DEF IsBracketed
      <2>4. /\ x.first \in 1..n-1 /\ x.last \in x.first..n-1 /\ x.p \in 3..6
            /\ y.last - y.first < x.last - x.first
            BY <1>1, <1>2, <2>2, <2>3
      <2>5. InRange(ts, x)
            BY <2>4 DEF InRange, n
      <2>. QED BY <2>1, <2>4, <2>5 DEF IsMade
<1>5. CASE \E y \in d : IsSigned(ts, y) /\ x = Signed(ts, y)
      <2>1. PICK y \in d : IsSigned(ts, y) /\ x = Signed(ts, y)
            BY <1>5
      <2>2. x.first = y.first - 1 /\ x.last = y.last /\ x.p = 5
            BY <2>1 DEF Signed, Item
      <2>3. y.first > 1
            BY <2>1 DEF IsSigned
      <2>4. /\ x.first \in 1..n-1 /\ x.last \in x.first..n-1 /\ x.p \in 3..6
            /\ y.last - y.first < x.last - x.first
            BY <1>1, <1>2, <2>2, <2>3
      <2>5. InRange(ts, x)
            BY <2>4 DEF InRange, n
      <2>. QED BY <2>1, <2>4, <2>5 DEF IsMade
<1>6. CASE \E y \in d, z \in d : AreJoined(ts, y, z) /\ x = Joined(ts, y, z)
      <2>1. PICK y \in d, z \in d : AreJoined(ts, y, z) /\ x = Joined(ts, y, z)
            BY <1>6
      <2>2. x.first = y.first /\ x.last = z.last /\ x.p \in {3, 4}
            BY <2>1 DEF Joined, Item, Priority
      <2>3. z.first = y.last + 2
            BY <2>1 DEF AreJoined
      <2>4. /\ x.first \in 1..n-1 /\ x.last \in x.first..n-1 /\ x.p \in 3..6
            /\ y.last - y.first < x.last - x.first /\ z.last - z.first < x.last - x.first
            <3>1. /\ y.first \in 1..n-1 /\ y.last \in y.first..n-1
                  /\ z.first \in 1..n-1 /\ z.last \in z.first..n-1
                  BY <1>2
            <3>2. x.p \in 3..6
                  BY <2>2
            <3>. QED BY ONLY <1>1, <2>2, <2>3, <3>1, <3>2
      <2>5. InRange(ts, x)
            BY <2>4 DEF InRange, n
      <2>. QED BY <2>1, <2>4, <2>5 DEF IsMade
<1>. QED BY <1>3, <1>4, <1>5, <1>6 DEF IsMade, n

\* Of what the items of the tokens i to j are made, f giving those of others.
IsMadeAt(ts, f, i, j, x) ==
    \/ i = j /\ IsLeaf(ts, i) /\ x = LeafAt(ts, i)
    \/ /\ i < j /\ ts[i].kind = "(" /\ ts[j].kind = ")"
       /\ \E y \in f[<<i + 1, j - 1>>] : IsBracketed(ts, y) /\ x = Bracketed(y)
    \/ /\ i < j /\ ts[i].kind \in AddSub
       /\ \E y \in f[<<i + 1, j>>] : IsSigned(ts, y) /\ x = Signed(ts, y)
    \/ /\ i < j
       /\ \E k \in i+1..j-1 : /\ ts[k].kind \in Operator
                             /\ \E y \in f[<<i, k - 1>>], z \in f[<<k + 1, j>>] :
                                   AreJoined(ts, y, z) /\ x = Joined(ts, y, z)

LEMMA ItemIsMade ==
    ASSUME NEW ts, Len(ts) \in Nat, NEW i \in 1..Len(ts), NEW j \in 0..Len(ts), NEW x
    PROVE  x \in Items(ts)[<<i, j>>] <=> IsMadeAt(ts, Items(ts), i, j, x)
<1>. DEFINE f == Items(ts)
            P == Pairs(ts, f, i, j)
            J == {Joined(ts, z[1], z[2]) : z \in {z \in P : AreJoined(ts, z[1], z[2])}}
<1>0. i \in Int /\ j \in Int
      OBVIOUS
<1>1. f[<<i, j>>] = ItemsOf(ts, f, i, j)
      BY ItemsExist
<1>2. CASE i >= j
      <2>1. \A k : k \in i..j <=> k = i /\ i = j
            BY ONLY <1>0, <1>2
      <2>2. x \in f[<<i, j>>] <=> \E k \in i..j : IsLeaf(ts, k) /\ x = LeafAt(ts, k)
            <3>. HIDE DEF f
            <3>. QED BY <1>1, <1>2 DEF ItemsOf
      <2>. HIDE DEF f
      <2>3. ~(i < j)
            BY ONLY <1>0, <1>2
      <2>. QED BY <2>1, <2>2, <2>3 DEF f, IsMadeAt
<1>3. CASE i < j
      <2>1. f[<<i, j>>] = {Bracketed(y) : y \in {y \in Enclosed(ts, f, i, j) : IsBracketed(ts, y)}}
                           \cup {Signed(ts, y) : y \in {y \in Operands(ts, f, i, j) : IsSigned(ts, y)}}
                           \cup J
            <3>1. ~(i >= j)
                  BY <1>3
            <3>. HIDE DEF f
            <3>. QED BY <1>1, <3>1 DEF ItemsOf
      <2>2. x \in J <=> \E k \in i+1..j-1 :
                           /\ ts[k].kind \in Operator
                           /\ \E y \in f[<<i, k - 1>>], z \in f[<<k + 1, j>>] :
                                 AreJoined(ts, y, z) /\ x = Joined(ts, y, z)
            <3>. HIDE DEF f
            <3>1. x \in J <=> \E z \in P : AreJoined(ts, z[1], z[2]) /\ x = Joined(ts, z[1], z[2])
                  OBVIOUS
            <3>2. \A z : z \in P <=> \E k \in i+1..j-1 : /\ ts[k].kind \in Operator
                                                         /\ z \in f[<<i, k - 1>>] \X f[<<k + 1, j>>]
                  BY DEF Pairs, Splits
            <3>. HIDE DEF P, J
            <3>3. ASSUME x \in J
                  PROVE  \E k \in i+1..j-1 :
                           /\ ts[k].kind \in Operator
                           /\ \E y \in f[<<i, k - 1>>], z \in f[<<k + 1, j>>] :
                                 AreJoined(ts, y, z) /\ x = Joined(ts, y, z)
                  <4>1. PICK z \in P : AreJoined(ts, z[1], z[2]) /\ x = Joined(ts, z[1], z[2])
                        BY <3>1, <3>3
                  <4>2. PICK k \in i+1..j-1 : /\ ts[k].kind \in Operator
                                              /\ z \in f[<<i, k - 1>>] \X f[<<k + 1, j>>]
                        BY <3>2
                  <4>3. z[1] \in f[<<i, k - 1>>] /\ z[2] \in f[<<k + 1, j>>]
                        BY <4>2
                  <4>. QED BY <4>1, <4>2, <4>3
            <3>4. ASSUME NEW k \in i+1..j-1, ts[k].kind \in Operator,
                         NEW y \in f[<<i, k - 1>>], NEW z \in f[<<k + 1, j>>],
                         AreJoined(ts, y, z), x = Joined(ts, y, z)
                  PROVE  x \in J
                  <4>. DEFINE w == <<y, z>>
                  <4>1. w \in f[<<i, k - 1>>] \X f[<<k + 1, j>>] /\ w[1] = y /\ w[2] = z
                        OBVIOUS
                  <4>. HIDE DEF w
                  <4>. QED BY <3>1, <3>2, <3>4, <4>1
            <3>. QED BY <3>3, <3>4
      <2>. HIDE DEF J, P, f
      <2>3. i # j
            BY ONLY <1>0, <1>3
      <2>. QED BY <1>3, <2>1, <2>2, <2>3 DEF Enclosed, Operands, f, IsMadeAt
<1>4. i >= j \/ i < j
      BY ONLY <1>0
<1>. QED BY <1>2, <1>3, <1>4

\* An item of the tokens i to j has these.
LEMMA ItemsInRange ==
    ASSUME NEW ts, IsTokens(ts)
    PROVE  \A i \in 1..Len(ts), j \in 0..Len(ts) : \A x \in Items(ts)[<<i, j>>] :
              InRange(ts, x) /\ x.first = i /\ x.last = j
<1>. DEFINE l == Len(ts)
            f == Items(ts)
            Good(i, j) == \A x \in f[<<i, j>>] : InRange(ts, x) /\ x.first = i /\ x.last = j
            B == {n \in 0..l : \E i \in 1..l, j \in 0..l : j - i = n /\ ~Good(i, j)}
<1>1. l \in Nat
      BY LenProperties DEF IsTokens
<1>. HIDE DEF Good
<1>2. ASSUME NEW i \in 1..l, NEW j \in 0..l, \A a \in 1..l, b \in 0..l : b - a < j - i => Good(a, b)
      PROVE  Good(i, j)
      <2>1. SUFFICES ASSUME NEW x \in f[<<i, j>>]
                     PROVE  InRange(ts, x) /\ x.first = i /\ x.last = j
            BY DEF Good
      <2>2. \/ IsMade(ts, x, {}) /\ x.first = i /\ x.last = j
            \/ \E d : /\ \A y \in d : InRange(ts, y)
                      /\ IsMade(ts, x, d) /\ x.first = i /\ x.last = j
            <3>1. CASE i = j /\ IsLeaf(ts, i) /\ x = LeafAt(ts, i)
                  BY <3>1 DEF IsMade, LeafAt, Item
            <3>2. CASE /\ i < j /\ \E y \in f[<<i + 1, j - 1>>] : IsBracketed(ts, y) /\ x = Bracketed(y)
                  <4>1. PICK y \in f[<<i + 1, j - 1>>] : IsBracketed(ts, y) /\ x = Bracketed(y)
                        BY <3>2
                  <4>2. i + 1 \in 1..l /\ j - 1 \in 0..l /\ (j - 1) - (i + 1) < j - i
                        BY <1>1, <3>2
                  <4>3. InRange(ts, y) /\ y.first = i + 1 /\ y.last = j - 1
                        BY <1>2, <4>2 DEF Good
                  <4>4. x.first = i /\ x.last = j
                        BY <4>1, <4>3 DEF Bracketed, Item
                  <4>5. IsMade(ts, x, {y})
                        BY <4>1 DEF IsMade
                  <4>. QED BY <4>3, <4>4, <4>5
            <3>3. CASE i < j /\ \E y \in f[<<i + 1, j>>] : IsSigned(ts, y) /\ x = Signed(ts, y)
                  <4>1. PICK y \in f[<<i + 1, j>>] : IsSigned(ts, y) /\ x = Signed(ts, y)
                        BY <3>3
                  <4>2. i + 1 \in 1..l /\ j - (i + 1) < j - i
                        BY <1>1, <3>3
                  <4>3. InRange(ts, y) /\ y.first = i + 1 /\ y.last = j
                        BY <1>2, <4>2 DEF Good
                  <4>4. x.first = i /\ x.last = j
                        BY <4>1, <4>3 DEF Signed, Item
                  <4>5. IsMade(ts, x, {y})
                        BY <4>1 DEF IsMade
                  <4>. QED BY <4>3, <4>4, <4>5
            <3>4. CASE \E k \in i+1..j-1 : \E y \in f[<<i, k - 1>>], z \in f[<<k + 1, j>>] :
                          AreJoined(ts, y, z) /\ x = Joined(ts, y, z)
                  <4>0. PICK k \in i+1..j-1 : \E y \in f[<<i, k - 1>>], z \in f[<<k + 1, j>>] :
                          AreJoined(ts, y, z) /\ x = Joined(ts, y, z)
                        BY <3>4
                  <4>1. PICK y \in f[<<i, k - 1>>], z \in f[<<k + 1, j>>] :
                          AreJoined(ts, y, z) /\ x = Joined(ts, y, z)
                        BY <4>0
                  <4>2. /\ k - 1 \in 0..l /\ (k - 1) - i < j - i
                        /\ k + 1 \in 1..l /\ j - (k + 1) < j - i
                        BY <1>1
                  <4>3. /\ InRange(ts, y) /\ y.first = i
                        /\ InRange(ts, z) /\ z.last = j
                        BY <1>2, <4>2 DEF Good
                  <4>4. x.first = i /\ x.last = j
                        BY <4>1, <4>3 DEF Joined, Item
                  <4>5. IsMade(ts, x, {y, z})
                        BY <4>1 DEF IsMade
                  <4>. QED BY <4>3, <4>4, <4>5
            <3>5. \/ i = j /\ IsLeaf(ts, i) /\ x = LeafAt(ts, i)
                  \/ i < j /\ \E y \in f[<<i + 1, j - 1>>] : IsBracketed(ts, y) /\ x = Bracketed(y)
                  \/ i < j /\ \E y \in f[<<i + 1, j>>] : IsSigned(ts, y) /\ x = Signed(ts, y)
                  \/ \E k \in i+1..j-1 : \E y \in f[<<i, k - 1>>], z \in f[<<k + 1, j>>] :
                          AreJoined(ts, y, z) /\ x = Joined(ts, y, z)
                  <4>1. IsMadeAt(ts, f, i, j, x)
                        BY <1>1, <2>1, ItemIsMade
                  <4>. HIDE DEF f
                  <4>. QED BY <4>1 DEF IsMadeAt
            <3>. QED BY <3>1, <3>2, <3>3, <3>4, <3>5
      <2>3. PICK d : /\ \A y \in d : InRange(ts, y)
                     /\ IsMade(ts, x, d) /\ x.first = i /\ x.last = j
            BY <2>2
      <2>. QED BY <2>3, MadeInRange
<1>3. \A i \in 1..l, j \in 0..l : ~Good(i, j) => j - i \in 0..l
      <2>1. SUFFICES ASSUME NEW i \in 1..l, NEW j \in 0..l, ~(j - i \in 0..l)
                     PROVE  Good(i, j)
            OBVIOUS
      <2>2. ~(i = j) /\ ~(i < j)
            BY <1>1, <2>1
      <2>3. \A x : ~IsMadeAt(ts, f, i, j, x)
            BY <2>2 DEF IsMadeAt
      <2>4. f[<<i, j>>] = {}
            BY <1>1, <2>3, ItemIsMade
      <2>. QED BY <2>4 DEF Good
<1>4. SUFFICES ASSUME B # {} PROVE FALSE
      <2>1. SUFFICES ASSUME NEW i \in 1..l, NEW j \in 0..l, ~Good(i, j) PROVE FALSE
            BY DEF Good
      <2>2. j - i \in B
            BY <1>3, <2>1
      <2>. QED BY <2>2
<1>5. PICK n \in B : \A m \in B : n <= m
      <2>. B \in SUBSET Nat
           OBVIOUS
      <2>. HIDE DEF B
      <2>. QED BY <1>4, LeastNatural
<1>6. PICK i \in 1..l, j \in 0..l : j - i = n /\ ~Good(i, j)
      OBVIOUS
<1>7. ASSUME NEW a \in 1..l, NEW b \in 0..l, b - a < j - i
      PROVE  Good(a, b)
      <2>1. b - a \notin B
            <3>1. ~(n <= b - a)
                  BY <1>1, <1>6, <1>7
            <3>. HIDE DEF B
            <3>. QED BY <1>5, <3>1
      <2>. QED BY <1>3, <2>1
<1>. QED BY <1>2, <1>6, <1>7

\* The items are those made of items, and each is made of shorter ones.
LEMMA DerivedIsMade ==
    ASSUME NEW ts, IsTokens(ts)
    PROVE  /\ \A x \in Derived(ts) :
                 /\ InRange(ts, x)
                 /\ IsMade(ts, x, {y \in Derived(ts) : y.last - y.first < x.last - x.first})
           /\ \A x : IsMade(ts, x, Derived(ts)) => x \in Derived(ts)
<1>. DEFINE l == Len(ts)
            D == Derived(ts)
            f == Items(ts)
<1>1. l \in Nat
      BY LenProperties DEF IsTokens
<1>2. \A i \in 1..l, j \in 0..l : f[<<i, j>>] \subseteq D
      BY DEF Derived, Part
<1>3. \A x \in D : \E i \in 1..l, j \in 0..l : x \in f[<<i, j>>]
      BY DEF Derived, Part
<1>4. ASSUME NEW x \in D
      PROVE  InRange(ts, x) /\ x \in f[<<x.first, x.last>>]
      <2>1. PICK i \in 1..l, j \in 0..l : x \in f[<<i, j>>]
            BY <1>3
      <2>2. InRange(ts, x) /\ x.first = i /\ x.last = j
            BY <2>1, ItemsInRange
      <2>. QED BY <2>1, <2>2
<1>. HIDE DEF D
<1>5. ASSUME NEW x \in D
      PROVE  IsMade(ts, x, {y \in D : y.last - y.first < x.last - x.first})
      <2>1. PICK i \in 1..l, j \in 0..l : x \in f[<<i, j>>]
            BY <1>3
      <2>2. IsMade(ts, x, D)
            <3>1. CASE i = j /\ IsLeaf(ts, i) /\ x = LeafAt(ts, i)
                  BY <3>1 DEF IsMade
            <3>2. CASE i < j /\ \E y \in f[<<i + 1, j - 1>>] : IsBracketed(ts, y) /\ x = Bracketed(y)
                  <4>1. i + 1 \in 1..l /\ j - 1 \in 0..l
                        BY <1>1, <3>2
                  <4>. QED BY <1>2, <3>2, <4>1 DEF IsMade
            <3>3. CASE i < j /\ \E y \in f[<<i + 1, j>>] : IsSigned(ts, y) /\ x = Signed(ts, y)
                  <4>1. i + 1 \in 1..l
                        BY <1>1, <3>3
                  <4>. QED BY <1>2, <3>3, <4>1 DEF IsMade
            <3>4. CASE \E k \in i+1..j-1 : \E y \in f[<<i, k - 1>>], z \in f[<<k + 1, j>>] :
                          AreJoined(ts, y, z) /\ x = Joined(ts, y, z)
                  <4>0. PICK k \in i+1..j-1 : \E y \in f[<<i, k - 1>>], z \in f[<<k + 1, j>>] :
                          AreJoined(ts, y, z) /\ x = Joined(ts, y, z)
                        BY <3>4
                  <4>1. PICK y \in f[<<i, k - 1>>], z \in f[<<k + 1, j>>] :
                          AreJoined(ts, y, z) /\ x = Joined(ts, y, z)
                        BY <4>0
                  <4>2. k - 1 \in 0..l /\ k + 1 \in 1..l
                        BY <1>1
                  <4>3. y \in D /\ z \in D
                        BY <1>2, <4>2
                  <4>. QED BY <4>1, <4>3 DEF IsMade
            <3>5. \/ i = j /\ IsLeaf(ts, i) /\ x = LeafAt(ts, i)
                  \/ i < j /\ \E y \in f[<<i + 1, j - 1>>] : IsBracketed(ts, y) /\ x = Bracketed(y)
                  \/ i < j /\ \E y \in f[<<i + 1, j>>] : IsSigned(ts, y) /\ x = Signed(ts, y)
                  \/ \E k \in i+1..j-1 : \E y \in f[<<i, k - 1>>], z \in f[<<k + 1, j>>] :
                          AreJoined(ts, y, z) /\ x = Joined(ts, y, z)
                  <4>1. IsMadeAt(ts, f, i, j, x)
                        BY <1>1, <2>1, ItemIsMade
                  <4>. HIDE DEF f
                  <4>. QED BY <4>1 DEF IsMadeAt
            <3>. QED BY <3>1, <3>2, <3>3, <3>4, <3>5
      <2>. HIDE DEF f
      <2>. QED BY <1>4, <2>2, MadeInRange
<1>6. ASSUME NEW x, IsMade(ts, x, D)
      PROVE  x \in D
      <2>1. \A y \in D : /\ y.first \in 1..l-1 /\ y.last \in y.first..l-1
                         /\ y.first \in Nat /\ y.last \in Nat /\ y \in f[<<y.first, y.last>>]
            <3>1. SUFFICES ASSUME NEW y \in D
                           PROVE  /\ y.first \in 1..l-1 /\ y.last \in y.first..l-1
                                  /\ y.first \in Nat /\ y.last \in Nat /\ y \in f[<<y.first, y.last>>]
                  OBVIOUS
            <3>2. y.first \in 1..l-1 /\ y.last \in y.first..l-1 /\ y \in f[<<y.first, y.last>>]
                  BY <1>4 DEF InRange
            <3>. HIDE DEF l, f
            <3>. QED BY <1>1, <3>2
      <2>. HIDE DEF l, f
      <2>2. CASE \E i \in 1..l : IsLeaf(ts, i) /\ x = LeafAt(ts, i)
            <3>1. PICK i \in 1..l : IsLeaf(ts, i) /\ x = LeafAt(ts, i)
                  BY <2>2
            <3>2. i \in 0..l
                  BY <1>1
            <3>3. x \in f[<<i, i>>]
                  BY <1>1, <3>1, <3>2, ItemIsMade DEF l, f, IsMadeAt
            <3>. QED BY <1>2, <3>2, <3>3
      <2>3. CASE \E y \in D : IsBracketed(ts, y) /\ x = Bracketed(y)
            <3>1. PICK y \in D : IsBracketed(ts, y) /\ x = Bracketed(y)
                  BY <2>3
            <3>2. y.first > 1 /\ ts[y.first-1].kind = "(" /\ ts[y.last+1].kind = ")"
                  BY <3>1 DEF IsBracketed
            <3>. DEFINE i == y.first - 1
                        j == y.last + 1
            <3>3. i \in 1..l /\ j \in 0..l /\ i < j /\ i + 1 = y.first /\ j - 1 = y.last
                  <4>1. /\ y.first \in 1..l-1 /\ y.last \in y.first..l-1
                        /\ y.first \in Nat /\ y.last \in Nat
                        BY <2>1
                  <4>. QED BY ONLY <1>1, <4>1, <3>2
            <3>4. y \in f[<<i + 1, j - 1>>] /\ ts[i].kind = "(" /\ ts[j].kind = ")"
                  BY <2>1, <3>2, <3>3
            <3>. HIDE DEF i, j
            <3>5. x \in f[<<i, j>>]
                  BY <1>1, <3>1, <3>3, <3>4, ItemIsMade DEF l, f, IsMadeAt
            <3>. QED BY <1>2, <3>3, <3>5
      <2>4. CASE \E y \in D : IsSigned(ts, y) /\ x = Signed(ts, y)
            <3>1. PICK y \in D : IsSigned(ts, y) /\ x = Signed(ts, y)
                  BY <2>4
            <3>2. y.first > 1 /\ ts[y.first-1].kind \in AddSub
                  BY <3>1 DEF IsSigned
            <3>. DEFINE i == y.first - 1
                        j == y.last
            <3>3. i \in 1..l /\ j \in 0..l /\ i < j /\ i + 1 = y.first
                  <4>1. /\ y.first \in 1..l-1 /\ y.last \in y.first..l-1
                        /\ y.first \in Nat /\ y.last \in Nat
                        BY <2>1
                  <4>. QED BY ONLY <1>1, <4>1, <3>2
            <3>4. y \in f[<<i + 1, j>>] /\ ts[i].kind \in AddSub
                  BY <2>1, <3>2, <3>3
            <3>. HIDE DEF i, j
            <3>5. x \in f[<<i, j>>]
                  BY <1>1, <3>1, <3>3, <3>4, ItemIsMade DEF l, f, IsMadeAt
            <3>. QED BY <1>2, <3>3, <3>5
      <2>5. CASE \E y \in D, z \in D : AreJoined(ts, y, z) /\ x = Joined(ts, y, z)
            <3>1. PICK y \in D, z \in D : AreJoined(ts, y, z) /\ x = Joined(ts, y, z)
                  BY <2>5
            <3>2. z.first = y.last + 2 /\ ts[y.last+1].kind \in Operator
                  BY <3>1 DEF AreJoined
            <3>. DEFINE i == y.first
                        j == z.last
                        k == y.last + 1
            <3>3. i \in 1..l /\ j \in 0..l /\ i < j /\ k \in i+1..j-1 /\ k - 1 = y.last /\ k + 1 = z.first
                  <4>1. /\ y.first \in 1..l-1 /\ y.last \in y.first..l-1 /\ y.last \in Nat
                        /\ z.first \in 1..l-1 /\ z.last \in z.first..l-1 /\ z.last \in Nat
                        BY <2>1
                  <4>. QED BY ONLY <1>1, <4>1, <3>2
            <3>4. y \in f[<<i, k - 1>>] /\ z \in f[<<k + 1, j>>] /\ ts[k].kind \in Operator
                  BY <2>1, <3>2, <3>3
            <3>. HIDE DEF i, j, k
            <3>5. x \in f[<<i, j>>]
                  BY <1>1, <3>1, <3>3, <3>4, ItemIsMade DEF l, f, IsMadeAt
            <3>. QED BY <1>2, <3>3, <3>5
      <2>. QED BY <1>6, <2>2, <2>3, <2>4, <2>5 DEF IsMade, l
<1>. QED BY <1>4, <1>5, <1>6 DEF D

\* The items of all tokens but the last.
LEMMA WholeIsDerived ==
    ASSUME NEW ts, IsTokens(ts)
    PROVE  Whole(ts) = {x \in Derived(ts) : x.first = 1 /\ x.last = Len(ts) - 1}
<1>1. Len(ts) \in Nat \ {0}
      BY EmptySeq, LenProperties DEF IsTokens
<1>2. 1 \in 1..Len(ts) /\ Len(ts) - 1 \in 0..Len(ts)
      BY <1>1
<1>3. ASSUME NEW x \in Derived(ts), x.first = 1, x.last = Len(ts) - 1
      PROVE  x \in Whole(ts)
      <2>1. PICK i \in 1..Len(ts), j \in 0..Len(ts) : x \in Items(ts)[<<i, j>>]
            BY DEF Derived, Part
      <2>2. i = 1 /\ j = Len(ts) - 1
            BY <1>3, <2>1, ItemsInRange
      <2>. QED BY <2>1, <2>2 DEF Whole
<1>4. ASSUME NEW x \in Whole(ts)
      PROVE  x \in Derived(ts) /\ x.first = 1 /\ x.last = Len(ts) - 1
      <2>1. x \in Items(ts)[<<1, Len(ts) - 1>>]
            BY DEF Whole
      <2>2. x.first = 1 /\ x.last = Len(ts) - 1
            BY <1>2, <2>1, ItemsInRange
      <2>. QED BY <1>2, <2>1, <2>2 DEF Derived, Part
<1>. QED BY <1>3, <1>4

---------------------------------------------------------------------------
(***************************************************************************)
(* What an item begins with.                                               *)
(***************************************************************************)

\* A set that has what an operation of it has on the left.
HasLefts(ts, S) == \A y \in Derived(ts), z \in Derived(ts) :
                      AreJoined(ts, y, z) /\ Joined(ts, y, z) \in S => y \in S

\* The item e, what it has on the left, and so on.
Spine(ts, e) == {y \in Derived(ts) :
                    \A S \in SUBSET Derived(ts) : e \in S /\ HasLefts(ts, S) => y \in S}

LEMMA SpineHasLefts ==
    ASSUME NEW ts, NEW e \in Derived(ts)
    PROVE  e \in Spine(ts, e) /\ HasLefts(ts, Spine(ts, e))
BY DEF Spine, HasLefts

\* All on the spine begin where the item begins, and bind no less.
LEMMA SpineBegins ==
    ASSUME NEW ts, IsTokens(ts), NEW e \in Derived(ts), NEW y \in Spine(ts, e)
    PROVE  y \in Derived(ts) /\ y.first = e.first /\ y.p >= e.p
<1>. DEFINE D == Derived(ts)
            S == {u \in D : u.first = e.first /\ u.p >= e.p}
<1>1. \A u \in D : u.p \in 3..6 /\ u.first \in Nat
      <2>1. Len(ts) \in Nat
            BY LenProperties DEF IsTokens
      <2>2. \A u \in D : InRange(ts, u)
            BY DerivedIsMade
      <2>. HIDE DEF D, S
      <2>. QED BY ONLY <2>1, <2>2 DEF InRange
<1>2. e \in S
      BY <1>1
<1>3. ASSUME NEW u \in D, NEW v \in D, AreJoined(ts, u, v), Joined(ts, u, v) \in S
      PROVE  u \in S
      <2>. DEFINE op == ts[u.last + 1].kind
      <2>1. Joined(ts, u, v).first = u.first /\ Joined(ts, u, v).p = Priority(op)
            BY DEF Joined, Item
      <2>2. u.p >= Priority(op) /\ Priority(op) \in {3, 4}
            BY <1>3 DEF AreJoined, Priority
      <2>3. u.first = e.first /\ Priority(op) >= e.p
            BY <1>3, <2>1
      <2>. HIDE DEF op
      <2>. QED BY <1>1, <2>2, <2>3
<1>4. HasLefts(ts, S)
      BY <1>3 DEF HasLefts
<1>. QED BY <1>2, <1>4 DEF Spine

\* All on the spine but the item itself are on the left of something on it.
LEMMA SpineGoesOn ==
    ASSUME NEW ts, NEW e \in Derived(ts), NEW y \in Spine(ts, e), y # e
    PROVE  \E z \in Derived(ts) : AreJoined(ts, y, z) /\ Joined(ts, y, z) \in Spine(ts, e)
<1>. DEFINE D == Derived(ts)
            S == {u \in Spine(ts, e) : \/ u = e
                                       \/ \E z \in D : AreJoined(ts, u, z) /\ Joined(ts, u, z) \in Spine(ts, e)}
<1>1. e \in Spine(ts, e) /\ HasLefts(ts, Spine(ts, e))
      BY SpineHasLefts
<1>2. HasLefts(ts, S)
      BY <1>1 DEF HasLefts
<1>3. S \in SUBSET D /\ e \in S
      BY <1>1 DEF Spine
<1>. HIDE DEF S
<1>4. y \in S
      BY <1>2, <1>3 DEF Spine
<1>. QED BY <1>4 DEF S

\* An item begins with one that is no operation.
LEMMA SpineEnds ==
    ASSUME NEW ts, IsTokens(ts), NEW e \in Derived(ts)
    PROVE  \E y \in Spine(ts, e) :
              \/ \E i \in 1..Len(ts) : IsLeaf(ts, i) /\ y = LeafAt(ts, i)
              \/ \E z \in Derived(ts) : IsBracketed(ts, z) /\ y = Bracketed(z)
              \/ \E z \in Derived(ts) : IsSigned(ts, z) /\ y = Signed(ts, z)
<1>. DEFINE D == Derived(ts)
            widths == {y.last - y.first : y \in Spine(ts, e)}
<1>1. \A y \in D : y.last - y.first \in Nat /\ IsMade(ts, y, {z \in D : z.last - z.first < y.last - y.first})
      <2>1. Len(ts) \in Nat
            BY LenProperties DEF IsTokens
      <2>. QED BY <2>1, DerivedIsMade DEF InRange
<1>2. Spine(ts, e) \subseteq D /\ e \in Spine(ts, e) /\ HasLefts(ts, Spine(ts, e))
      BY SpineHasLefts DEF Spine
<1>3. PICK w \in widths : \A v \in widths : w <= v
      <2>. widths \in SUBSET Nat /\ widths # {}
           BY <1>1, <1>2
      <2>. HIDE DEF widths
      <2>. QED BY LeastNatural
<1>4. PICK y \in Spine(ts, e) : y.last - y.first = w
      BY <1>3
<1>5. \A z \in Spine(ts, e) : y.last - y.first <= z.last - z.first
      BY <1>3, <1>4
<1>6. y \in D /\ y.last - y.first \in Nat /\ IsMade(ts, y, {z \in D : z.last - z.first < y.last - y.first})
      BY <1>1, <1>2
<1>. HIDE DEF D, widths
<1>7. ~ \E u \in D, v \in D : /\ u.last - u.first < y.last - y.first
                               /\ AreJoined(ts, u, v) /\ y = Joined(ts, u, v)
      <2>1. SUFFICES ASSUME NEW u \in D, NEW v \in D, u.last - u.first < y.last - y.first,
                            AreJoined(ts, u, v), y = Joined(ts, u, v)
                     PROVE  FALSE
            OBVIOUS
      <2>2. u \in Spine(ts, e)
            BY <1>2, <2>1 DEF HasLefts, D
      <2>3. u.last - u.first \in Nat
            BY <1>1
      <2>. QED BY <1>5, <1>6, <2>1, <2>2, <2>3
<1>. QED BY <1>6, <1>7 DEF IsMade, D

---------------------------------------------------------------------------
(***************************************************************************)
(* The tokens of a text.                                                   *)
(***************************************************************************)

\* The tokens ts are those of s, and left is what is left of s behind each.
LexesTo(s, ts, left) ==
    /\ left[0] = s
    /\ \A i \in 1..Len(ts) :
          LET solid == SkipWhite(left[i-1])
          IN /\ ts[i] = FirstToken(solid)
             /\ left[i] = SubSeq(solid, Len(ts[i].chars) + 1, Len(solid))

\* Blanks make a text no longer.
LEMMA SkipWhiteLength ==
    ASSUME NEW s \in Seq(STRING)
    PROVE  Len(SkipWhite(s)) \in 0..Len(s)
<1>. DEFINE solid == {i \in DOMAIN s : s[i] \notin White}
<1>1. Len(s) \in Nat /\ DOMAIN s = 1..Len(s)
      BY LenProperties
<1>2. CASE solid = {}
      BY <1>1, <1>2, EmptySeq DEF SkipWhite
<1>3. CASE solid # {}
      <2>1. solid \in SUBSET Nat /\ solid \subseteq 1..Len(s)
            BY <1>1
      <2>. HIDE DEF solid
      <2>2. Min(solid) \in 1..Len(s)
            BY <1>3, <2>1, MinOfNaturals
      <2>3. SkipWhite(s) = SubSeq(s, Min(solid), Len(s))
            BY <1>3 DEF SkipWhite, solid
      <2>4. Len(SubSeq(s, Min(solid), Len(s))) = Len(s) - Min(solid) + 1
            BY <1>1, <2>2
      <2>. QED BY <1>1, <2>2, <2>3, <2>4
<1>. QED BY <1>2, <1>3

\* A token but the last has characters, of those in front of which it stands.
LEMMA FirstTokenLength ==
    ASSUME NEW s \in Seq(STRING)
    PROVE  IsLastToken(FirstToken(s)) \/ Len(FirstToken(s).chars) \in 1..Len(s)
<1>. DEFINE lengths == {n \in DOMAIN s : NumberToken(SubSeq(s, 1, n)) \/ CellToken(SubSeq(s, 1, n))}
            longest == SubSeq(s, 1, Max(lengths))
<1>1. Len(s) \in Nat /\ DOMAIN s = 1..Len(s)
      BY LenProperties
<1>2. lengths # {} => Len(longest) \in 1..Len(s)
      <2>1. SUFFICES ASSUME lengths # {} PROVE Len(longest) \in 1..Len(s)
            OBVIOUS
      <2>2. lengths \in SUBSET (0..Len(s)) /\ lengths \subseteq 1..Len(s)
            BY <1>1
      <2>. HIDE DEF lengths
      <2>3. Max(lengths) \in 1..Len(s)
            BY <1>1, <2>1, <2>2, MaxOfBounded
      <2>. QED BY <1>1, <2>3
<1>. HIDE DEF lengths, longest
<1>3. CASE s = <<>>
      <2>1. FirstToken(s) = [kind |-> "EOF", chars |-> <<>>]
            BY <1>3, EmptySeq DEF FirstToken, EOF
      <2>. QED BY <2>1 DEF IsLastToken
<1>4. CASE s # <<>> /\ s[1] \in Operator \cup Bracket
      <2>1. FirstToken(s) = [kind |-> s[1], chars |-> <<s[1]>>]
            BY <1>4 DEF FirstToken, Symbol
      <2>2. Len(s) >= 1
            BY <1>1, <1>4, EmptySeq
      <2>3. Len(<<s[1]>>) = 1
            OBVIOUS
      <2>. QED BY <1>1, <2>1, <2>2, <2>3
<1>5. CASE s # <<>> /\ s[1] \notin Operator \cup Bracket /\ lengths = {}
      <2>1. FirstToken(s) = [kind |-> "error", chars |-> s]
            BY <1>5 DEF FirstToken, lengths
      <2>. QED BY <2>1 DEF IsLastToken
<1>6. CASE s # <<>> /\ s[1] \notin Operator \cup Bracket /\ lengths # {}
      <2>1. FirstToken(s).chars = longest
            BY <1>6 DEF FirstToken, lengths, longest
      <2>. QED BY <1>2, <1>6, <2>1
<1>. QED BY <1>3, <1>4, <1>5, <1>6

\* The tokens read, and what is left, one after the other.
AreReads(lexed, s) ==
    /\ lexed[0] = [read |-> <<>>, rest |-> s]
    /\ \A n \in 1..Len(s)+1 : lexed[n] = ReadToken(lexed[n-1])

LEMMA ReadsExist ==
    ASSUME NEW s, Len(s) \in Nat
    PROVE  \E lexed : AreReads(lexed, s) /\ Tokens(s) = lexed[Len(s)+1].read
<1>. DEFINE l == Len(s) + 1
            first == [read |-> <<>>, rest |-> s]
            Entry(r, i) == IF i = 0 THEN first ELSE ReadToken(r[i-1])
            IsPart(r, n) == r = [i \in 0..n |-> Entry(r, i)]
            S == {n \in Nat : ~ \E r : IsPart(r, n)}
<1>. HIDE DEF first
<1>1. S = {}
      <2>1. SUFFICES ASSUME S # {} PROVE FALSE
            OBVIOUS
      <2>2. PICK n \in S : \A m \in S : n <= m
            <3>. S \in SUBSET Nat
                 OBVIOUS
            <3>. HIDE DEF S
            <3>. QED BY <2>1, LeastNatural
      <2>3. n \in Nat /\ ~ \E r : IsPart(r, n)
            OBVIOUS
      <2>4. CASE n = 0
            <3>. DEFINE q == [i \in 0..0 |-> first]
            <3>1. \A i \in 0..0 : Entry(q, i) = first
                  OBVIOUS
            <3>2. IsPart(q, 0)
                  <4>. HIDE DEF Entry
                  <4>. QED BY <3>1
            <3>. QED BY <2>3, <2>4, <3>2
      <2>5. CASE n # 0
            <3>1. n - 1 \in Nat /\ n - 1 \notin S
                  <4>1. n \in Nat
                        BY <2>3
                  <4>. HIDE DEF S
                  <4>2. n - 1 \in Nat /\ ~(n <= n - 1)
                        BY ONLY <2>5, <4>1
                  <4>. QED BY ONLY <2>2, <4>2
            <3>2. PICK r : IsPart(r, n - 1)
                  BY <3>1
            <3>. DEFINE q == [i \in 0..n |-> Entry(r, i)]
            <3>3. \A i \in 0..n - 1 : r[i] = Entry(r, i)
                  BY <3>2
            <3>4. \A i \in 0..n - 1 : q[i] = r[i]
                  <4>. HIDE DEF Entry
                  <4>. QED BY <2>3, <3>3
            <3>5. \A i \in 0..n : Entry(q, i) = Entry(r, i)
                  <4>. HIDE DEF q
                  <4>1. \A i \in 0..n : i # 0 => q[i-1] = r[i-1]
                        BY <2>3, <3>4
                  <4>. QED BY <4>1
            <3>6. IsPart(q, n)
                  BY <3>5
            <3>. QED BY <2>3, <3>6
      <2>. QED BY <2>4, <2>5
<1>. DEFINE Eq(f) == f = [n \in 0..l |-> IF n = 0 THEN first ELSE ReadToken(f[n-1])]
            lexed == CHOOSE f : Eq(f)
<1>2. \E f : Eq(f)
      BY <1>1
<1>3. Eq(lexed)
      <2>. HIDE DEF Eq
      <2>. QED BY <1>2
<1>4. Tokens(s) = lexed[l].read
      BY DEF Tokens, first
<1>. HIDE DEF lexed
<1>5. \A n \in 0..l : lexed[n] = IF n = 0 THEN first ELSE ReadToken(lexed[n-1])
      BY <1>3
<1>6. AreReads(lexed, s)
      <2>1. lexed[0] = first
            <3>1. 0 \in 0..l
                  OBVIOUS
            <3>. HIDE DEF l, Eq, Entry, IsPart, S
            <3>. QED BY ONLY <1>5, <3>1
      <2>2. \A n \in 1..l : lexed[n] = ReadToken(lexed[n-1])
            <3>1. \A n \in 1..l : n \in 0..l /\ n # 0
                  OBVIOUS
            <3>. HIDE DEF l, Eq, Entry, IsPart, S
            <3>. QED BY ONLY <1>5, <3>1
      <2>. QED BY <2>1, <2>2 DEF AreReads, first
<1>. QED BY <1>4, <1>6
\* Reading goes on to the last token, and that is reached.
LEMMA ReadsEnd ==
    ASSUME NEW s \in Seq(STRING), NEW lexed, AreReads(lexed, s)
    PROVE  LET ts == lexed[Len(s)+1].read
               left == [i \in 0..Len(s)+1 |-> lexed[i].rest]
           IN  IsTokens(ts) /\ LexesTo(s, ts, left)
<1>. DEFINE l == Len(s) + 1
            left == [i \in 0..l |-> lexed[i].rest]
            Read(n) == lexed[n].read
            Going(n) == /\ Len(Read(n)) = n
                        /\ n + Len(lexed[n].rest) <= Len(s)
                        /\ \A i \in 1..n : ~IsLastToken(Read(n)[i])
            Good(n) == /\ Read(n) \in Seq(Token) /\ Len(Read(n)) \in 0..n
                       /\ lexed[n].rest \in Seq(STRING)
                       /\ LexesTo(s, Read(n), left)
                       /\ Going(n) \/ IsTokens(Read(n))
            B == {n \in 0..l : ~Good(n)}
<1>1. Len(s) \in Nat /\ l \in Nat \ {0}
      BY LenProperties
<1>2. \A i \in 0..l : left[i] = lexed[i].rest
      OBVIOUS
<1>3. /\ lexed[0] = [read |-> <<>>, rest |-> s]
      /\ \A n \in 1..l : lexed[n] = ReadToken(lexed[n-1])
      BY DEF AreReads
<1>. HIDE DEF left
<1>4. Good(0)
      <2>1. Read(0) = <<>> /\ lexed[0].rest = s /\ left[0] = s
            BY <1>1, <1>2, <1>3
      <2>2. Read(0) \in Seq(Token) /\ Len(Read(0)) = 0
            BY <2>1, EmptySeq
      <2>3. LexesTo(s, Read(0), left)
            BY <2>1, <2>2 DEF LexesTo
      <2>. HIDE DEF l
      <2>. QED BY <1>1, <2>1, <2>2, <2>3
<1>5. ASSUME NEW n \in 1..l, Good(n-1)
      PROVE  Good(n)
      <2>. DEFINE solid == SkipWhite(lexed[n-1].rest)
                  t == FirstToken(solid)
                  behind == SubSeq(solid, Len(t.chars) + 1, Len(solid))
      <2>1. n \in Nat \ {0} /\ n - 1 \in 0..l /\ n \in 0..l
            BY <1>1
      <2>2. /\ left[n-1] = lexed[n-1].rest /\ left[n] = lexed[n].rest
            /\ lexed[n-1].rest \in Seq(STRING) /\ Read(n-1) \in Seq(Token)
            BY <1>2, <1>5, <2>1
      <2>3. CASE Read(n-1) # <<>> /\ IsLastToken(Last(Read(n-1)))
            <3>1. lexed[n] = lexed[n-1]
                  BY <1>3, <2>3 DEF ReadToken
            <3>2. Going(n-1) => FALSE
                  <4>1. Len(Read(n-1)) \in Nat \ {0}
                        BY <2>2, <2>3, EmptySeq, LenProperties
                  <4>2. Last(Read(n-1)) = Read(n-1)[Len(Read(n-1))]
                        BY DEF Last
                  <4>. QED BY <2>3, <4>1, <4>2
            <3>3. Len(Read(n)) \in 0..n
                  BY <1>5, <2>1, <3>1
            <3>. QED BY <1>5, <3>1, <3>2, <3>3
      <2>4. CASE ~(Read(n-1) # <<>> /\ IsLastToken(Last(Read(n-1))))
            <3>1. lexed[n] = [read |-> Append(Read(n-1), t), rest |-> behind]
                  BY <1>3, <2>4 DEF ReadToken
            <3>2. /\ Len(Read(n-1)) = n - 1
                  /\ n - 1 + Len(lexed[n-1].rest) <= Len(s)
                  /\ \A i \in 1..n-1 : ~IsLastToken(Read(n-1)[i])
                  <4>1. ~IsTokens(Read(n-1))
                        <5>1. SUFFICES ASSUME IsTokens(Read(n-1)) PROVE FALSE
                              OBVIOUS
                        <5>2. Len(Read(n-1)) \in 1..Len(Read(n-1)) /\ Read(n-1) # <<>>
                              BY <5>1, EmptySeq, LenProperties DEF IsTokens
                        <5>3. IsLastToken(Read(n-1)[Len(Read(n-1))])
                              BY <5>1, <5>2 DEF IsTokens
                        <5>. QED BY <2>4, <5>2, <5>3 DEF Last
                  <4>. QED BY <1>5, <4>1
            <3>3. /\ solid \in Seq(STRING) /\ Len(solid) \in 0..Len(lexed[n-1].rest)
                  /\ Len(lexed[n-1].rest) \in Nat
                  BY <2>2, SkipWhiteType, SkipWhiteLength, LenProperties
            <3>4. t \in Token /\ (IsLastToken(t) \/ Len(t.chars) \in 1..Len(solid))
                  <4>. HIDE DEF solid
                  <4>. QED BY <3>3, FirstTokenType, FirstTokenLength
            <3>5. t.chars \in Seq(Character) /\ Len(t.chars) \in Nat
                  BY <3>4, LenProperties DEF Token
            <3>6. behind \in Seq(STRING)
                  <4>1. Len(t.chars) + 1 \in Nat \ {0} /\ Len(solid) \in 0..Len(solid)
                        BY <3>3, <3>5
                  <4>. HIDE DEF solid, t
                  <4>. QED BY <3>3, <4>1, PartOfText
            <3>7. IsLastToken(t) \/ Len(behind) <= Len(solid) - 1
                  <4>1. CASE IsLastToken(t)
                        BY <4>1
                  <4>2. CASE Len(t.chars) \in 1..Len(solid)
                        <5>. HIDE DEF solid, t
                        <5>1. /\ Len(t.chars) + 1 \in Nat \ {0} /\ Len(t.chars) + 1 <= Len(solid) + 1
                              /\ solid \in Seq(STRING)
                              BY <3>3, <3>5, <4>2
                        <5>2. Len(behind) = Len(solid) - (Len(t.chars) + 1) + 1
                              <6>1. SubSeq(solid, Len(t.chars) + 1, Len(solid)) = behind
                                    OBVIOUS
                              <6>2. Len(SubSeq(solid, Len(t.chars) + 1, Len(solid)))
                                       = Len(solid) - (Len(t.chars) + 1) + 1
                                    BY ONLY <5>1, RestLength
                              <6>. HIDE DEF behind
                              <6>. QED BY ONLY <6>1, <6>2
                        <5>. HIDE DEF behind
                        <5>. QED BY ONLY <3>3, <4>2, <5>2
                  <4>. QED BY <3>4, <4>1, <4>2
            <3>. DEFINE r == Append(Read(n-1), t)
            <3>8. /\ r \in Seq(Token) /\ Len(r) = n /\ r # <<>>
                  /\ \A i \in 1..n-1 : r[i] = Read(n-1)[i]
                  /\ r[n] = t
                  <4>1. /\ r \in Seq(Token) /\ Len(r) = n - 1 + 1
                        /\ \A i \in 1..n-1 : r[i] = Read(n-1)[i]
                        /\ r[n-1+1] = t
                        <5>. HIDE DEF t
                        <5>. QED BY <2>2, <3>2, <3>4, AppendProperties
                  <4>. HIDE DEF r
                  <4>. QED BY <2>1, <4>1, EmptySeq
            <3>9. Read(n) = r /\ lexed[n].rest = behind /\ left[n] = behind
                  BY <2>2, <3>1
            <3>. HIDE DEF t, solid, behind, r
            <3>10. LexesTo(s, r, left)
                  <4>1. SUFFICES ASSUME NEW i \in 1..n
                                 PROVE  /\ r[i] = FirstToken(SkipWhite(left[i-1]))
                                        /\ left[i] = SubSeq(SkipWhite(left[i-1]), Len(r[i].chars) + 1,
                                                            Len(SkipWhite(left[i-1])))
                        <5>1. left[0] = s
                              BY <1>5 DEF LexesTo
                        <5>. QED BY <3>8, <4>1, <5>1 DEF LexesTo
                  <4>2. CASE i = n
                        BY <2>2, <3>8, <3>9, <4>2 DEF t, solid, behind
                  <4>3. CASE i # n
                        <5>1. i \in 1..n-1
                              BY <2>1, <4>3
                        <5>2. i \in 1..Len(Read(n-1)) /\ r[i] = Read(n-1)[i]
                              BY <3>2, <3>8, <5>1
                        <5>. QED BY <1>5, <5>2 DEF LexesTo
                  <4>. QED BY <4>2, <4>3
            <3>11. IsTokens(r) \/ Going(n)
                  <4>1. CASE IsLastToken(t)
                        <5>1. \A i \in 1..n : IsLastToken(r[i]) <=> i = n
                              BY <2>1, <3>2, <3>8, <4>1
                        <5>. QED BY <3>8, <5>1 DEF IsTokens
                  <4>2. CASE ~IsLastToken(t)
                        <5>1. \A i \in 1..n : ~IsLastToken(r[i])
                              BY <2>1, <3>2, <3>8, <4>2
                        <5>2. Len(behind) \in Nat
                              BY <3>6, LenProperties
                        <5>3. n + Len(behind) <= Len(s)
                              BY ONLY <1>1, <2>1, <3>2, <3>3, <3>7, <4>2, <5>2
                        <5>. QED BY <3>8, <3>9, <5>1, <5>3
                  <4>. QED BY <4>1, <4>2
            <3>12. Len(r) \in 0..n
                  BY <2>1, <3>8
            <3>. QED BY <3>6, <3>8, <3>9, <3>10, <3>11, <3>12
      <2>. QED BY <2>3, <2>4
<1>. HIDE DEF Good
<1>6. B = {}
      <2>1. SUFFICES ASSUME B # {} PROVE FALSE
            OBVIOUS
      <2>2. PICK n \in B : \A m \in B : n <= m
            <3>. B \in SUBSET Nat
                 BY <1>1
            <3>. HIDE DEF B
            <3>. QED BY <2>1, LeastNatural
      <2>3. n \in 0..l /\ ~Good(n)
            OBVIOUS
      <2>4. n # 0
            BY <1>4, <2>3
      <2>5. n \in 1..l /\ n - 1 \in 0..l /\ ~(n <= n - 1)
            BY <1>1, <2>3, <2>4
      <2>6. n - 1 \notin B
            <3>. HIDE DEF B
            <3>. QED BY <2>2, <2>5
      <2>. QED BY <1>5, <2>3, <2>5, <2>6
<1>7. Good(l)
      BY <1>1, <1>6
<1>8. ~Going(l)
      <2>1. SUFFICES ASSUME Going(l) PROVE FALSE
            OBVIOUS
      <2>2. lexed[l].rest \in Seq(STRING)
            BY <1>7 DEF Good
      <2>3. Len(lexed[l].rest) \in Nat
            BY <2>2, LenProperties
      <2>. DEFINE m == Len(lexed[l].rest)
      <2>4. l = Len(s) + 1 /\ l + m <= Len(s) /\ m \in Nat
            BY <2>1, <2>3
      <2>. HIDE DEF l, m
      <2>. QED BY <1>1, <2>4
<1>. HIDE DEF Going
<1>. QED BY <1>7, <1>8 DEF Good, left

\* A text has tokens, of which one at the end is the last.
LEMMA TokensLexed ==
    ASSUME NEW s \in Seq(STRING)
    PROVE  IsTokens(Tokens(s)) /\ \E left : LexesTo(s, Tokens(s), left)
<1>1. Len(s) \in Nat
      BY LenProperties
<1>2. PICK lexed : AreReads(lexed, s) /\ Tokens(s) = lexed[Len(s)+1].read
      BY <1>1, ReadsExist
<1>. DEFINE left == [i \in 0..Len(s)+1 |-> lexed[i].rest]
<1>. HIDE DEF left
<1>3. IsTokens(Tokens(s)) /\ LexesTo(s, Tokens(s), left)
      BY <1>2, ReadsEnd DEF left
<1>. QED BY <1>3

---------------------------------------------------------------------------
(***************************************************************************)
(* What the walk makes of the nodes.                                       *)
(***************************************************************************)
IsStack(st) == \E S : st \in Seq(S)

\* The walk leaves node, with st on the stack of the listener, and st2 behind it.
Visits(node, st, st2) ==
    \/ /\ node.kind \in {"CELL", "NUMBER"}
       /\ st2 = Append(st, <<node.kind, node.chars>>)
    \/ /\ node.kind = "unary"
       /\ st2 = [st EXCEPT ![Len(st)] = <<"unary", node.op, @>>]
    \/ /\ node.kind = "binary"
       /\ st2 = Append(SubSeq(st, 1, Len(st) - 2),
                       <<"binary", node.op, st[Len(st) - 1], st[Len(st)]>>)

\* The walk of the nodes s makes the stack to of the stack from.
Builds(s, from, to) ==
    \E run : /\ run[0] = from /\ run[Len(s)] = to
             /\ \A i \in 1..Len(s) : Visits(s[i], run[i-1], run[i])

LEMMA AppendedStack ==
    ASSUME NEW st, IsStack(st), NEW x
    PROVE  /\ IsStack(Append(st, x)) /\ Len(Append(st, x)) = Len(st) + 1 /\ Len(st) \in Nat
           /\ \A i \in 1..Len(st) : Append(st, x)[i] = st[i]
           /\ Append(st, x)[Len(st)+1] = x
<1>1. PICK S : st \in Seq(S)
      BY DEF IsStack
<1>2. Len(st) \in Nat /\ st = [i \in 1..Len(st) |-> st[i]] /\ \A i \in 1..Len(st) : st[i] \in S
      BY <1>1, LenProperties, ElementOfSeq
<1>. DEFINE T == S \cup {x}
<1>3. \A i \in 1..Len(st) : st[i] \in T
      BY <1>2
<1>4. x \in T
      OBVIOUS
<1>. HIDE DEF T
<1>5. st \in Seq(T)
      BY <1>2, <1>3, IsASeq
<1>. QED BY <1>2, <1>4, <1>5, AppendProperties DEF IsStack

\* A sign takes its operand from the top of the stack.
LEMMA VisitsUnary ==
    ASSUME NEW u, IsStack(u), NEW t, NEW node, node.kind = "unary"
    PROVE  Visits(node, Append(u, t), Append(u, <<"unary", node.op, t>>))
<1>. DEFINE l == Len(u)
            a == Append(u, t)
            x == <<"unary", node.op, t>>
            b == Append(u, x)
            c == [a EXCEPT ![Len(a)] = <<"unary", node.op, @>>]
<1>. HIDE DEF x
<1>1. /\ IsStack(a) /\ Len(a) = l + 1 /\ l \in Nat
      /\ \A i \in 1..l : a[i] = u[i]
      /\ a[l+1] = t
      BY AppendedStack
<1>2. /\ IsStack(b) /\ Len(b) = l + 1
      /\ \A i \in 1..l : b[i] = u[i]
      /\ b[l+1] = x
      BY AppendedStack
<1>. HIDE DEF a, b, l
<1>3. a = [i \in 1..l+1 |-> a[i]] /\ b = [i \in 1..l+1 |-> b[i]]
      BY <1>1, <1>2, LenProperties DEF IsStack
<1>4. c = [i \in 1..l+1 |-> IF i = l + 1 THEN x ELSE a[i]]
      <2>1. DOMAIN a = 1..l+1
            BY <1>3
      <2>2. c = [i \in 1..l+1 |-> IF i = l + 1 THEN <<"unary", node.op, a[l+1]>> ELSE a[i]]
            BY <1>1, <2>1
      <2>. QED BY <1>1, <2>2 DEF x
<1>. HIDE DEF c
<1>5. c = b
      <2>1. \A i \in 1..l+1 : (IF i = l + 1 THEN x ELSE a[i]) = b[i]
            <3>1. SUFFICES ASSUME NEW i \in 1..l+1, i # l + 1 PROVE a[i] = b[i]
                  BY <1>2
            <3>2. i \in 1..l
                  BY <1>1, <3>1
            <3>. QED BY <1>1, <1>2, <3>2
      <2>. QED BY <1>3, <1>4, <2>1
<1>. QED BY <1>5 DEF Visits, a, b, c, x

\* An operation takes two.
LEMMA VisitsBinary ==
    ASSUME NEW u, IsStack(u), NEW t, NEW v, NEW node, node.kind = "binary"
    PROVE  Visits(node, Append(Append(u, t), v), Append(u, <<"binary", node.op, t, v>>))
<1>. DEFINE l == Len(u)
            a == Append(u, t)
            b == Append(a, v)
<1>1. /\ IsStack(a) /\ Len(a) = l + 1 /\ l \in Nat
      /\ \A i \in 1..l : a[i] = u[i]
      /\ a[l+1] = t
      BY AppendedStack
<1>. HIDE DEF a
<1>2. /\ IsStack(b) /\ Len(b) = l + 2
      /\ \A i \in 1..l+1 : b[i] = a[i]
      /\ b[l+2] = v
      <2>1. /\ IsStack(b) /\ Len(b) = Len(a) + 1
            /\ \A i \in 1..Len(a) : b[i] = a[i]
            /\ b[Len(a)+1] = v
            BY <1>1, AppendedStack
      <2>2. l + 1 + 1 = l + 2
            BY <1>1
      <2>. HIDE DEF b, l
      <2>. QED BY <1>1, <2>1, <2>2
<1>. HIDE DEF b
<1>3. /\ b[l+2] = v /\ b[l+1] = t
      /\ Len(b) - 1 = l + 1 /\ Len(b) - 2 = l
      /\ \A i \in 1..l : b[i] = u[i]
      BY <1>1, <1>2
<1>4. SubSeq(b, 1, l) = u
      <2>1. PICK S : u \in Seq(S)
            BY DEF IsStack
      <2>2. u = [i \in 1..l |-> u[i]] /\ \A i \in 1..l : u[i] \in S
            BY <2>1, LenProperties, ElementOfSeq
      <2>. DEFINE s == SubSeq(b, 1, l)
      <2>3. 1 \in Int /\ l \in Int /\ \A i \in 1..l : b[i] \in S
            BY <1>1, <1>3, <2>2
      <2>4. /\ s \in Seq(S) /\ Len(s) = IF 1 <= l THEN l - 1 + 1 ELSE 0
            /\ \A i \in 1..l-1+1 : s[i] = b[1+i-1]
            <3>. HIDE DEF l
            <3>. QED BY <2>3, SubSeqProperties
      <2>. HIDE DEF s, l
      <2>5. Len(s) = l /\ \A i \in 1..l : s[i] = u[i]
            <3>1. l - 1 + 1 = l /\ (IF 1 <= l THEN l - 1 + 1 ELSE 0) = l /\ \A i \in 1..l : 1 + i - 1 = i
                  BY <1>1
            <3>. QED BY <1>3, <2>4, <3>1
      <2>6. s = [i \in 1..l |-> s[i]]
            BY <2>4, <2>5, LenProperties
      <2>. QED BY <2>2, <2>5, <2>6 DEF s
<1>. HIDE DEF l
<1>5. b[Len(b) - 1] = t /\ b[Len(b)] = v /\ SubSeq(b, 1, Len(b) - 2) = u
      BY <1>2, <1>3, <1>4
<1>6. Visits(node, b, Append(u, <<"binary", node.op, t, v>>))
      BY <1>5 DEF Visits
<1>. QED BY <1>6 DEF a, b

LEMMA BuildsNothing ==
    ASSUME NEW from, NEW to
    PROVE  Builds(<<>>, from, to) <=> from = to
<1>1. Len(<<>>) = 0 /\ 1..0 = {}
      OBVIOUS
<1>2. ASSUME from = to
      PROVE  Builds(<<>>, from, to)
      <2>. DEFINE run == [i \in {0} |-> from]
      <2>1. run[0] = from
            OBVIOUS
      <2>. HIDE DEF run
      <2>. QED BY <1>1, <1>2, <2>1 DEF Builds
<1>. QED BY <1>1, <1>2 DEF Builds

LEMMA BuildsOneMore ==
    ASSUME NEW s \in Seq(Node), NEW from, NEW to, Builds(s, from, to),
           NEW node \in Node, NEW then, Visits(node, to, then)
    PROVE  Builds(Append(s, node), from, then)
<1>. DEFINE n == Len(s)
            t == Append(s, node)
<1>1. PICK run : /\ run[0] = from /\ run[n] = to
                 /\ \A i \in 1..n : Visits(s[i], run[i-1], run[i])
      BY DEF Builds
<1>. DEFINE longer == [i \in 0..n+1 |-> IF i = n + 1 THEN then ELSE run[i]]
<1>2. /\ n \in Nat /\ Len(t) = n + 1
      /\ \A i \in 1..n : t[i] = s[i]
      /\ t[n+1] = node
      BY AppendProperties, LenProperties
<1>. HIDE DEF t, n
<1>3. longer[0] = from /\ longer[n] = to /\ longer[n+1] = then
      BY <1>1, <1>2
<1>4. ASSUME NEW i \in 1..n+1
      PROVE  Visits(t[i], longer[i-1], longer[i])
      <2>1. CASE i = n + 1
            <3>1. i - 1 = n
                  BY <1>2, <2>1
            <3>. HIDE DEF longer
            <3>. QED BY <1>2, <1>3, <2>1, <3>1
      <2>2. CASE i # n + 1
            <3>1. i \in 1..n /\ longer[i] = run[i] /\ longer[i-1] = run[i-1] /\ t[i] = s[i]
                  BY <1>2, <2>2
            <3>. HIDE DEF longer
            <3>. QED BY <1>1, <3>1
      <2>. QED BY <2>1, <2>2
<1>. HIDE DEF longer
<1>. QED BY <1>2, <1>3, <1>4 DEF Builds, t

LEMMA BuildsFromHead ==
    ASSUME NEW s \in Seq(Node), s # <<>>, NEW from, NEW to, Builds(s, from, to)
    PROVE  \E mid : Visits(Head(s), from, mid) /\ Builds(Tail(s), mid, to)
<1>. DEFINE n == Len(s)
            t == Tail(s)
<1>1. PICK run : /\ run[0] = from /\ run[n] = to
                 /\ \A i \in 1..n : Visits(s[i], run[i-1], run[i])
      BY DEF Builds
<1>. DEFINE later == [i \in 0..n-1 |-> run[i+1]]
<1>2. /\ n \in Nat \ {0} /\ Len(t) = n - 1 /\ Head(s) = s[1]
      /\ \A i \in 1..n-1 : t[i] = s[i+1]
      <2>1. Len(s) \in Nat \ {0}
            BY EmptySeq
      <2>2. Head(s) = s[1]
            OBVIOUS
      <2>3. Len(Tail(s)) = Len(s) - 1 /\ \A i \in 1..Len(Tail(s)) : Tail(s)[i] = s[i+1]
            BY HeadTailProperties
      <2>. QED BY <2>1, <2>2, <2>3
<1>. HIDE DEF t, n
<1>3. later[0] = run[1] /\ later[Len(t)] = to
      BY <1>1, <1>2
<1>4. ASSUME NEW i \in 1..Len(t)
      PROVE  Visits(t[i], later[i-1], later[i])
      <2>1. /\ i + 1 \in 1..n /\ later[i] = run[i+1] /\ later[i-1] = run[i+1-1] /\ t[i] = s[i+1]
            BY <1>2
      <2>. HIDE DEF later
      <2>2. Visits(s[i+1], run[i+1-1], run[i+1])
            BY <1>1, <2>1
      <2>. QED BY <2>1, <2>2
<1>. HIDE DEF later
<1>5. Builds(t, run[1], to)
      BY <1>3, <1>4 DEF Builds
<1>6. Visits(s[1], from, run[1])
      <2>1. 1 \in 1..n /\ 1 - 1 = 0
            BY <1>2
      <2>. QED BY <1>1, <2>1
<1>. QED BY <1>2, <1>5, <1>6 DEF t

---------------------------------------------------------------------------
(***************************************************************************)
(* The calls under way.                                                    *)
(***************************************************************************)

\* The call, made where an item left may have been read, makes an item of its
\* operand y, and that item.
Fits(ts, call, left, y) ==
    \/ call.for.kind = "parens" /\ IsBracketed(ts, y)
    \/ call.for.kind = "unary" /\ IsSigned(ts, y)
    \/ call.for.kind = "binary" /\ AreJoined(ts, left, y)

MadeOf(ts, call, left, y) ==
    CASE call.for.kind = "parens" -> Bracketed(y)
      [] call.for.kind = "unary"  -> Signed(ts, y)
      [] call.for.kind = "binary" -> Joined(ts, left, y)

\* Of a call, start is the token it begins at, left the item on the left of its
\* operator, and below what the walk leaves on the stack before its operand.  The
\* call is made in the call outer.
Nested(ts, outer, g, call, h) ==
    \/ /\ call.for.kind = "parens"
       /\ ts[g.start].kind = "("
       /\ h.start = g.start + 1 /\ h.below = g.below
    \/ /\ call.for.kind = "unary" /\ call.p = 5
       /\ ts[g.start].kind \in AddSub /\ call.for.op = ts[g.start].kind
       /\ h.start = g.start + 1 /\ h.below = g.below
    \/ /\ call.for.kind = "binary"
       /\ h.left \in Derived(ts) /\ h.left.first = g.start
       /\ LET op == ts[h.left.last + 1].kind
          IN /\ op \in Operator /\ call.for.op = op
             /\ h.left.p >= Priority(op) /\ Priority(op) >= outer.p
             /\ call.p = Priority(op) + 1
       /\ h.start = h.left.last + 2 /\ h.below = Append(g.below, h.left.tree)

AreCalls(ts, calls, g) ==
    /\ g[1].start = 1 /\ g[1].below = <<>>
    /\ \A k \in 1..Len(calls) : /\ g[k].start \in Nat \ {0} /\ IsStack(g[k].below)
                                /\ calls[k].p \in 0..5
    /\ \A k \in 2..Len(calls) : Nested(ts, calls[k-1], g[k-1], calls[k], g[k])

\* The call that begins at start reads the item e, and ends there.
Reads(ts, call, start, e) ==
    /\ e \in Derived(ts) /\ e.first = start /\ e.p >= call.p
    /\ ts[e.last + 1].kind \in Operator => Priority(ts[e.last + 1].kind) < call.p

\* Each call reads its item of e, on the way to the item x of all tokens.
IsPath(ts, calls, g, e, x) ==
    /\ e[1] = x
    /\ \A k \in 1..Len(calls) : Reads(ts, calls[k], g[k].start, e[k])
    /\ \A k \in 2..Len(calls) : /\ Fits(ts, calls[k], g[k].left, e[k])
                                /\ MadeOf(ts, calls[k], g[k].left, e[k]) \in Spine(ts, e[k-1])

\* The parser has read c tokens and the nodes s, and looks for an operand, and
\* for an operator behind the item cur.
AtOperand(ts, calls, c, s) ==
    \E g : /\ AreCalls(ts, calls, g)
           /\ g[Len(calls)].start = c + 1
           /\ Builds(s, <<>>, g[Len(calls)].below)
           /\ \A x \in Whole(ts) : \E e : IsPath(ts, calls, g, e, x)

IsBehind(ts, calls, g, cur, c) ==
    /\ cur \in Derived(ts)
    /\ cur.first = g[Len(calls)].start /\ cur.last = c
    /\ cur.p >= calls[Len(calls)].p
    /\ ts[c+1].kind \in Operator => Priority(ts[c+1].kind) <= cur.p

IsOnWay(ts, calls, g, cur) ==
    \A x \in Whole(ts) : \E e : IsPath(ts, calls, g, e, x) /\ cur \in Spine(ts, e[Len(calls)])

AtOperator(ts, calls, c, s) ==
    \E g, cur : /\ AreCalls(ts, calls, g)
                /\ IsBehind(ts, calls, g, cur, c)
                /\ Builds(s, <<>>, Append(g[Len(calls)].below, cur.tree))
                /\ IsOnWay(ts, calls, g, cur)

\* Each way to an item of all tokens goes on with an item for one more call.
GoOn(ts, calls, g, call, h) ==
    \A x \in Whole(ts) : \E e, y : /\ IsPath(ts, calls, g, e, x)
                                   /\ Reads(ts, call, h.start, y)
                                   /\ Fits(ts, call, h.left, y)
                                   /\ MadeOf(ts, call, h.left, y) \in Spine(ts, e[Len(calls)])

\* The innermost call may be one that h tells of.
AreCalled(ts, calls, h) ==
    \E g : /\ AreCalls(ts, calls, g) /\ g[Len(calls)] = h
           /\ \A x \in Whole(ts) : \E e : IsPath(ts, calls, g, e, x)

\* A call more.
LEMMA CallMade ==
    ASSUME NEW ts, NEW calls \in Seq(Frame), calls # <<>>, NEW g, AreCalls(ts, calls, g),
           NEW call \in Frame, call.p \in 0..5, NEW h, h.start \in Nat \ {0}, IsStack(h.below),
           Nested(ts, calls[Len(calls)], g[Len(calls)], call, h),
           GoOn(ts, calls, g, call, h)
    PROVE  AreCalled(ts, Append(calls, call), h)
<1>. DEFINE l == Len(calls)
            more == Append(calls, call)
            g2 == [k \in 1..l+1 |-> IF k = l + 1 THEN h ELSE g[k]]
<1>1. /\ l \in Nat \ {0} /\ Len(more) = l + 1
      /\ \A k \in 1..l : more[k] = calls[k]
      /\ more[l+1] = call
      BY EmptySeq, LenProperties, AppendProperties
<1>. HIDE DEF l, more
<1>2. g2[l+1] = h /\ \A k \in 1..l : g2[k] = g[k]
      BY <1>1
<1>. HIDE DEF g2
<1>3. \A k \in 1..l+1 : k = l + 1 \/ k \in 1..l
      BY <1>1
<1>4. \A k \in 2..l+1 : (k = l + 1 /\ k - 1 = l) \/ (k \in 2..l /\ k - 1 \in 1..l /\ k \in 1..l)
      BY <1>1
<1>5. l \in 1..l /\ 1 \in 1..l
      BY <1>1
<1>6. AreCalls(ts, more, g2)
      <2>1. g2[1].start = 1 /\ g2[1].below = <<>>
            BY <1>2, <1>5 DEF AreCalls
      <2>2. \A k \in 1..l+1 : g2[k].start \in Nat \ {0} /\ IsStack(g2[k].below) /\ more[k].p \in 0..5
            BY <1>1, <1>2, <1>3 DEF AreCalls, l
      <2>3. ASSUME NEW k \in 2..l+1
            PROVE  Nested(ts, more[k-1], g2[k-1], more[k], g2[k])
            <3>1. CASE k = l + 1 /\ k - 1 = l
                  BY <1>1, <1>2, <1>5, <3>1 DEF l
            <3>2. CASE k \in 2..l /\ k - 1 \in 1..l /\ k \in 1..l
                  <4>1. Nested(ts, calls[k-1], g[k-1], calls[k], g[k])
                        BY <3>2 DEF AreCalls, l
                  <4>. QED BY <1>1, <1>2, <3>2, <4>1
            <3>. QED BY <1>4, <3>1, <3>2
      <2>. QED BY <1>1, <2>1, <2>2, <2>3 DEF AreCalls
<1>7. ASSUME NEW x \in Whole(ts)
      PROVE  \E e : IsPath(ts, more, g2, e, x)
      <2>1. PICK e, y : /\ IsPath(ts, calls, g, e, x)
                        /\ Reads(ts, call, h.start, y)
                        /\ Fits(ts, call, h.left, y)
                        /\ MadeOf(ts, call, h.left, y) \in Spine(ts, e[l])
            BY DEF GoOn, l
      <2>. DEFINE e2 == [k \in 1..l+1 |-> IF k = l + 1 THEN y ELSE e[k]]
      <2>2. e2[l+1] = y /\ \A k \in 1..l : e2[k] = e[k]
            BY <1>1
      <2>. HIDE DEF e2
      <2>3. e2[1] = x
            BY <1>5, <2>1, <2>2 DEF IsPath
      <2>4. ASSUME NEW k \in 1..l+1
            PROVE  Reads(ts, more[k], g2[k].start, e2[k])
            <3>1. CASE k = l + 1
                  BY <1>1, <1>2, <2>1, <2>2, <3>1
            <3>2. CASE k \in 1..l
                  <4>1. Reads(ts, calls[k], g[k].start, e[k])
                        BY <2>1, <3>2 DEF IsPath, l
                  <4>. QED BY <1>1, <1>2, <2>2, <3>2, <4>1
            <3>. QED BY <1>3, <3>1, <3>2
      <2>5. ASSUME NEW k \in 2..l+1
            PROVE  /\ Fits(ts, more[k], g2[k].left, e2[k])
                   /\ MadeOf(ts, more[k], g2[k].left, e2[k]) \in Spine(ts, e2[k-1])
            <3>1. CASE k = l + 1 /\ k - 1 = l
                  BY <1>1, <1>2, <1>5, <2>1, <2>2, <3>1
            <3>2. CASE k \in 2..l /\ k - 1 \in 1..l /\ k \in 1..l
                  <4>1. /\ Fits(ts, calls[k], g[k].left, e[k])
                        /\ MadeOf(ts, calls[k], g[k].left, e[k]) \in Spine(ts, e[k-1])
                        BY <2>1, <3>2 DEF IsPath, l
                  <4>. QED BY <1>1, <1>2, <2>2, <3>2, <4>1
            <3>. QED BY <1>4, <3>1, <3>2
      <2>. QED BY <1>1, <2>3, <2>4, <2>5 DEF IsPath
<1>. QED BY <1>1, <1>2, <1>6, <1>7 DEF AreCalled, more

\* A call less.
LEMMA CallEnded ==
    ASSUME NEW ts, NEW calls \in Seq(Frame), calls # <<>>, NEW g, AreCalls(ts, calls, g)
    PROVE  /\ AreCalls(ts, Front(calls), g) /\ Len(Front(calls)) = Len(calls) - 1
           /\ \A k \in 1..Len(calls)-1 : Front(calls)[k] = calls[k]
           /\ \A e, x : IsPath(ts, calls, g, e, x) => IsPath(ts, Front(calls), g, e, x)
<1>. DEFINE l == Len(calls)
            front == Front(calls)
<1>1. l \in Nat \ {0}
      BY EmptySeq, LenProperties
<1>2. Len(front) = l - 1 /\ \A k \in 1..l-1 : front[k] = calls[k]
      <2>1. \A k \in 1..l-1 : calls[k] \in Frame
            BY <1>1, ElementOfSeq
      <2>2. front = SubSeq(calls, 1, l-1)
            BY DEF Front
      <2>. HIDE DEF l, front
      <2>. QED BY <1>1, <2>1, <2>2, SubSeqProperties
<1>. HIDE DEF front, l
<1>3. \A k \in 1..l-1 : k \in 1..l
      BY <1>1
<1>4. \A k \in 2..l-1 : k \in 1..l-1 /\ k - 1 \in 1..l-1 /\ k \in 2..l
      BY <1>1
<1>5. AreCalls(ts, front, g)
      BY <1>2, <1>3, <1>4 DEF AreCalls, l
<1>6. ASSUME NEW e, NEW x, IsPath(ts, calls, g, e, x)
      PROVE  IsPath(ts, front, g, e, x)
      BY <1>2, <1>3, <1>4, <1>6 DEF IsPath, l
<1>. QED BY <1>2, <1>5, <1>6 DEF l, front

---------------------------------------------------------------------------
(***************************************************************************)
(* The parser's choices are the only ones.                                 *)
(***************************************************************************)

\* The first token of an item tells what the item begins with.
LEMMA FirstTokenTells ==
    ASSUME NEW ts, IsTokens(ts), NEW e \in Derived(ts)
    PROVE  LET i == e.first
           IN /\ IsLeaf(ts, i) \/ ts[i].kind = "(" \/ ts[i].kind \in AddSub
              /\ IsLeaf(ts, i) => LeafAt(ts, i) \in Spine(ts, e)
              /\ ts[i].kind = "(" =>
                    \E z \in Derived(ts) : /\ z.first = i + 1
                                           /\ IsBracketed(ts, z) /\ Bracketed(z) \in Spine(ts, e)
              /\ ts[i].kind \in AddSub =>
                    \E z \in Derived(ts) : /\ z.first = i + 1
                                           /\ IsSigned(ts, z) /\ Signed(ts, z) \in Spine(ts, e)
<1>. DEFINE D == Derived(ts)
            i == e.first
<1>1. \A z \in D : z.first \in Nat
      <2>1. Len(ts) \in Nat
            BY LenProperties DEF IsTokens
      <2>2. \A z \in D : InRange(ts, z)
            BY DerivedIsMade
      <2>. HIDE DEF D
      <2>. QED BY ONLY <2>1, <2>2 DEF InRange
<1>2. PICK y \in Spine(ts, e) :
              \/ \E j \in 1..Len(ts) : IsLeaf(ts, j) /\ y = LeafAt(ts, j)
              \/ \E z \in D : IsBracketed(ts, z) /\ y = Bracketed(z)
              \/ \E z \in D : IsSigned(ts, z) /\ y = Signed(ts, z)
      BY SpineEnds
<1>3. y.first = i
      BY SpineBegins
<1>. HIDE DEF D, i
<1>4. CASE \E j \in 1..Len(ts) : IsLeaf(ts, j) /\ y = LeafAt(ts, j)
      <2>1. PICK j \in 1..Len(ts) : IsLeaf(ts, j) /\ y = LeafAt(ts, j)
            BY <1>4
      <2>2. j = i
            BY <1>3, <2>1 DEF LeafAt, Item
      <2>3. ts[i].kind \notin {"("} \cup AddSub
            BY <2>1, <2>2 DEF IsLeaf, AddSub
      <2>. QED BY <2>1, <2>2, <2>3 DEF i
<1>5. CASE \E z \in D : IsBracketed(ts, z) /\ y = Bracketed(z)
      <2>1. PICK z \in D : IsBracketed(ts, z) /\ y = Bracketed(z)
            BY <1>5
      <2>2. z.first - 1 = i
            BY <1>3, <2>1 DEF Bracketed, Item
      <2>3. z.first = i + 1
            BY <1>1, <2>2
      <2>4. ts[i].kind = "("
            BY <2>1, <2>2 DEF IsBracketed
      <2>5. ts[i].kind \notin AddSub /\ ~IsLeaf(ts, i)
            BY <2>4 DEF IsLeaf, AddSub
      <2>. QED BY <2>1, <2>3, <2>4, <2>5 DEF i, D
<1>6. CASE \E z \in D : IsSigned(ts, z) /\ y = Signed(ts, z)
      <2>1. PICK z \in D : IsSigned(ts, z) /\ y = Signed(ts, z)
            BY <1>6
      <2>2. z.first - 1 = i
            BY <1>3, <2>1 DEF Signed, Item
      <2>3. z.first = i + 1
            BY <1>1, <2>2
      <2>4. ts[i].kind \in AddSub
            BY <2>1, <2>2 DEF IsSigned
      <2>5. ts[i].kind # "(" /\ ~IsLeaf(ts, i)
            BY <2>4 DEF IsLeaf, AddSub
      <2>. QED BY <2>1, <2>3, <2>4, <2>5 DEF i, D
<1>. QED BY <1>2, <1>4, <1>5, <1>6

\* A call whose item begins with cur reads that, or goes on with an operation where
\* the parser does.
LEMMA NextTokenTells ==
    ASSUME NEW ts, IsTokens(ts), NEW call, call.p \in 0..5, NEW start, NEW e,
           Reads(ts, call, start, e), NEW cur \in Spine(ts, e), NEW op, op = ts[cur.last + 1].kind
    PROVE  /\ ~(op \in Operator /\ call.p <= Priority(op)) => cur = e
           /\ op \in Operator /\ call.p <= Priority(op) =>
                 \E z : /\ AreJoined(ts, cur, z) /\ Joined(ts, cur, z) \in Spine(ts, e)
                        /\ \A more : more.p = Priority(op) + 1 => Reads(ts, more, cur.last + 2, z)
<1>. DEFINE D == Derived(ts)
<1>1. e \in D /\ e.p >= call.p /\ (ts[e.last + 1].kind \in Operator => Priority(ts[e.last + 1].kind) < call.p)
      BY DEF Reads
<1>2. cur \in D
      BY SpineBegins, <1>1
<1>3. \A z \in D : z.p \in 3..6 /\ z.last \in Nat
      <2>1. Len(ts) \in Nat
            BY LenProperties DEF IsTokens
      <2>2. \A z \in D : InRange(ts, z)
            BY DerivedIsMade
      <2>. HIDE DEF D
      <2>. QED BY ONLY <2>1, <2>2 DEF InRange
<1>4. \A o : Priority(o) \in {3, 4}
      BY DEF Priority
<1>5. ASSUME cur # e
      PROVE  \E z \in D : /\ AreJoined(ts, cur, z) /\ Joined(ts, cur, z) \in Spine(ts, e)
                          /\ op \in Operator /\ call.p <= Priority(op)
      <2>1. PICK z \in D : AreJoined(ts, cur, z) /\ Joined(ts, cur, z) \in Spine(ts, e)
            BY <1>1, <1>5, SpineGoesOn
      <2>2. op \in Operator
            BY <2>1 DEF AreJoined
      <2>3. Joined(ts, cur, z).p >= e.p
            BY <1>1, <2>1, SpineBegins
      <2>4. Joined(ts, cur, z).p = Priority(op)
            BY DEF Joined, Item
      <2>5. Priority(op) >= e.p
            BY <2>3, <2>4
      <2>. HIDE DEF D
      <2>6. call.p <= Priority(op)
            BY <1>1, <1>3, <1>4, <2>5
      <2>. QED BY <2>1, <2>2, <2>6
<1>6. ASSUME op \in Operator, call.p <= Priority(op)
      PROVE  \E z : /\ AreJoined(ts, cur, z) /\ Joined(ts, cur, z) \in Spine(ts, e)
                    /\ \A more : more.p = Priority(op) + 1 => Reads(ts, more, cur.last + 2, z)
      <2>1. cur # e
            <3>1. SUFFICES ASSUME cur = e PROVE FALSE
                  OBVIOUS
            <3>2. Priority(op) < call.p
                  BY <1>1, <1>6, <3>1
            <3>. QED BY <1>4, <1>6, <3>2
      <2>2. PICK z \in D : AreJoined(ts, cur, z) /\ Joined(ts, cur, z) \in Spine(ts, e)
            BY <1>5, <2>1
      <2>. DEFINE w == Joined(ts, cur, z)
                  then == ts[z.last + 1].kind
      <2>3. w.p = Priority(op) /\ w.last = z.last
            BY DEF Joined, Item
      <2>4. z.first = cur.last + 2 /\ z.p > Priority(op)
            BY <2>2 DEF AreJoined
      <2>5. then \in Operator => Priority(then) <= Priority(op)
            <3>1. SUFFICES ASSUME then \in Operator PROVE Priority(then) <= Priority(op)
                  OBVIOUS
            <3>2. CASE w = e
                  <4>1. Priority(then) < call.p
                        BY <1>1, <2>3, <3>1, <3>2
                  <4>. HIDE DEF then
                  <4>. QED BY <1>4, <1>6, <4>1
            <3>3. CASE w # e
                  <4>1. PICK v \in D : AreJoined(ts, w, v)
                        BY <1>1, <2>2, <3>3, SpineGoesOn
                  <4>2. w.p >= Priority(ts[w.last + 1].kind)
                        BY <4>1 DEF AreJoined
                  <4>3. Priority(op) >= Priority(then)
                        BY <2>3, <4>2
                  <4>. HIDE DEF then
                  <4>. QED BY <1>4, <4>3
            <3>. QED BY <3>2, <3>3
      <2>6. ASSUME NEW more, more.p = Priority(op) + 1
            PROVE  Reads(ts, more, cur.last + 2, z)
            <3>1. z.p >= more.p
                  BY <1>3, <1>4, <2>4, <2>6
            <3>2. then \in Operator => Priority(then) < more.p
                  <4>. HIDE DEF then
                  <4>. QED BY <1>4, <2>5, <2>6
            <3>. QED BY <2>2, <2>4, <3>1, <3>2 DEF Reads
      <2>. QED BY <2>2, <2>6
<1>. QED BY <1>5, <1>6

\* The parser has nodes, calls and tokens to go on with.
Goes(ts, calls, c, s) == /\ IsTokens(ts) /\ calls \in Seq(Frame) /\ calls # <<>>
                         /\ c \in Nat /\ c + 1 \in 1..Len(ts) /\ s \in Seq(Node)

\* Of what the calls are.
LEMMA CallTypes ==
    ASSUME NEW ts, NEW calls, NEW c, NEW s, Goes(ts, calls, c, s), NEW g, AreCalls(ts, calls, g)
    PROVE  LET l == Len(calls)
           IN /\ l \in Nat \ {0} /\ l \in 1..l /\ calls[l] \in Frame /\ Last(calls) = calls[l]
              /\ g[l].start \in Nat \ {0} /\ IsStack(g[l].below) /\ calls[l].p \in 0..5
              /\ l # 1 => /\ l \in 2..l /\ l - 1 \in 1..l-1 /\ l - 1 \in 1..l
                          /\ Nested(ts, calls[l-1], g[l-1], calls[l], g[l])
                          /\ g[l-1].start \in Nat \ {0} /\ IsStack(g[l-1].below)
                          /\ calls[l-1].p \in 0..5
<1>. DEFINE l == Len(calls)
<1>1. l \in Nat \ {0} /\ calls[l] \in Frame /\ Last(calls) = calls[l]
      BY EmptySeq, ElementOfSeq, LenProperties DEF Goes, Last
<1>2. l \in 1..l /\ (l # 1 => l \in 2..l /\ l - 1 \in 1..l-1 /\ l - 1 \in 1..l)
      <2>. HIDE DEF l
      <2>. QED BY <1>1
<1>. HIDE DEF l
<1>. QED BY <1>1, <1>2 DEF AreCalls, l

\* A leaf is an operand.
LEMMA LeafRead ==
    ASSUME NEW ts, NEW calls, NEW c, NEW s, Goes(ts, calls, c, s),
           AtOperand(ts, calls, c, s), IsLeaf(ts, c + 1)
    PROVE  AtOperator(ts, calls, c + 1, Append(s, ts[c+1]))
<1>. DEFINE l == Len(calls)
            i == c + 1
            cur == LeafAt(ts, i)
<1>1. PICK g : /\ AreCalls(ts, calls, g)
               /\ g[l].start = i
               /\ Builds(s, <<>>, g[l].below)
               /\ \A x \in Whole(ts) : \E e : IsPath(ts, calls, g, e, x)
      BY DEF AtOperand
<1>2. /\ l \in 1..l /\ g[l].start \in Nat \ {0} /\ IsStack(g[l].below) /\ calls[l].p \in 0..5
      BY <1>1, CallTypes
<1>3. /\ cur.first = i /\ cur.last = i /\ cur.p = 6
      /\ cur.tree = <<ts[i].kind, ts[i].chars>>
      BY DEF LeafAt, Item
<1>4. cur \in Derived(ts)
      BY DerivedIsMade DEF IsMade, Goes
<1>. HIDE DEF cur, l
<1>5. IsBehind(ts, calls, g, cur, i)
      <2>1. cur.p >= calls[l].p /\ (ts[i+1].kind \in Operator => Priority(ts[i+1].kind) <= cur.p)
            BY <1>2, <1>3 DEF Priority
      <2>. QED BY <1>1, <1>3, <1>4, <2>1 DEF IsBehind, l
<1>6. Builds(Append(s, ts[i]), <<>>, Append(g[l].below, cur.tree))
      <2>1. ts[i] \in Token
            BY ElementOfSeq DEF Goes, IsTokens
      <2>2. ts[i] \in Node /\ ts[i].kind \in {"CELL", "NUMBER"}
            BY <2>1 DEF IsLeaf, Token, Node, Leaf
      <2>3. Visits(ts[i], g[l].below, Append(g[l].below, cur.tree))
            BY <1>3, <2>2 DEF Visits
      <2>. QED BY <1>1, <2>2, <2>3, BuildsOneMore DEF Goes
<1>7. ASSUME NEW x \in Whole(ts)
      PROVE  \E e : IsPath(ts, calls, g, e, x) /\ cur \in Spine(ts, e[l])
      <2>1. PICK e : IsPath(ts, calls, g, e, x)
            BY <1>1
      <2>2. Reads(ts, calls[l], g[l].start, e[l])
            BY <1>2, <2>1 DEF IsPath, l
      <2>3. e[l] \in Derived(ts) /\ e[l].first = i
            BY <1>1, <2>2 DEF Reads
      <2>4. cur \in Spine(ts, e[l])
            BY <2>3, FirstTokenTells DEF cur, Goes
      <2>. QED BY <2>1, <2>4
<1>. QED BY <1>1, <1>5, <1>6, <1>7 DEF AtOperator, IsOnWay, l

\* A bracket or a sign makes a call.
LEMMA OperandCalls ==
    ASSUME NEW ts, NEW calls, NEW c, NEW s, Goes(ts, calls, c, s), AtOperand(ts, calls, c, s),
           NEW call \in Frame,
           \/ ts[c+1].kind = "(" /\ call.for.kind = "parens" /\ call.p = 0
           \/ /\ ts[c+1].kind \in AddSub
              /\ call.for.kind = "unary" /\ call.for.op = ts[c+1].kind /\ call.p = 5
    PROVE  AtOperand(ts, Append(calls, call), c + 1, s)
<1>. DEFINE l == Len(calls)
            i == c + 1
<1>1. PICK g : /\ AreCalls(ts, calls, g)
               /\ g[l].start = i
               /\ Builds(s, <<>>, g[l].below)
               /\ \A x \in Whole(ts) : \E e : IsPath(ts, calls, g, e, x)
      BY DEF AtOperand
<1>2. /\ l \in 1..l /\ g[l].start \in Nat \ {0} /\ IsStack(g[l].below) /\ calls[l].p \in 0..5
      BY <1>1, CallTypes
<1>. DEFINE h == [start |-> i + 1, left |-> 0, below |-> g[l].below]
<1>3. h.start = i + 1 /\ h.start \in Nat \ {0} /\ h.below = g[l].below /\ IsStack(h.below) /\ call.p \in 0..5
      BY <1>2 DEF Goes
<1>. HIDE DEF h, l
<1>4. Nested(ts, calls[l], g[l], call, h)
      BY <1>1, <1>3 DEF Nested
<1>5. ASSUME NEW x \in Whole(ts)
      PROVE  \E e, y : /\ IsPath(ts, calls, g, e, x)
                       /\ Reads(ts, call, h.start, y)
                       /\ Fits(ts, call, h.left, y)
                       /\ MadeOf(ts, call, h.left, y) \in Spine(ts, e[l])
      <2>1. PICK e : IsPath(ts, calls, g, e, x)
            BY <1>1
      <2>2. Reads(ts, calls[l], g[l].start, e[l])
            BY <1>2, <2>1 DEF IsPath, l
      <2>3. e[l] \in Derived(ts) /\ e[l].first = i
            BY <1>1, <2>2 DEF Reads
      <2>4. CASE ts[i].kind = "(" /\ call.for.kind = "parens" /\ call.p = 0
            <3>1. PICK z \in Derived(ts) : /\ z.first = i + 1
                                           /\ IsBracketed(ts, z) /\ Bracketed(z) \in Spine(ts, e[l])
                  BY <2>3, <2>4, FirstTokenTells DEF Goes
            <3>2. z.p >= 0
                  <4>1. InRange(ts, z)
                        BY DerivedIsMade DEF Goes
                  <4>. QED BY <4>1 DEF InRange
            <3>3. ts[z.last+1].kind \notin Operator
                  BY <3>1 DEF IsBracketed, Operator
            <3>4. Reads(ts, call, h.start, z)
                  BY <1>3, <2>4, <3>1, <3>2, <3>3 DEF Reads
            <3>5. Fits(ts, call, h.left, z) /\ MadeOf(ts, call, h.left, z) = Bracketed(z)
                  BY <2>4, <3>1 DEF Fits, MadeOf
            <3>. QED BY <2>1, <3>1, <3>4, <3>5
      <2>5. CASE ts[i].kind \in AddSub /\ call.for.kind = "unary" /\ call.p = 5
            <3>1. PICK z \in Derived(ts) : /\ z.first = i + 1
                                           /\ IsSigned(ts, z) /\ Signed(ts, z) \in Spine(ts, e[l])
                  BY <2>3, <2>5, FirstTokenTells DEF Goes
            <3>2. z.p >= 5
                  BY <3>1 DEF IsSigned
            <3>3. \A o : Priority(o) < 5
                  BY DEF Priority
            <3>4. Reads(ts, call, h.start, z)
                  BY <1>3, <2>5, <3>1, <3>2, <3>3 DEF Reads
            <3>5. Fits(ts, call, h.left, z) /\ MadeOf(ts, call, h.left, z) = Signed(ts, z)
                  BY <2>5, <3>1 DEF Fits, MadeOf
            <3>. QED BY <2>1, <3>1, <3>4, <3>5
      <2>. QED BY <2>4, <2>5
<1>6. AreCalled(ts, Append(calls, call), h)
      <2>1. calls \in Seq(Frame) /\ calls # <<>>
            BY DEF Goes
      <2>2. Nested(ts, calls[Len(calls)], g[Len(calls)], call, h)
            BY <1>4 DEF l
      <2>3. GoOn(ts, calls, g, call, h)
            BY <1>5 DEF GoOn, l
      <2>. QED BY <1>1, <1>3, <2>1, <2>2, <2>3, CallMade DEF l
<1>. QED BY <1>1, <1>3, <1>6 DEF AtOperand, AreCalled

\* Where no operand begins, the tokens make no expression.
LEMMA NoOperand ==
    ASSUME NEW ts, NEW calls, NEW c, NEW s, Goes(ts, calls, c, s), AtOperand(ts, calls, c, s),
           ~IsLeaf(ts, c + 1), ts[c+1].kind \notin {"("} \cup AddSub
    PROVE  Whole(ts) = {}
<1>. DEFINE l == Len(calls)
<1>1. PICK g : /\ AreCalls(ts, calls, g)
               /\ g[l].start = c + 1
               /\ \A x \in Whole(ts) : \E e : IsPath(ts, calls, g, e, x)
      BY DEF AtOperand
<1>2. l \in 1..l
      BY <1>1, CallTypes
<1>3. SUFFICES ASSUME NEW x \in Whole(ts) PROVE FALSE
      OBVIOUS
<1>4. PICK e : IsPath(ts, calls, g, e, x)
      BY <1>1
<1>5. Reads(ts, calls[l], g[l].start, e[l])
      BY <1>2, <1>4 DEF IsPath
<1>6. e[l] \in Derived(ts) /\ e[l].first = c + 1
      BY <1>1, <1>5 DEF Reads
<1>7. IsLeaf(ts, c + 1) \/ ts[c+1].kind = "(" \/ ts[c+1].kind \in AddSub
      BY <1>6, FirstTokenTells DEF Goes
<1>. QED BY <1>7

\* The parser goes on behind cur with an operator.
GoesOn(ts, calls, c) == /\ ts[c+1].kind \in Operator
                        /\ Last(calls).p <= Priority(ts[c+1].kind)

\* An operator the call may read makes a call.
LEMMA OperatorCalls ==
    ASSUME NEW ts, NEW calls, NEW c, NEW s, Goes(ts, calls, c, s), AtOperator(ts, calls, c, s),
           GoesOn(ts, calls, c), NEW call \in Frame,
           call.for.kind = "binary", call.for.op = ts[c+1].kind, call.p = Priority(ts[c+1].kind) + 1
    PROVE  AtOperand(ts, Append(calls, call), c + 1, s)
<1>. DEFINE l == Len(calls)
            op == ts[c+1].kind
<1>1. PICK g, cur : /\ AreCalls(ts, calls, g)
                    /\ IsBehind(ts, calls, g, cur, c)
                    /\ Builds(s, <<>>, Append(g[l].below, cur.tree))
                    /\ IsOnWay(ts, calls, g, cur)
      BY DEF AtOperator
<1>2. /\ l \in 1..l /\ Last(calls) = calls[l]
      /\ g[l].start \in Nat \ {0} /\ IsStack(g[l].below) /\ calls[l].p \in 0..5
      BY <1>1, CallTypes
<1>3. /\ cur \in Derived(ts) /\ cur.first = g[l].start /\ cur.last = c
      /\ op \in Operator /\ Priority(op) <= cur.p /\ calls[l].p <= Priority(op)
      BY <1>1, <1>2 DEF IsBehind, GoesOn
<1>4. Priority(op) \in {3, 4}
      BY DEF Priority
<1>. DEFINE h == [start |-> c + 2, left |-> cur, below |-> Append(g[l].below, cur.tree)]
<1>5. h.start = c + 2 /\ h.left = cur /\ h.below = Append(g[l].below, cur.tree)
      OBVIOUS
<1>. HIDE DEF h, l, op
<1>6. h.start \in Nat \ {0} /\ IsStack(h.below) /\ call.p \in 0..5
      <2>1. h.start \in Nat \ {0}
            BY <1>5 DEF Goes
      <2>2. IsStack(h.below)
            BY <1>2, <1>5, AppendedStack
      <2>3. call.p \in 0..5
            BY <1>4 DEF op
      <2>. QED BY <2>1, <2>2, <2>3
<1>7. Nested(ts, calls[l], g[l], call, h)
      <2>1. cur.p \in 3..6
            <3>1. InRange(ts, cur)
                  BY <1>3, DerivedIsMade DEF Goes
            <3>. QED BY <3>1 DEF InRange
      <2>2. cur.p >= Priority(op) /\ Priority(op) >= calls[l].p
            BY <1>2, <1>3, <1>4, <2>1
      <2>. QED BY <1>3, <1>5, <2>2 DEF Nested, op
<1>8. GoOn(ts, calls, g, call, h)
      <2>1. SUFFICES ASSUME NEW x \in Whole(ts)
                     PROVE  \E e, y : /\ IsPath(ts, calls, g, e, x)
                                      /\ Reads(ts, call, h.start, y)
                                      /\ Fits(ts, call, h.left, y)
                                      /\ MadeOf(ts, call, h.left, y) \in Spine(ts, e[l])
            BY DEF GoOn, l
      <2>2. PICK e : IsPath(ts, calls, g, e, x) /\ cur \in Spine(ts, e[l])
            BY <1>1 DEF IsOnWay, l
      <2>3. Reads(ts, calls[l], g[l].start, e[l])
            BY <1>2, <2>2 DEF IsPath, l
      <2>4. PICK z : /\ AreJoined(ts, cur, z) /\ Joined(ts, cur, z) \in Spine(ts, e[l])
                     /\ \A more : more.p = Priority(op) + 1 => Reads(ts, more, cur.last + 2, z)
            <3>1. op = ts[cur.last + 1].kind
                  BY <1>3 DEF op
            <3>2. IsTokens(ts) /\ calls[l].p \in 0..5
                  BY <1>2 DEF Goes
            <3>3. op \in Operator /\ calls[l].p <= Priority(op) =>
                     \E z : /\ AreJoined(ts, cur, z) /\ Joined(ts, cur, z) \in Spine(ts, e[l])
                            /\ \A more : more.p = Priority(op) + 1 => Reads(ts, more, cur.last + 2, z)
                  BY ONLY <2>2, <2>3, <3>1, <3>2, NextTokenTells
            <3>. QED BY <1>3, <3>3
      <2>5. Reads(ts, call, h.start, z)
            BY <1>3, <1>5, <2>4 DEF op
      <2>6. Fits(ts, call, h.left, z) /\ MadeOf(ts, call, h.left, z) = Joined(ts, cur, z)
            BY <1>5, <2>4 DEF Fits, MadeOf
      <2>. QED BY <2>2, <2>4, <2>5, <2>6
<1>9. AreCalled(ts, Append(calls, call), h)
      <2>1. calls \in Seq(Frame) /\ calls # <<>>
            BY DEF Goes
      <2>2. Nested(ts, calls[Len(calls)], g[Len(calls)], call, h)
            BY <1>7 DEF l
      <2>. QED BY <1>1, <1>6, <1>8, <2>1, <2>2, CallMade
<1>10. h.start = c + 1 + 1
       BY <1>5 DEF Goes
<1>. QED BY <1>1, <1>5, <1>9, <1>10 DEF AtOperand, AreCalled

\* Where the parser ends a call, cur is what the call reads.
LEMMA CallReadsAll ==
    ASSUME NEW ts, NEW calls, NEW c, NEW s, Goes(ts, calls, c, s),
           NEW g, AreCalls(ts, calls, g), NEW cur, IsBehind(ts, calls, g, cur, c),
           ~GoesOn(ts, calls, c), NEW e, NEW x, IsPath(ts, calls, g, e, x),
           cur \in Spine(ts, e[Len(calls)])
    PROVE  cur = e[Len(calls)]
<1>. DEFINE l == Len(calls)
            op == ts[cur.last+1].kind
<1>1. l \in 1..l /\ Last(calls) = calls[l] /\ calls[l].p \in 0..5
      BY CallTypes
<1>2. Reads(ts, calls[l], g[l].start, e[l])
      BY <1>1 DEF IsPath
<1>3. cur.last = c
      BY DEF IsBehind
<1>4. ~(op \in Operator /\ calls[l].p <= Priority(op))
      BY <1>1, <1>3 DEF GoesOn
<1>5. op = ts[cur.last+1].kind /\ cur \in Spine(ts, e[l]) /\ IsTokens(ts)
      BY DEF Goes
<1>6. e[l] = cur
      <2>. HIDE DEF l, op
      <2>. QED BY ONLY <1>1, <1>2, <1>4, <1>5, NextTokenTells
<1>. QED BY <1>6

\* A call that returns leaves what it makes of cur.
LEMMA CallReturns ==
    ASSUME NEW ts, NEW calls, NEW c, NEW s, Goes(ts, calls, c, s),
           NEW g, AreCalls(ts, calls, g), NEW cur, IsBehind(ts, calls, g, cur, c),
           IsOnWay(ts, calls, g, cur), ~GoesOn(ts, calls, c), Len(calls) # 1,
           Fits(ts, Last(calls), g[Len(calls)].left, cur),
           NEW made, made = MadeOf(ts, Last(calls), g[Len(calls)].left, cur),
           NEW c2, made.last = c2,
           ts[c2+1].kind \in Operator => Priority(ts[c2+1].kind) <= made.p,
           NEW s2, Builds(s2, <<>>, Append(g[Len(calls)-1].below, made.tree))
    PROVE  AtOperator(ts, Front(calls), c2, s2)
<1>. DEFINE l == Len(calls)
            call == calls[l]
            left == g[l].left
<1>1. /\ l \in Nat \ {0} /\ l \in 1..l /\ Last(calls) = call
      /\ l \in 2..l /\ l - 1 \in 1..l-1
      /\ Nested(ts, calls[l-1], g[l-1], call, g[l])
      /\ g[l-1].start \in Nat \ {0} /\ calls[l-1].p \in 0..5
      BY CallTypes
<1>2. /\ AreCalls(ts, Front(calls), g) /\ Len(Front(calls)) = l - 1
      /\ Front(calls)[l-1] = calls[l-1]
      /\ \A e, x : IsPath(ts, calls, g, e, x) => IsPath(ts, Front(calls), g, e, x)
      BY <1>1, CallEnded DEF Goes
<1>3. cur \in Derived(ts) /\ cur.first = g[l].start
      BY DEF IsBehind
<1>. HIDE DEF l, call, left
<1>4. Fits(ts, call, left, cur) /\ made = MadeOf(ts, call, left, cur)
      BY <1>1 DEF l, left
<1>5. \/ /\ call.for.kind = "parens" /\ IsBracketed(ts, cur) /\ made = Bracketed(cur)
         /\ g[l].start = g[l-1].start + 1
      \/ /\ call.for.kind = "unary" /\ IsSigned(ts, cur) /\ made = Signed(ts, cur)
         /\ g[l].start = g[l-1].start + 1
      \/ /\ call.for.kind = "binary" /\ AreJoined(ts, left, cur) /\ made = Joined(ts, left, cur)
         /\ left \in Derived(ts) /\ left.first = g[l-1].start
         /\ Priority(ts[left.last+1].kind) >= calls[l-1].p
      <2>1. CASE call.for.kind = "parens"
            BY <1>1, <1>4, <2>1 DEF Fits, MadeOf, Nested
      <2>2. CASE call.for.kind = "unary"
            BY <1>1, <1>4, <2>2 DEF Fits, MadeOf, Nested
      <2>3. CASE call.for.kind = "binary"
            BY <1>1, <1>4, <2>3 DEF Fits, MadeOf, Nested, left
      <2>. QED BY <1>4, <2>1, <2>2, <2>3 DEF Fits
<1>6. made \in Derived(ts)
      <2>1. IsMade(ts, made, Derived(ts))
            BY <1>3, <1>5 DEF IsMade
      <2>. QED BY <2>1, DerivedIsMade DEF Goes
<1>7. made.first = g[l-1].start /\ made.p >= calls[l-1].p
      <2>1. CASE made = Bracketed(cur) /\ g[l].start = g[l-1].start + 1
            <3>1. made.first = cur.first - 1 /\ made.p = 6
                  BY <2>1 DEF Bracketed, Item
            <3>. QED BY ONLY <1>1, <1>3, <2>1, <3>1
      <2>2. CASE made = Signed(ts, cur) /\ g[l].start = g[l-1].start + 1
            <3>1. made.first = cur.first - 1 /\ made.p = 5
                  BY <2>2 DEF Signed, Item
            <3>. QED BY ONLY <1>1, <1>3, <2>2, <3>1
      <2>3. CASE /\ made = Joined(ts, left, cur) /\ left.first = g[l-1].start
                 /\ Priority(ts[left.last+1].kind) >= calls[l-1].p
            <3>1. made.first = left.first /\ made.p = Priority(ts[left.last+1].kind)
                  BY <2>3 DEF Joined, Item
            <3>. QED BY <2>3, <3>1
      <2>. QED BY <1>5, <2>1, <2>2, <2>3
<1>8. IsBehind(ts, Front(calls), g, made, c2)
      BY <1>2, <1>6, <1>7 DEF IsBehind
<1>9. IsOnWay(ts, Front(calls), g, made)
      <2>1. SUFFICES ASSUME NEW x \in Whole(ts)
                     PROVE  \E e : IsPath(ts, Front(calls), g, e, x) /\ made \in Spine(ts, e[l-1])
            BY <1>2 DEF IsOnWay
      <2>2. PICK e : IsPath(ts, calls, g, e, x) /\ cur \in Spine(ts, e[l])
            BY DEF IsOnWay, l
      <2>3. cur = e[l]
            BY <2>2, CallReadsAll DEF l
      <2>4. MadeOf(ts, call, left, e[l]) \in Spine(ts, e[l-1])
            BY <1>1, <2>2 DEF IsPath, l, call, left
      <2>. QED BY <1>2, <1>4, <2>2, <2>3, <2>4
<1>. QED BY <1>2, <1>8, <1>9 DEF AtOperator, l

\* A call for the operand of an operator returns, and the walk leaves the operator.
LEMMA OperatorEnds ==
    ASSUME NEW ts, NEW calls, NEW c, NEW s, Goes(ts, calls, c, s), AtOperator(ts, calls, c, s),
           ~GoesOn(ts, calls, c), Len(calls) # 1, Last(calls).for.kind \in {"unary", "binary"}
    PROVE  AtOperator(ts, Front(calls), c, Append(s, Last(calls).for))
<1>. DEFINE l == Len(calls)
            call == calls[l]
<1>1. PICK g, cur : /\ AreCalls(ts, calls, g)
                    /\ IsBehind(ts, calls, g, cur, c)
                    /\ Builds(s, <<>>, Append(g[l].below, cur.tree))
                    /\ IsOnWay(ts, calls, g, cur)
      BY DEF AtOperator
<1>. DEFINE left == g[l].left
            made == MadeOf(ts, call, left, cur)
            below == g[l-1].below
<1>2. /\ l \in Nat \ {0} /\ Last(calls) = call /\ call \in Frame
      /\ g[l].start \in Nat \ {0} /\ call.p \in 0..5
      /\ Nested(ts, calls[l-1], g[l-1], call, g[l])
      /\ g[l-1].start \in Nat \ {0} /\ IsStack(below)
      BY <1>1, CallTypes
<1>3. /\ cur \in Derived(ts) /\ cur.first = g[l].start /\ cur.last = c /\ cur.p >= call.p
      BY <1>1 DEF IsBehind
<1>4. call.for \in Node
      BY <1>2 DEF Frame, Node, Branch
<1>5. cur.p \in 3..6
      <2>1. InRange(ts, cur)
            BY <1>3, DerivedIsMade DEF Goes
      <2>. QED BY <2>1 DEF InRange
<1>6. \A o : Priority(o) \in {3, 4}
      BY DEF Priority
<1>. HIDE DEF l, call, left, made, below
<1>7. CASE call.for.kind = "unary"
      <2>1. /\ call.p = 5 /\ ts[g[l-1].start].kind \in AddSub /\ call.for.op = ts[g[l-1].start].kind
            /\ g[l].start = g[l-1].start + 1 /\ g[l].below = below
            BY <1>2, <1>7 DEF Nested, below
      <2>2. cur.first - 1 = g[l-1].start /\ cur.first > 1
            BY <1>2, <1>3, <2>1
      <2>3. IsSigned(ts, cur)
            BY <1>3, <2>1, <2>2 DEF IsSigned
      <2>4. Fits(ts, call, left, cur) /\ made = Signed(ts, cur)
            BY <1>7, <2>3 DEF Fits, MadeOf, made
      <2>5. made.last = c /\ made.p = 5 /\ made.tree = <<"unary", call.for.op, cur.tree>>
            BY <1>3, <2>1, <2>2, <2>4 DEF Signed, Item
      <2>6. Priority(ts[c+1].kind) <= made.p
            BY <1>6, <2>5
      <2>7. Builds(Append(s, call.for), <<>>, Append(below, made.tree))
            <3>1. Visits(call.for, Append(below, cur.tree), Append(below, made.tree))
                  BY <1>2, <1>7, <2>5, VisitsUnary
            <3>2. Builds(s, <<>>, Append(below, cur.tree))
                  BY <1>1, <2>1
            <3>. QED BY <1>4, <3>1, <3>2, BuildsOneMore DEF Goes
      <2>. QED BY <1>1, <1>2, <2>4, <2>5, <2>6, <2>7, CallReturns DEF made, below, left, l
<1>8. CASE call.for.kind = "binary"
      <2>. DEFINE op == ts[left.last+1].kind
      <2>1. /\ left \in Derived(ts)
            /\ op \in Operator /\ call.for.op = op
            /\ left.p >= Priority(op) /\ call.p = Priority(op) + 1
            /\ g[l].start = left.last + 2 /\ g[l].below = Append(below, left.tree)
            BY <1>2, <1>8 DEF Nested, below, left
      <2>. HIDE DEF op
      <2>2. cur.first = left.last + 2 /\ cur.p > Priority(op)
            BY <1>3, <1>5, <1>6, <2>1
      <2>3. AreJoined(ts, left, cur)
            BY <2>1, <2>2 DEF AreJoined, op
      <2>4. Fits(ts, call, left, cur) /\ made = Joined(ts, left, cur)
            BY <1>8, <2>3 DEF Fits, MadeOf, made
      <2>5. /\ made.last = c /\ made.p = Priority(op)
            /\ made.tree = <<"binary", call.for.op, left.tree, cur.tree>>
            BY <1>3, <2>1, <2>4 DEF Joined, Item, op
      <2>6. ts[c+1].kind \in Operator => Priority(ts[c+1].kind) <= made.p
            <3>1. SUFFICES ASSUME ts[c+1].kind \in Operator
                           PROVE  Priority(ts[c+1].kind) <= Priority(op)
                  BY <2>5
            <3>2. ~(call.p <= Priority(ts[c+1].kind))
                  BY <1>2, <3>1 DEF GoesOn
            <3>. QED BY <1>6, <2>1, <3>2
      <2>7. Builds(Append(s, call.for), <<>>, Append(below, made.tree))
            <3>1. Visits(call.for, Append(Append(below, left.tree), cur.tree), Append(below, made.tree))
                  BY <1>2, <1>8, <2>5, VisitsBinary
            <3>2. Builds(s, <<>>, Append(Append(below, left.tree), cur.tree))
                  BY <1>1, <2>1
            <3>. QED BY <1>4, <3>1, <3>2, BuildsOneMore DEF Goes
      <2>. QED BY <1>1, <1>2, <2>4, <2>5, <2>6, <2>7, CallReturns DEF made, below, left, l
<1>. QED BY <1>2, <1>7, <1>8

\* The call within brackets returns.
LEMMA BracketsEnd ==
    ASSUME NEW ts, NEW calls, NEW c, NEW s, Goes(ts, calls, c, s), AtOperator(ts, calls, c, s),
           Len(calls) # 1, Last(calls).for.kind = "parens", ts[c+1].kind = ")"
    PROVE  AtOperator(ts, Front(calls), c + 1, s)
<1>. DEFINE l == Len(calls)
            call == calls[l]
<1>1. PICK g, cur : /\ AreCalls(ts, calls, g)
                    /\ IsBehind(ts, calls, g, cur, c)
                    /\ Builds(s, <<>>, Append(g[l].below, cur.tree))
                    /\ IsOnWay(ts, calls, g, cur)
      BY DEF AtOperator
<1>. DEFINE left == g[l].left
            made == MadeOf(ts, call, left, cur)
            below == g[l-1].below
<1>2. /\ l \in Nat \ {0} /\ Last(calls) = call
      /\ g[l].start \in Nat \ {0}
      /\ Nested(ts, calls[l-1], g[l-1], call, g[l])
      /\ g[l-1].start \in Nat \ {0}
      BY <1>1, CallTypes
<1>3. cur \in Derived(ts) /\ cur.first = g[l].start /\ cur.last = c
      BY <1>1 DEF IsBehind
<1>. HIDE DEF l, call, left, made, below
<1>4. /\ ts[g[l-1].start].kind = "(" /\ g[l].start = g[l-1].start + 1 /\ g[l].below = below
      BY <1>2 DEF Nested, below
<1>5. cur.first - 1 = g[l-1].start /\ cur.first > 1
      BY <1>2, <1>3, <1>4
<1>6. IsBracketed(ts, cur)
      BY <1>3, <1>4, <1>5 DEF IsBracketed
<1>7. Fits(ts, call, left, cur) /\ made = Bracketed(cur)
      BY <1>2, <1>6 DEF Fits, MadeOf, made
<1>8. made.last = c + 1 /\ made.p = 6 /\ made.tree = cur.tree
      BY <1>3, <1>7 DEF Bracketed, Item
<1>9. Priority(ts[c+1+1].kind) <= made.p
      BY <1>8 DEF Priority
<1>10. Builds(s, <<>>, Append(below, made.tree))
       BY <1>1, <1>4, <1>8
<1>11. ~GoesOn(ts, calls, c)
       BY DEF GoesOn, Operator
<1>. QED BY <1>1, <1>2, <1>7, <1>8, <1>9, <1>10, <1>11, CallReturns DEF made, below, left, l

\* What a call ends with that is not what it should end with is no expression.
LEMMA NoEnd ==
    ASSUME NEW ts, NEW calls, NEW c, NEW s, Goes(ts, calls, c, s), AtOperator(ts, calls, c, s),
           ~GoesOn(ts, calls, c),
           \/ Len(calls) = 1 /\ c + 1 # Len(ts)
           \/ Len(calls) # 1 /\ Last(calls).for.kind = "parens" /\ ts[c+1].kind # ")"
    PROVE  Whole(ts) = {}
<1>. DEFINE l == Len(calls)
<1>1. PICK g, cur : /\ AreCalls(ts, calls, g)
                    /\ IsBehind(ts, calls, g, cur, c)
                    /\ IsOnWay(ts, calls, g, cur)
      BY DEF AtOperator
<1>2. SUFFICES ASSUME NEW x \in Whole(ts) PROVE FALSE
      OBVIOUS
<1>3. PICK e : IsPath(ts, calls, g, e, x) /\ cur \in Spine(ts, e[l])
      BY <1>1 DEF IsOnWay
<1>4. cur = e[l]
      BY <1>1, <1>3, CallReadsAll
<1>5. cur.last = c
      BY <1>1 DEF IsBehind
<1>6. CASE l = 1 /\ c + 1 # Len(ts)
      <2>1. cur = x
            BY <1>3, <1>4, <1>6 DEF IsPath
      <2>2. x.last = Len(ts) - 1
            BY WholeIsDerived DEF Goes
      <2>3. Len(ts) \in Nat
            BY LenProperties DEF Goes, IsTokens
      <2>. QED BY <1>5, <1>6, <2>1, <2>2, <2>3
<1>7. CASE l # 1 /\ Last(calls).for.kind = "parens" /\ ts[c+1].kind # ")"
      <2>1. l \in 2..l /\ Last(calls) = calls[l]
            BY <1>1, <1>7, CallTypes
      <2>2. Fits(ts, calls[l], g[l].left, e[l])
            BY <1>3, <2>1 DEF IsPath
      <2>3. IsBracketed(ts, cur)
            BY <1>4, <1>7, <2>1, <2>2 DEF Fits
      <2>. QED BY <1>5, <1>7, <2>3 DEF IsBracketed
<1>. QED BY <1>6, <1>7

\* At the end there is one item of all tokens, and the walk will make its tree.
LEMMA AllRead ==
    ASSUME NEW ts, NEW calls, NEW c, NEW s, Goes(ts, calls, c, s), AtOperator(ts, calls, c, s),
           Len(calls) = 1, c + 1 = Len(ts)
    PROVE  \E tree : {x.tree : x \in Whole(ts)} = {tree} /\ Builds(s, <<>>, <<tree>>)
<1>1. PICK g, cur : /\ AreCalls(ts, calls, g)
                    /\ IsBehind(ts, calls, g, cur, c)
                    /\ Builds(s, <<>>, Append(g[1].below, cur.tree))
                    /\ IsOnWay(ts, calls, g, cur)
      BY DEF AtOperator
<1>2. g[1].start = 1 /\ g[1].below = <<>>
      BY <1>1 DEF AreCalls
<1>3. cur \in Whole(ts)
      <2>1. c = Len(ts) - 1
            BY DEF Goes
      <2>. QED BY <1>1, <1>2, <2>1, WholeIsDerived DEF IsBehind, Goes
<1>4. ~GoesOn(ts, calls, c)
      <2>1. IsLastToken(ts[c+1])
            BY DEF Goes, IsTokens
      <2>. QED BY <2>1 DEF GoesOn, Operator, IsLastToken
<1>5. ASSUME NEW x \in Whole(ts)
      PROVE  x = cur
      <2>1. PICK e : IsPath(ts, calls, g, e, x) /\ cur \in Spine(ts, e[1])
            BY <1>1 DEF IsOnWay
      <2>2. cur = e[1]
            BY <1>1, <1>4, <2>1, CallReadsAll
      <2>. QED BY <2>1, <2>2 DEF IsPath
<1>6. {x.tree : x \in Whole(ts)} = {cur.tree}
      BY <1>3, <1>5
<1>7. Builds(s, <<>>, <<cur.tree>>)
      <2>1. Append(<<>>, cur.tree) = <<cur.tree>>
            OBVIOUS
      <2>. QED BY <1>1, <1>2, <2>1
<1>. QED BY <1>6, <1>7

---------------------------------------------------------------------------
(***************************************************************************)
(* What is read and what is left to walk.                                  *)
(***************************************************************************)

\* Of c tokens, those not allowed are among the nodes s, and all the leaves there
\* are tokens.
Covers(ts, c, s) ==
    /\ \A i \in 1..c : IsAllowed(ts[i]) \/ \E j \in 1..Len(s) : s[j] = ts[i]
    /\ \A j \in 1..Len(s) : s[j].kind \in {"CELL", "NUMBER"} => \E i \in 1..Len(ts) : s[j] = ts[i]

LEMMA CoversOther ==
    ASSUME NEW ts, NEW c \in Nat, NEW s, Covers(ts, c, s), ~IsLeaf(ts, c + 1)
    PROVE  Covers(ts, c + 1, s)
<1>1. IsAllowed(ts[c+1])
      BY DEF IsAllowed, IsLeaf
<1>2. \A i \in 1..c+1 : i = c + 1 \/ i \in 1..c
      OBVIOUS
<1>. QED BY <1>1, <1>2 DEF Covers

LEMMA CoversAppended ==
    ASSUME NEW ts, NEW c \in Nat, NEW s \in Seq(Node), Covers(ts, c, s), NEW node \in Node,
           NEW d \in {c, c + 1},
           d = c + 1 => node = ts[c+1],
           node.kind \in {"CELL", "NUMBER"} => \E i \in 1..Len(ts) : node = ts[i]
    PROVE  Covers(ts, d, Append(s, node))
<1>. DEFINE n == Len(s)
            t == Append(s, node)
<1>1. /\ n \in Nat /\ Len(t) = n + 1
      /\ \A j \in 1..n : t[j] = s[j]
      /\ t[n+1] = node
      BY AppendProperties, LenProperties
<1>. HIDE DEF n, t
<1>2. \A j \in 1..n : j \in 1..n+1
      BY <1>1
<1>3. n + 1 \in 1..n+1 /\ \A j \in 1..n+1 : j = n + 1 \/ j \in 1..n
      BY <1>1
<1>4. ASSUME NEW i \in 1..d
      PROVE  IsAllowed(ts[i]) \/ \E j \in 1..n+1 : t[j] = ts[i]
      <2>1. (d = c + 1 /\ i = c + 1) \/ i \in 1..c
            OBVIOUS
      <2>2. CASE d = c + 1 /\ i = c + 1
            BY <1>1, <1>3, <2>2
      <2>3. CASE i \in 1..c
            BY <1>1, <1>2, <2>3 DEF Covers, n
      <2>. QED BY <2>1, <2>2, <2>3
<1>5. ASSUME NEW j \in 1..n+1, t[j].kind \in {"CELL", "NUMBER"}
      PROVE  \E i \in 1..Len(ts) : t[j] = ts[i]
      BY <1>1, <1>3, <1>5 DEF Covers, n
<1>. QED BY <1>1, <1>4, <1>5 DEF Covers, t

LEMMA CoversTail ==
    ASSUME NEW ts, NEW c, NEW s \in Seq(Node), s # <<>>, Covers(ts, c, s),
           Head(s).kind \in {"CELL", "NUMBER"} => IsAllowed(Head(s))
    PROVE  Covers(ts, c, Tail(s))
<1>. DEFINE n == Len(s)
            t == Tail(s)
<1>1. /\ n \in Nat \ {0} /\ Len(t) = n - 1 /\ Head(s) = s[1]
      /\ \A j \in 1..n-1 : t[j] = s[j+1]
      <2>1. Len(s) \in Nat \ {0}
            BY EmptySeq
      <2>2. Head(s) = s[1]
            OBVIOUS
      <2>3. Len(Tail(s)) = Len(s) - 1 /\ \A i \in 1..Len(Tail(s)) : Tail(s)[i] = s[i+1]
            BY HeadTailProperties
      <2>. QED BY <2>1, <2>2, <2>3
<1>. HIDE DEF t, n
<1>2. IsAllowed(s[1])
      BY <1>1 DEF IsAllowed
<1>3. ASSUME NEW i \in 1..c
      PROVE  IsAllowed(ts[i]) \/ \E j \in 1..n-1 : t[j] = ts[i]
      <2>1. SUFFICES ASSUME ~IsAllowed(ts[i])
                     PROVE  \E j \in 1..n-1 : t[j] = ts[i]
            OBVIOUS
      <2>2. PICK j \in 1..n : s[j] = ts[i]
            BY <2>1 DEF Covers, n
      <2>3. j # 1
            BY <1>2, <2>1, <2>2
      <2>4. j - 1 \in 1..n-1 /\ j - 1 + 1 = j
            BY <1>1, <2>3
      <2>. QED BY <1>1, <2>2, <2>4
<1>4. ASSUME NEW j \in 1..n-1, t[j].kind \in {"CELL", "NUMBER"}
      PROVE  \E i \in 1..Len(ts) : t[j] = ts[i]
      <2>1. j + 1 \in 1..n /\ t[j] = s[j+1]
            BY <1>1
      <2>. QED BY <1>4, <2>1 DEF Covers, n
<1>. QED BY <1>1, <1>3, <1>4 DEF Covers, t

---------------------------------------------------------------------------
(***************************************************************************)
(* The invariant.                                                          *)
(***************************************************************************)

\* c tokens of the text are read, and left is what is left behind each.
IsAt(text, ts, c, left) ==
    /\ LexesTo(text, ts, left)
    /\ c \in Nat /\ c + 1 \in 1..Len(ts)
    /\ token = ts[c+1] /\ rest = left[c+1]

Parses(text, ts, c, left) ==
    /\ IsAt(text, ts, c, left)
    /\ phase = "operand" => AtOperand(ts, exprs, c, nodes)
    /\ phase = "operator" => AtOperator(ts, exprs, c, nodes)
    /\ Covers(ts, c, nodes)

\* While the parser goes on, any item of all tokens is what its calls are on the
\* way to; then there is one, and the walk makes its tree.
Keeps(text, ts) ==
    /\ phase = "start" => /\ rest = text
                          /\ AtOperand(ts, exprs, 0, nodes)
                          /\ Covers(ts, 0, nodes)
    /\ phase \in {"operand", "operator"} => \E c, left : Parses(text, ts, c, left)
    /\ phase = "walk" => /\ Last(ts).kind = "EOF"
                         /\ \E tree : /\ {x.tree : x \in Whole(ts)} = {tree}
                                      /\ Builds(nodes, args, <<tree>>)
                         /\ Covers(ts, Len(ts), nodes)
    /\ phase = "parsed" => IsLegal(ts) /\ {x.tree : x \in Whole(ts)} = {args[1]}
    /\ phase = "FormulaException" => ~IsLegal(ts)

GrammarInv == \E text \in Expression : expression = text /\ Keeps(text, Tokens(text))

\* Nothing is read, and the walk would do nothing yet.
LEMMA KeepsInit ==
    ASSUME ParserInit, NEW ts, IsTokens(ts), NEW text, expression = text
    PROVE  Keeps(text, ts)
<1>. DEFINE f == [for |-> [kind |-> "main", op |-> "none"], p |-> 0]
            h == [start |-> 1, left |-> 0, below |-> <<>>]
            g == [k \in {1} |-> h]
<1>1. /\ phase = "start" /\ rest = text /\ exprs = <<f>> /\ nodes = <<>>
      BY DEF ParserInit
<1>2. Len(exprs) = 1 /\ exprs[1] = f /\ f.p = 0
      BY <1>1
<1>3. g[1].start = 1 /\ g[1].below = <<>>
      OBVIOUS
<1>. HIDE DEF f, h, g
<1>4. IsStack(<<>>)
      <2>1. <<>> \in Seq({})
            BY EmptySeq
      <2>. QED BY <2>1 DEF IsStack
<1>5. 1..1 = {1} /\ 2..1 = {} /\ 1..0 = {} /\ 1 \in Nat \ {0} /\ 0 \in 0..5
      OBVIOUS
<1>6. AreCalls(ts, exprs, g)
      BY <1>2, <1>3, <1>4, <1>5 DEF AreCalls
<1>7. ASSUME NEW x \in Whole(ts)
      PROVE  \E e : IsPath(ts, exprs, g, e, x)
      <2>. DEFINE e == [k \in {1} |-> x]
      <2>1. e[1] = x
            OBVIOUS
      <2>. HIDE DEF e
      <2>2. x \in Derived(ts) /\ x.first = 1 /\ x.last = Len(ts) - 1
            BY WholeIsDerived
      <2>3. Reads(ts, exprs[1], 1, x)
            <3>1. InRange(ts, x) /\ Len(ts) \in Nat
                  BY <2>2, DerivedIsMade, LenProperties DEF IsTokens
            <3>2. x.p >= 0 /\ x.last + 1 = Len(ts) /\ Len(ts) \in 1..Len(ts)
                  BY <2>2, <3>1 DEF InRange
            <3>3. IsLastToken(ts[x.last + 1])
                  BY <3>2 DEF IsTokens
            <3>4. ts[x.last + 1].kind \notin Operator
                  BY <3>3 DEF IsLastToken, Operator
            <3>. QED BY <1>2, <2>2, <3>2, <3>4 DEF Reads
      <2>4. \A k \in 1..1 : Reads(ts, exprs[k], g[k].start, e[k])
            BY <1>3, <1>5, <2>1, <2>3
      <2>. QED BY <1>2, <1>5, <2>1, <2>4 DEF IsPath
<1>8. Builds(nodes, <<>>, <<>>)
      BY <1>1, BuildsNothing
<1>9. AtOperand(ts, exprs, 0, nodes)
      BY <1>2, <1>3, <1>6, <1>7, <1>8 DEF AtOperand
<1>10. Covers(ts, 0, nodes)
       BY <1>1, <1>5 DEF Covers
<1>. QED BY <1>1, <1>9, <1>10 DEF Keeps
\* Behind a token that is not the last the next is read.
LEMMA NextIsRead ==
    ASSUME NEW text, NEW ts, IsTokens(ts), NEW c, NEW left, IsAt(text, ts, c, left),
           ~IsLastToken(token), Consume
    PROVE  IsAt(text, ts, c + 1, left)' /\ c + 1 \in Nat
<1>1. /\ c \in Nat /\ c + 1 \in 1..Len(ts) /\ token = ts[c+1] /\ rest = left[c+1] /\ LexesTo(text, ts, left)
      /\ Len(ts) \in Nat
      BY LenProperties DEF IsAt, IsTokens
<1>2. c + 1 # Len(ts)
      BY <1>1 DEF IsTokens
<1>3. c + 2 \in 1..Len(ts) /\ c + 2 - 1 = c + 1 /\ c + 1 + 1 = c + 2 /\ c + 1 \in Nat
      BY <1>1, <1>2
<1>. DEFINE solid == SkipWhite(rest)
<1>4. token' = FirstToken(solid) /\ rest' = SubSeq(solid, Len(token'.chars) + 1, Len(solid))
      BY DEF Consume, Lex
<1>5. /\ ts[c+2] = FirstToken(solid)
      /\ left[c+2] = SubSeq(solid, Len(ts[c+2].chars) + 1, Len(solid))
      <2>. DEFINE i == c + 2
      <2>1. i \in 1..Len(ts) /\ left[i-1] = rest
            BY <1>1, <1>3
      <2>. HIDE DEF i
      <2>2. /\ ts[i] = FirstToken(SkipWhite(left[i-1]))
            /\ left[i] = SubSeq(SkipWhite(left[i-1]), Len(ts[i].chars) + 1, Len(SkipWhite(left[i-1])))
            BY <1>1, <2>1 DEF LexesTo
      <2>. QED BY <2>1, <2>2 DEF i
<1>6. token' = ts[c+1+1] /\ rest' = left[c+1+1]
      BY <1>3, <1>4, <1>5
<1>. QED BY <1>1, <1>3, <1>6 DEF IsAt

\* The first token is read.
LEMMA BeginKeeps ==
    ASSUME NEW text \in Seq(STRING), NEW ts, ts = Tokens(text), Keeps(text, ts), Begin
    PROVE  Keeps(text, ts)'
<1>1. IsTokens(ts)
      BY TokensLexed
<1>2. PICK left : LexesTo(text, ts, left)
      BY TokensLexed
<1>3. /\ phase = "start" /\ phase' = "operand" /\ Consume /\ UNCHANGED <<exprs, nodes, args>>
      /\ rest = text
      BY DEF Begin, Keeps
<1>4. 1 \in 1..Len(ts) /\ 0 + 1 = 1 /\ 0 \in Nat
      BY <1>1, EmptySeq, LenProperties DEF IsTokens
<1>5. token' = ts[0+1] /\ rest' = left[0+1]
      <2>1. left[0] = rest /\ 1 - 1 = 0
            BY <1>2, <1>3 DEF LexesTo
      <2>2. /\ ts[1] = FirstToken(SkipWhite(left[1-1]))
            /\ left[1] = SubSeq(SkipWhite(left[1-1]), Len(ts[1].chars) + 1, Len(SkipWhite(left[1-1])))
            BY <1>2, <1>4 DEF LexesTo
      <2>3. token' = ts[1] /\ rest' = left[1]
            BY <1>3, <2>1, <2>2 DEF Consume, Lex
      <2>. QED BY <1>4, <2>3
<1>6. IsAt(text, ts, 0, left)'
      BY <1>2, <1>4, <1>5 DEF IsAt
<1>7. AtOperand(ts, exprs, 0, nodes)' /\ Covers(ts, 0, nodes)'
      BY <1>3 DEF Keeps
<1>8. Parses(text, ts, 0, left)'
      BY <1>3, <1>6, <1>7 DEF Parses
<1>. QED BY <1>3, <1>8 DEF Keeps

\* An error ends all, where the tokens make no legal expression.
LEMMA ErrorKeeps ==
    ASSUME NEW text, NEW ts, ParsingError, ~IsLegal(ts)
    PROVE  Keeps(text, ts)'
BY DEF ParsingError, Keeps

\* What the parser sees when it goes on.
LEMMA ParsesGoes ==
    ASSUME ParserInv, NEW text, NEW ts, IsTokens(ts), NEW c, NEW left, Parses(text, ts, c, left),
           phase \in {"operand", "operator"}
    PROVE  /\ Goes(ts, exprs, c, nodes) /\ token = ts[c+1] /\ token \in Token /\ c \in Nat
           /\ IsLastToken(token) => token = Last(ts)
           /\ Inner = Last(exprs) /\ Inner \in Frame /\ Len(exprs) \in Nat \ {0}
           /\ Inner.for.kind = "main" <=> Len(exprs) = 1
           /\ args = <<>>
<1>1. /\ exprs \in Seq(Frame) /\ exprs # <<>> /\ nodes \in Seq(Node) /\ token \in Token /\ args = <<>>
      /\ \A i \in 1..Len(exprs) : exprs[i].for.kind = "main" <=> i = 1
      BY DEF ParserInv
<1>2. c \in Nat /\ c + 1 \in 1..Len(ts) /\ token = ts[c+1]
      BY DEF Parses, IsAt
<1>3. IsLastToken(token) => c + 1 = Len(ts)
      BY <1>2 DEF IsTokens
<1>4. IsLastToken(token) => token = Last(ts)
      BY <1>2, <1>3 DEF Last
<1>5. Len(exprs) \in Nat \ {0} /\ Inner = exprs[Len(exprs)] /\ Inner \in Frame
      BY <1>1, EmptySeq, ElementOfSeq, LenProperties DEF Inner, Last
<1>6. Inner.for.kind = "main" <=> Len(exprs) = 1
      <2>1. Len(exprs) \in 1..Len(exprs)
            BY <1>5
      <2>. QED BY <1>1, <1>5, <2>1
<1>. QED BY <1>1, <1>2, <1>4, <1>5, <1>6 DEF Goes, Inner

\* The lexer has found what is no token.
LEMMA LexingFailsKeeps ==
    ASSUME ParserInv, NEW text, NEW ts, IsTokens(ts), Keeps(text, ts), LexingFails
    PROVE  Keeps(text, ts)'
<1>1. phase \in {"operand", "operator"} /\ token.kind = "error" /\ ParsingError
      BY DEF LexingFails
<1>2. PICK c, left : Parses(text, ts, c, left)
      BY <1>1 DEF Keeps
<1>3. token = Last(ts)
      BY <1>1, <1>2, ParsesGoes DEF IsLastToken
<1>4. ~IsLegal(ts)
      BY <1>1, <1>3 DEF IsLegal
<1>. QED BY <1>1, <1>4, ErrorKeeps

\* A leaf, a bracket or a sign is read, or there is none.
LEMMA ReadOperandKeeps ==
    ASSUME ParserInv, NEW text, NEW ts, IsTokens(ts), Keeps(text, ts), ReadOperand
    PROVE  Keeps(text, ts)'
<1>1. phase = "operand"
      BY DEF ReadOperand
<1>2. PICK c, left : Parses(text, ts, c, left)
      BY <1>1 DEF Keeps
<1>3. /\ Goes(ts, exprs, c, nodes) /\ token = ts[c+1] /\ token \in Token /\ c \in Nat
      /\ IsAt(text, ts, c, left) /\ AtOperand(ts, exprs, c, nodes) /\ Covers(ts, c, nodes)
      BY <1>1, <1>2, ParsesGoes DEF Parses
<1>4. CASE token.kind \in {"CELL", "NUMBER"}
      <2>1. /\ nodes' = Append(nodes, ts[c+1]) /\ phase' = "operator" /\ Consume
            /\ UNCHANGED <<exprs, args>>
            BY <1>3, <1>4 DEF ReadOperand, AddSub
      <2>2. IsLeaf(ts, c + 1) /\ ~IsLastToken(token)
            BY <1>3, <1>4 DEF IsLeaf, IsLastToken
      <2>3. IsAt(text, ts, c + 1, left)'
            BY <1>3, <2>1, <2>2, NextIsRead
      <2>4. AtOperator(ts, exprs', c + 1, nodes')
            BY <1>3, <2>1, <2>2, LeafRead
      <2>5. Covers(ts, c + 1, nodes')
            <3>1. ts[c+1] \in Node
                  BY <1>3, <1>4 DEF Token, Node, Leaf
            <3>2. c + 1 \in 1..Len(ts) /\ nodes \in Seq(Node)
                  BY <1>3 DEF Goes
            <3>3. Covers(ts, c + 1, Append(nodes, ts[c+1]))
                  BY <1>3, <3>1, <3>2, CoversAppended
            <3>. QED BY <2>1, <3>3
      <2>6. Parses(text, ts, c + 1, left)'
            BY <2>1, <2>3, <2>4, <2>5 DEF Parses
      <2>. QED BY <2>1, <2>6 DEF Keeps
<1>5. ASSUME NEW kind, NEW op \in Operator \cup {"none"}, NEW p \in 0..5,
             Call(kind, op, p), Consume, UNCHANGED <<phase, nodes, args>>,
             \/ token.kind = "(" /\ kind = "parens" /\ p = 0
             \/ token.kind \in AddSub /\ kind = "unary" /\ op = token.kind /\ p = 5
      PROVE  Keeps(text, ts)'
      <2>. DEFINE f == [for |-> [kind |-> kind, op |-> op], p |-> p]
      <2>1. f \in Frame /\ f.for.kind = kind /\ f.for.op = op /\ f.p = p
            BY <1>5 DEF Frame
      <2>2. exprs' = Append(exprs, f)
            BY <1>5 DEF Call
      <2>. HIDE DEF f
      <2>3. ~IsLeaf(ts, c + 1) /\ ~IsLastToken(token)
            BY <1>3, <1>5 DEF IsLeaf, IsLastToken, AddSub
      <2>4. IsAt(text, ts, c + 1, left)'
            BY <1>3, <1>5, <2>3, NextIsRead
      <2>5. AtOperand(ts, exprs', c + 1, nodes')
            BY <1>3, <1>5, <2>1, <2>2, OperandCalls
      <2>6. Covers(ts, c + 1, nodes')
            BY <1>3, <1>5, <2>3, CoversOther
      <2>7. Parses(text, ts, c + 1, left)'
            BY <1>1, <1>5, <2>4, <2>5, <2>6 DEF Parses
      <2>. QED BY <1>1, <1>5, <2>7 DEF Keeps
<1>6. CASE token.kind = "("
      <2>1. Call("parens", "none", 0) /\ Consume /\ UNCHANGED <<phase, nodes, args>>
            BY <1>6 DEF ReadOperand, AddSub
      <2>. QED BY <1>5, <1>6, <2>1
<1>7. CASE token.kind \in AddSub
      <2>1. Call("unary", token.kind, 5) /\ Consume /\ UNCHANGED <<phase, nodes, args>>
            BY <1>7 DEF ReadOperand, AddSub
      <2>2. token.kind \in Operator
            BY <1>7 DEF AddSub, Operator
      <2>. QED BY <1>5, <1>7, <2>1, <2>2
<1>8. CASE token.kind \in {")", "*", "/", "EOF"}
      <2>1. ParsingError
            BY <1>8 DEF ReadOperand, AddSub
      <2>2. Whole(ts) = {}
            <3>1. ~IsLeaf(ts, c + 1) /\ ts[c+1].kind \notin {"("} \cup AddSub
                  BY <1>3, <1>8 DEF IsLeaf, AddSub
            <3>. QED BY <1>3, <3>1, NoOperand
      <2>. QED BY <2>1, <2>2, ErrorKeeps DEF IsLegal
<1>. QED BY <1>4, <1>6, <1>7, <1>8 DEF ReadOperand

\* An operator calls for the operand on the right.
LEMMA ReadOperatorKeeps ==
    ASSUME ParserInv, NEW text, NEW ts, IsTokens(ts), Keeps(text, ts), ReadOperator
    PROVE  Keeps(text, ts)'
<1>. DEFINE f == [for |-> [kind |-> "binary", op |-> token.kind], p |-> PriorityAtRight(token.kind)]
<1>1. /\ phase = "operator" /\ phase' = "operand" /\ Continues /\ Consume
      /\ exprs' = Append(exprs, f)
      /\ UNCHANGED <<nodes, args>>
      BY DEF ReadOperator, Call
<1>2. PICK c, left : Parses(text, ts, c, left)
      BY <1>1 DEF Keeps
<1>3. /\ Goes(ts, exprs, c, nodes) /\ token = ts[c+1] /\ Inner = Last(exprs) /\ c \in Nat
      /\ IsAt(text, ts, c, left) /\ AtOperator(ts, exprs, c, nodes) /\ Covers(ts, c, nodes)
      BY <1>1, <1>2, ParsesGoes DEF Parses
<1>4. GoesOn(ts, exprs, c) /\ token.kind \in Operator
      BY <1>1, <1>3 DEF Continues, GoesOn
<1>5. /\ f \in Frame /\ f.for.kind = "binary" /\ f.for.op = ts[c+1].kind
      /\ f.p = Priority(ts[c+1].kind) + 1
      <2>1. Priority(token.kind) + 1 \in Nat
            BY DEF Priority
      <2>. QED BY <1>3, <1>4, <2>1 DEF Frame, PriorityAtRight
<1>. HIDE DEF f
<1>6. ~IsLeaf(ts, c + 1) /\ ~IsLastToken(token)
      BY <1>3, <1>4 DEF IsLeaf, IsLastToken, Operator
<1>7. IsAt(text, ts, c + 1, left)'
      BY <1>1, <1>3, <1>6, NextIsRead
<1>8. AtOperand(ts, exprs', c + 1, nodes')
      BY <1>1, <1>3, <1>4, <1>5, OperatorCalls
<1>9. Covers(ts, c + 1, nodes')
      BY <1>1, <1>3, <1>6, CoversOther
<1>10. Parses(text, ts, c + 1, left)'
       BY <1>1, <1>7, <1>8, <1>9 DEF Parses
<1>. QED BY <1>1, <1>10 DEF Keeps

\* A call returns.
LEMMA EndOperandKeeps ==
    ASSUME ParserInv, NEW text, NEW ts, IsTokens(ts), Keeps(text, ts), EndOperand
    PROVE  Keeps(text, ts)'
<1>1. phase = "operator" /\ ~Continues /\ token.kind # "error"
      BY DEF EndOperand
<1>2. PICK c, left : Parses(text, ts, c, left)
      BY <1>1 DEF Keeps
<1>3. /\ Goes(ts, exprs, c, nodes) /\ token = ts[c+1] /\ c \in Nat
      /\ Inner = Last(exprs) /\ Inner \in Frame /\ Len(exprs) \in Nat \ {0}
      /\ Inner.for.kind = "main" <=> Len(exprs) = 1
      /\ IsLastToken(token) => token = Last(ts)
      /\ args = <<>>
      BY <1>1, <1>2, ParsesGoes
<1>4. /\ IsAt(text, ts, c, left) /\ AtOperator(ts, exprs, c, nodes) /\ Covers(ts, c, nodes)
      BY <1>1, <1>2 DEF Parses
<1>5. ~GoesOn(ts, exprs, c)
      BY <1>1, <1>3 DEF Continues, GoesOn
<1>6. CASE Inner.for.kind \in {"unary", "binary"}
      <2>1. /\ exprs' = Front(exprs) /\ nodes' = Append(nodes, Inner.for)
            /\ UNCHANGED <<phase, rest, token, args>>
            BY <1>6 DEF EndOperand
      <2>2. AtOperator(ts, exprs', c, nodes')
            BY <1>3, <1>4, <1>5, <1>6, <2>1, OperatorEnds
      <2>3. Covers(ts, c, nodes')
            <3>1. Inner.for \in Node /\ Inner.for.kind \notin {"CELL", "NUMBER"}
                  BY <1>3, <1>6 DEF Frame, Node, Branch
            <3>2. nodes \in Seq(Node)
                  BY <1>3 DEF Goes
            <3>3. Covers(ts, c, Append(nodes, Inner.for))
                  BY <1>3, <1>4, <3>1, <3>2, CoversAppended
            <3>. QED BY <2>1, <3>3
      <2>4. IsAt(text, ts, c, left)'
            BY <1>4, <2>1 DEF IsAt
      <2>5. Parses(text, ts, c, left)'
            BY <1>1, <2>1, <2>2, <2>3, <2>4 DEF Parses
      <2>. QED BY <1>1, <2>1, <2>5 DEF Keeps
<1>7. CASE Inner.for.kind = "parens" /\ token.kind = ")"
      <2>1. exprs' = Front(exprs) /\ Consume /\ UNCHANGED <<phase, nodes, args>>
            BY <1>7 DEF EndOperand
      <2>2. ~IsLeaf(ts, c + 1) /\ ~IsLastToken(token)
            BY <1>3, <1>7 DEF IsLeaf, IsLastToken
      <2>3. AtOperator(ts, exprs', c + 1, nodes')
            BY <1>3, <1>4, <1>7, <2>1, BracketsEnd
      <2>4. IsAt(text, ts, c + 1, left)'
            BY <1>4, <2>1, <2>2, NextIsRead
      <2>5. Covers(ts, c + 1, nodes')
            BY <1>3, <1>4, <2>1, <2>2, CoversOther
      <2>6. Parses(text, ts, c + 1, left)'
            BY <1>1, <2>1, <2>3, <2>4, <2>5 DEF Parses
      <2>. QED BY <1>1, <2>1, <2>6 DEF Keeps
<1>8. CASE Inner.for.kind = "main" /\ token.kind = "EOF"
      <2>1. exprs' = <<>> /\ phase' = "walk" /\ UNCHANGED <<rest, token, nodes, args>>
            BY <1>8 DEF EndOperand
      <2>2. IsLastToken(token) /\ Last(ts).kind = "EOF"
            BY <1>3, <1>8 DEF IsLastToken
      <2>3. c + 1 = Len(ts)
            BY <1>3, <2>2 DEF Goes, IsTokens
      <2>4. \E tree : {x.tree : x \in Whole(ts)} = {tree} /\ Builds(nodes, <<>>, <<tree>>)
            BY <1>3, <1>4, <1>8, <2>3, AllRead
      <2>5. Covers(ts, Len(ts), nodes)
            <3>1. ~IsLeaf(ts, c + 1)
                  BY <1>3, <1>8 DEF IsLeaf
            <3>. QED BY <1>3, <1>4, <2>3, <3>1, CoversOther
      <2>. QED BY <1>3, <2>1, <2>2, <2>4, <2>5 DEF Keeps
<1>9. CASE \/ Inner.for.kind = "parens" /\ token.kind # ")"
           \/ Inner.for.kind = "main" /\ token.kind # "EOF"
      <2>1. ParsingError
            BY <1>9 DEF EndOperand
      <2>2. Whole(ts) = {}
            <3>1. Inner.for.kind = "main" => c + 1 # Len(ts)
                  <4>1. SUFFICES ASSUME Inner.for.kind = "main", c + 1 = Len(ts) PROVE FALSE
                        OBVIOUS
                  <4>2. IsLastToken(ts[c+1])
                        BY <1>3, <4>1 DEF Goes, IsTokens
                  <4>3. token.kind # "EOF"
                        BY <1>9, <4>1
                  <4>. QED BY <1>1, <1>3, <4>2, <4>3 DEF IsLastToken
            <3>. QED BY <1>3, <1>4, <1>5, <1>9, <3>1, NoEnd
      <2>. QED BY <2>1, <2>2, ErrorKeeps DEF IsLegal
<1>. QED BY <1>3, <1>6, <1>7, <1>8, <1>9 DEF Frame

\* A node of the walk does to the stack what it is to do; a leaf that is refused is a
\* token that is not allowed.
LEMMA WalkKeeps ==
    ASSUME ParserInv, NEW text, NEW ts, IsTokens(ts), Keeps(text, ts), Walk
    PROVE  Keeps(text, ts)'
<1>. DEFINE node == Head(nodes)
<1>1. /\ phase = "walk" /\ nodes # <<>> /\ nodes' = Tail(nodes)
      /\ VisitTerminal(node) \/ ExitUnaryOp(node) \/ ExitBinaryOp(node)
      BY DEF Walk
<1>2. /\ Last(ts).kind = "EOF"
      /\ \E tree : {x.tree : x \in Whole(ts)} = {tree} /\ Builds(nodes, args, <<tree>>)
      /\ Covers(ts, Len(ts), nodes)
      BY <1>1 DEF Keeps
<1>3. PICK tree : {x.tree : x \in Whole(ts)} = {tree} /\ Builds(nodes, args, <<tree>>)
      BY <1>2
<1>4. nodes \in Seq(Node) /\ nodes[1] = node /\ 1 \in 1..Len(nodes)
      <2>1. nodes \in Seq(Node)
            BY DEF ParserInv
      <2>2. Len(nodes) \in Nat \ {0}
            BY <1>1, <2>1, EmptySeq
      <2>. QED BY <2>1, <2>2
<1>5. PICK mid : Visits(node, args, mid) /\ Builds(nodes', mid, <<tree>>)
      BY <1>1, <1>3, <1>4, BuildsFromHead
<1>. HIDE DEF node
<1>6. ASSUME phase' = "walk", args' = mid, node.kind \in {"CELL", "NUMBER"} => IsAllowed(node)
      PROVE  Keeps(text, ts)'
      <2>1. Covers(ts, Len(ts), nodes')
            BY <1>1, <1>2, <1>4, <1>6, CoversTail DEF node
      <2>2. \E t : {x.tree : x \in Whole(ts)} = {t} /\ Builds(nodes', args', <<t>>)
            BY <1>3, <1>5, <1>6
      <2>. QED BY <1>2, <1>6, <2>1, <2>2 DEF Keeps
<1>7. CASE VisitTerminal(node)
      <2>1. node.kind \in {"CELL", "NUMBER"}
            BY <1>7 DEF VisitTerminal
      <2>. DEFINE ok == IF node.kind = "CELL" THEN IsCellPosition(node.chars)
                                              ELSE IsFiniteNumber(node.chars)
      <2>2. ok <=> IsAllowed(node)
            BY <2>1 DEF IsAllowed
      <2>3. \/ ok /\ args' = Append(args, <<node.kind, node.chars>>) /\ UNCHANGED phase
            \/ ~ok /\ phase' = "FormulaException"
            BY <1>7 DEF VisitTerminal
      <2>. HIDE DEF ok
      <2>4. CASE ok /\ args' = Append(args, <<node.kind, node.chars>>) /\ UNCHANGED phase
            <3>1. args' = mid
                  BY <1>5, <2>1, <2>4 DEF Visits
            <3>. QED BY <1>1, <1>6, <2>2, <2>4, <3>1
      <2>5. CASE ~ok /\ phase' = "FormulaException"
            <3>1. PICK i \in 1..Len(ts) : node = ts[i]
                  BY <1>2, <1>4, <2>1 DEF Covers
            <3>2. i \in DOMAIN ts
                  BY LenProperties DEF IsTokens
            <3>3. ~IsLegal(ts)
                  BY <2>2, <2>5, <3>1, <3>2 DEF IsLegal
            <3>. QED BY <2>5, <3>3 DEF Keeps
      <2>. QED BY <2>3, <2>4, <2>5
<1>8. CASE ExitUnaryOp(node)
      <2>1. /\ node.kind = "unary" /\ args' = [args EXCEPT ![Len(args)] = <<"unary", node.op, @>>]
            /\ UNCHANGED phase
            BY <1>8 DEF ExitUnaryOp
      <2>2. args' = mid
            BY <1>5, <2>1 DEF Visits
      <2>. QED BY <1>1, <1>6, <2>1, <2>2
<1>9. CASE ExitBinaryOp(node)
      <2>1. /\ node.kind = "binary" /\ UNCHANGED phase
            /\ args' = Append(SubSeq(args, 1, Len(args) - 2),
                              <<"binary", node.op, args[Len(args) - 1], args[Len(args)]>>)
            BY <1>9 DEF ExitBinaryOp
      <2>2. args' = mid
            BY <1>5, <2>1 DEF Visits
      <2>. QED BY <1>1, <1>6, <2>1, <2>2
<1>. QED BY <1>1, <1>7, <1>8, <1>9

\* The root is what is left.
LEMMA MoveRootKeeps ==
    ASSUME NEW text, NEW ts, IsTokens(ts), Keeps(text, ts), MoveRoot
    PROVE  Keeps(text, ts)'
<1>1. phase = "walk" /\ nodes = <<>> /\ phase' = "parsed" /\ UNCHANGED args
      BY DEF MoveRoot
<1>2. Last(ts).kind = "EOF" /\ Covers(ts, Len(ts), nodes)
      BY <1>1 DEF Keeps
<1>3. PICK tree : {x.tree : x \in Whole(ts)} = {tree} /\ Builds(nodes, args, <<tree>>)
      BY <1>1 DEF Keeps
<1>4. args = <<tree>>
      BY <1>1, <1>3, BuildsNothing
<1>5. args'[1] = tree
      BY <1>1, <1>4
<1>6. \A i \in DOMAIN ts : IsAllowed(ts[i])
      <2>1. DOMAIN ts = 1..Len(ts) /\ Len(nodes) = 0
            BY <1>1, LenProperties DEF IsTokens
      <2>. QED BY <1>2, <2>1 DEF Covers
<1>7. Whole(ts) # {}
      BY <1>3
<1>. QED BY <1>1, <1>2, <1>3, <1>5, <1>6, <1>7 DEF Keeps, IsLegal

\* The invariant is inductive.
LEMMA GrammarInitInv == ParserInit => GrammarInv
<1>1. SUFFICES ASSUME ParserInit PROVE GrammarInv
      OBVIOUS
<1>2. PICK text \in Expression : expression = text
      BY <1>1 DEF ParserInit
<1>3. text \in Seq(STRING)
      BY ExpressionAssumption
<1>4. Keeps(text, Tokens(text))
      BY <1>1, <1>2, <1>3, TokensLexed, KeepsInit
<1>. QED BY <1>2, <1>4 DEF GrammarInv

LEMMA GrammarStepInv == ParserInv /\ GrammarInv /\ [ParserNext]_parserVars => GrammarInv'
<1>1. SUFFICES ASSUME ParserInv, GrammarInv, [ParserNext]_parserVars PROVE GrammarInv'
      OBVIOUS
<1>2. PICK text \in Expression : expression = text /\ Keeps(text, Tokens(text))
      BY <1>1 DEF GrammarInv
<1>. DEFINE ts == Tokens(text)
<1>3. text \in Seq(STRING)
      BY ExpressionAssumption
<1>4. IsTokens(ts)
      BY <1>3, TokensLexed
<1>5. expression' = text
      BY <1>1, <1>2 DEF ParserNext, parserVars
<1>. SUFFICES Keeps(text, ts)'
     BY <1>5 DEF GrammarInv
<1>6. Keeps(text, ts)
      BY <1>2
<1>7. CASE Begin
      BY <1>3, <1>6, <1>7, BeginKeeps
<1>8. CASE LexingFails
      BY <1>1, <1>4, <1>6, <1>8, LexingFailsKeeps
<1>9. CASE ReadOperand
      BY <1>1, <1>4, <1>6, <1>9, ReadOperandKeeps
<1>10. CASE ReadOperator
       BY <1>1, <1>4, <1>6, <1>10, ReadOperatorKeeps
<1>11. CASE EndOperand
       BY <1>1, <1>4, <1>6, <1>11, EndOperandKeeps
<1>12. CASE Walk
       BY <1>1, <1>4, <1>6, <1>12, WalkKeeps
<1>13. CASE MoveRoot
       BY <1>4, <1>6, <1>13, MoveRootKeeps
<1>14. CASE UNCHANGED parserVars
       BY <1>6, <1>14 DEF Keeps, Parses, IsAt, parserVars
<1>. QED BY <1>1, <1>7, <1>8, <1>9, <1>10, <1>11, <1>12, <1>13, <1>14 DEF ParserNext

LEMMA GrammarInvParses == GrammarInv => ParsesTheGrammar
<1>1. SUFFICES ASSUME GrammarInv PROVE ParsesTheGrammar
      OBVIOUS
<1>2. PICK text \in Expression : expression = text /\ Keeps(text, Tokens(text))
      BY <1>1 DEF GrammarInv
<1>. QED BY <1>2 DEF Keeps, ParsesTheGrammar

\* Whatever the text: ParseFormulaAST gives an expression exactly if the rules of
\* Formula.g4 derive all of it, its cells are in the table and its numbers are finite,
\* and throws otherwise; and the expression is that of the only tree they derive.
THEOREM GrammarParsed == ParserSpec => []ParsesTheGrammar
<1>1. ParserInit => ParserInv /\ GrammarInv
      BY ParserInitInv, GrammarInitInv
<1>2. ParserInv /\ GrammarInv /\ [ParserNext]_parserVars => ParserInv' /\ GrammarInv'
      BY ParserStepInv, GrammarStepInv
<1>3. GrammarInv => ParsesTheGrammar
      BY GrammarInvParses
<1>. QED BY <1>1, <1>2, <1>3, PTL DEF ParserSpec
===========================================================================
