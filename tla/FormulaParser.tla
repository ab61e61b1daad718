--------------------------- MODULE FormulaParser --------------------------
(***************************************************************************)
(* ParseFormulaAST of FormulaAST.cpp: a text is lexed and parsed by the    *)
(* rules of Formula.g4, and ParseASTListener walks the parse tree and      *)
(* builds the expression on a stack.                                       *)
(*                                                                         *)
(* The lexer takes the longest token it can and runs one token ahead of    *)
(* the parser.  The parser is what ANTLR makes of the rule expr: a         *)
(* recursive call for an operand takes the priority an operator must have  *)
(* to be read by it.  The parse tree is kept as the nodes in the order in  *)
(* which the walk leaves them, which is the order of their completion.     *)
(*                                                                         *)
(* A character is a string.                                                *)
(***************************************************************************)
EXTENDS Grammar, SequencesExt, FiniteSets

CONSTANTS
    Expression,         \* the texts that are parsed: what follows the = sign
    IsCellPosition(_),  \* Position::FromString of a CELL token is valid
    IsFiniteNumber(_)   \* a stream reads a NUMBER token, and as a finite number

Letter   == {"A", "B", "E"}
Numeric  == {"0", "1", "2", "3"}
White    == {" ", "\t", "\n", "\r"}

ASSUME ExpressionAssumption == Expression \subseteq Seq(STRING)

---------------------------------------------------------------------------
(***************************************************************************)
(* The lexer.                                                              *)
(***************************************************************************)
Consists(s, chars) == s # <<>> /\ \A i \in DOMAIN s : s[i] \in chars

UInt(s) == Consists(s, Numeric)

\* UINT, or UINT? '.' UINT.
Mantissa(s) == \/ UInt(s)
               \/ \E k \in DOMAIN s : /\ s[k] = "."
                                      /\ \A i \in DOMAIN s \ {k} : s[i] \in Numeric
                                      /\ k < Len(s)

\* EXPONENT.
Exponent(s) == /\ s # <<>> /\ s[1] \in {"e", "E"}
               /\ UInt(Tail(s)) \/ (Len(s) > 2 /\ s[2] \in AddSub /\ UInt(SubSeq(s, 3, Len(s))))

NumberToken(s) ==
    \/ Mantissa(s)
    \/ \E k \in DOMAIN s : Mantissa(SubSeq(s, 1, k - 1)) /\ Exponent(SubSeq(s, k, Len(s)))

CellToken(s) == \E k \in DOMAIN s : /\ Consists(SubSeq(s, 1, k - 1), Letter)
                                    /\ Consists(SubSeq(s, k, Len(s)), Numeric)

\* The first token of s, as its kind and its characters; "error" where the lexer
\* calls syntaxError.
FirstToken(s) ==
    LET lengths == {n \in DOMAIN s : NumberToken(SubSeq(s, 1, n)) \/ CellToken(SubSeq(s, 1, n))}
        longest == SubSeq(s, 1, Max(lengths))
    IN CASE s = <<>>  -> EOF
         [] s # <<>> /\ s[1] \in Operator \cup Bracket -> Symbol(s[1])
         [] s # <<>> /\ s[1] \notin Operator \cup Bracket /\ lengths = {} ->
                [kind |-> "error", chars |-> s]
         [] OTHER -> [kind |-> IF CellToken(longest) THEN "CELL" ELSE "NUMBER",
                      chars |-> longest]

\* What is left of s behind the blanks in front of it.
SkipWhite(s) ==
    LET solid == {i \in DOMAIN s : s[i] \notin White}
    IN IF solid = {} THEN <<>> ELSE SubSeq(s, Min(solid), Len(s))

---------------------------------------------------------------------------
VARIABLES
    expression,   \* the text given to ParseFormulaAST
    phase,        \* "operand" or "operator", what the parser looks for; "walk";
                  \* at the end "parsed" or "FormulaException"
    rest,         \* the characters not yet lexed
    token,        \* LT(1), the token the parser looks at
    exprs,        \* the calls of expr under way: what to do with the operand each
                  \* reads, and its _p
    nodes,        \* the nodes of the parse tree not yet left by the walk
    args          \* args_ of ParseASTListener

parserVars == <<expression, phase, rest, token, exprs, nodes, args>>

\* The token in front of s is the next, and rest is what comes after it.
Lex(s) == \E solid \in {SkipWhite(s)} : \E t \in {FirstToken(solid)} :
             /\ token' = t
             /\ rest' = SubSeq(solid, Len(t.chars) + 1, Len(solid))

Consume == Lex(rest)

\* main is "expr EOF", and the parser has looked at nothing yet.
ParserInit ==
    /\ expression \in Expression
    /\ phase = "start"
    /\ rest = expression
    /\ token = [kind |-> "none", chars |-> <<>>]
    /\ exprs = << [for |-> [kind |-> "main", op |-> "none"], p |-> 0] >>
    /\ nodes = <<>>
    /\ args = <<>>

Begin == /\ phase = "start"
         /\ phase' = "operand"
         /\ Consume
         /\ UNCHANGED <<exprs, nodes, args>>

\* ParsingError or ParseCancellationException, which become a FormulaException.
ParsingError == /\ phase' = "FormulaException"
                /\ UNCHANGED <<rest, token, exprs, nodes, args>>

LexingFails == /\ phase \in {"operand", "operator"}
               /\ token.kind = "error"
               /\ ParsingError

\* The innermost call of expr.
Inner == Last(exprs)

Call(kind, op, p) == exprs' = Append(exprs, [for |-> [kind |-> kind, op |-> op], p |-> p])

\* The alternatives of expr that do not begin with expr.
ReadOperand ==
    /\ phase = "operand"
    /\ \/ /\ token.kind \in {"CELL", "NUMBER"}
          /\ nodes' = Append(nodes, token)
          /\ phase' = "operator"
          /\ Consume
          /\ UNCHANGED <<exprs, args>>
       \/ /\ token.kind = "("
          /\ Call("parens", "none", 0)
          /\ Consume
          /\ UNCHANGED <<phase, nodes, args>>
       \/ /\ token.kind \in AddSub
          /\ Call("unary", token.kind, 5)
          /\ Consume
          /\ UNCHANGED <<phase, nodes, args>>
       \/ /\ token.kind \in {")", "*", "/", "EOF"}
          /\ ParsingError

\* Faulty variant: operators of one priority associate to the right.
PriorityAtRightSame(op) == Priority(op)

\* The _p with which the operand on the right of op is read.
PriorityAtRight(op) == Priority(op) + 1

\* The loop of expr: an operator whose priority is not below _p.
Continues == token.kind \in Operator /\ Inner.p <= Priority(token.kind)

ReadOperator ==
    /\ phase = "operator"
    /\ Continues
    /\ Call("binary", token.kind, PriorityAtRight(token.kind))
    /\ phase' = "operand"
    /\ Consume
    /\ UNCHANGED <<nodes, args>>

EndOperand ==
    /\ phase = "operator"
    /\ ~Continues /\ token.kind # "error"
    /\ \/ /\ Inner.for.kind \in {"unary", "binary"}
          /\ exprs' = Front(exprs)
          /\ nodes' = Append(nodes, Inner.for)
          /\ UNCHANGED <<phase, rest, token, args>>
       \/ /\ Inner.for.kind = "parens"
          /\ token.kind = ")"
          /\ exprs' = Front(exprs)
          /\ Consume
          /\ UNCHANGED <<phase, nodes, args>>
       \/ /\ Inner.for.kind = "main"
          /\ token.kind = "EOF"
          /\ exprs' = <<>>
          /\ phase' = "walk"
          /\ UNCHANGED <<rest, token, nodes, args>>
       \/ /\ \/ Inner.for.kind = "parens" /\ token.kind # ")"
             \/ Inner.for.kind = "main" /\ token.kind # "EOF"
          /\ ParsingError

---------------------------------------------------------------------------
(***************************************************************************)
(* The walk of ParseASTListener.                                           *)
(***************************************************************************)
\* visitTerminal.
VisitTerminal(node) ==
    /\ node.kind \in {"CELL", "NUMBER"}
    /\ \/ /\ IF node.kind = "CELL" THEN IsCellPosition(node.chars)
                                   ELSE IsFiniteNumber(node.chars)
          /\ args' = Append(args, <<node.kind, node.chars>>)
          /\ UNCHANGED phase
       \/ /\ ~IF node.kind = "CELL" THEN IsCellPosition(node.chars)
                                    ELSE IsFiniteNumber(node.chars)
          /\ phase' = "FormulaException"
          /\ UNCHANGED args

ExitUnaryOp(node) ==
    /\ node.kind = "unary"
    /\ args' = [args EXCEPT ![Len(args)] = <<"unary", node.op, @>>]
    /\ UNCHANGED phase

\* Faulty variant: the right operand stays on the stack.
ExitBinaryOpKeeping(node) ==
    /\ node.kind = "binary"
    /\ args' = Append(args, <<"binary", node.op, args[Len(args) - 1], args[Len(args)]>>)
    /\ UNCHANGED phase

ExitBinaryOp(node) ==
    /\ node.kind = "binary"
    /\ args' = Append(SubSeq(args, 1, Len(args) - 2),
                      <<"binary", node.op, args[Len(args) - 1], args[Len(args)]>>)
    /\ UNCHANGED phase

Walk ==
    /\ phase = "walk"
    /\ nodes # <<>>
    /\ nodes' = Tail(nodes)
    /\ \/ VisitTerminal(Head(nodes))
       \/ ExitUnaryOp(Head(nodes))
       \/ ExitBinaryOp(Head(nodes))
    /\ UNCHANGED <<rest, token, exprs>>

MoveRoot ==
    /\ phase = "walk"
    /\ nodes = <<>>
    /\ phase' = "parsed"
    /\ UNCHANGED <<rest, token, exprs, nodes, args>>

ParserNext ==
    /\ Begin \/ LexingFails \/ ReadOperand \/ ReadOperator \/ EndOperand \/ Walk \/ MoveRoot
    /\ UNCHANGED expression

ParserSpec == ParserInit /\ [][ParserNext]_parserVars

---------------------------------------------------------------------------
(***************************************************************************)
(* Properties.                                                             *)
(***************************************************************************)

\* The stack of the listener: an operator finds its operands on it, and the assert
\* of MoveRoot (FormulaAST.cpp:339) holds, one expression being left at the end.
\* The calls of the parser nest as the grammar lets them: below an operand of an
\* operator there is none that could read an operator of lower priority, but
\* within parentheses.
StackDiscipline ==
    /\ phase \in {"start", "operand", "operator", "walk", "parsed", "FormulaException"}
    /\ (phase = "walk" /\ nodes # <<>>) =>
          Len(args) >= CASE Head(nodes).kind = "unary"  -> 1
                         [] Head(nodes).kind = "binary" -> 2
                         [] OTHER -> 0
    /\ (phase = "walk" /\ nodes = <<>>) => Len(args) = 1
    /\ \A i \in 2..Len(exprs) : exprs[i].p > exprs[i-1].p \/ exprs[i].for.kind # "binary"

IsLastToken(t) == t.kind \in {"EOF", "error"}

\* One more token of a text: those read, and what is left of the text.
ReadToken(l) ==
    LET solid == SkipWhite(l.rest)
        t == FirstToken(solid)
    IN IF l.read # <<>> /\ IsLastToken(Last(l.read)) THEN l
       ELSE [read |-> Append(l.read, t), rest |-> SubSeq(solid, Len(t.chars) + 1, Len(solid))]

\* The tokens of the whole text; the last is EOF, or the error the lexer ends with.
Tokens(s) ==
    LET lexed[n \in 0..Len(s) + 1] == IF n = 0 THEN [read |-> <<>>, rest |-> s]
                                      ELSE ReadToken(lexed[n - 1])
    IN lexed[Len(s) + 1].read

\* The cells are in the table and the numbers are finite.
IsAllowed(node) == /\ node.kind = "CELL" => IsCellPosition(node.chars)
                   /\ node.kind = "NUMBER" => IsFiniteNumber(node.chars)

IsLegal(ts) == /\ Last(ts).kind = "EOF"
               /\ Whole(ts) # {}
               /\ \A i \in DOMAIN ts : IsAllowed(ts[i])

\* A text is parsed exactly if it is an expression of the grammar whose cells are in
\* the table and whose numbers are finite, blanks or not; and what it is parsed to
\* is the one tree its priorities allow.
ParsesTheGrammar ==
    phase \in {"parsed", "FormulaException"} =>
        LET ts == Tokens(expression)
        IN /\ IsLegal(ts) <=> phase = "parsed"
           /\ phase = "parsed" => {x.tree : x \in Whole(ts)} = {args[1]}
===========================================================================
