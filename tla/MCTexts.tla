------------------------------ MODULE MCTexts -----------------------------
(***************************************************************************)
(* Instances for TLC.  For positions, an alphabet of two letters and       *)
(* digits 0 to 2: names of one, two and three letters, the last of them    *)
(* outside the table, rows of one and two digits, and numbers that do not  *)
(* fit into an int.  For cells, all texts of at most four characters, and  *)
(* some longer ones: exponents with a sign between blanks, and blanks at   *)
(* both ends.  For formulas, all texts of at most four characters, all     *)
(* sequences of at most seven tokens of five kinds, and some longer texts. *)
(***************************************************************************)
EXTENDS Texts

Base == 3

MCNumeral(n) ==
    LET digits[k \in Nat] == IF k < Base THEN <<Digit(k)>>
                             ELSE Append(digits[k \div Base], Digit(k % Base))
    IN digits[n]

MCStoi(digits) == FoldLeft(LAMBDA n, c : n * Base + c[2], 0, digits)

MCArgPos == (-2..MAX_ROWS) \X (-2..MAX_COLS)

MCArgText == BoundedSeq({Upper(0), Upper(1), <<"lower", 0>>, Digit(0), Digit(1),
                         Digit(2), <<"other", 0>>}, 5)

Char == {"'", "=", " ", "\n", "0", "1", ".", "-", "e", "x", "inf", "NUL", "w"}

LongText == { <<"1", "e", "999">>, <<"0", "e", "999">>, <<"1", "e", "-", "999">>,
              <<" ", "-", "1", "e", "+", "999", " ">>,
              <<"'", "\n", "0", "x", "1", "\t", " ", "NUL", "w">>,
              <<"-", "nan", " ">>, <<"'", "=", "1">>, <<"'", "'", "1">> }

MCCellText == {s \in BoundedSeq(Char, 4) \cup LongText : s # <<>> /\ ~IsFormulaText(s)}

ParserChar == {"A", "E", "e", "0", "1", ".", "+", "/", "(", ")", " "}

Lexeme == {"2", "-", "*", "(", ")"}

\* "A1 + 1E3/B2", "A1E3", "R2D2" in these letters, "+ A1 * (\t-B2)\n", "1.E3", and
\* "2 + A0 / 3E11" with a cell and a number that are refused after the parse.
LongExpression == { <<"A", "1", " ", "+", " ", "1", "E", "3", "/", "B", "2">>,
                    <<"A", "1", "E", "3">>,
                    <<"B", "2", "A", "2">>,
                    <<"+", " ", "A", "1", "*", "(", "\t", "-", "B", "2", ")", "\n">>,
                    <<"1", ".", "E", "3">>,
                    <<"2", "+", "A", "0", "/", "3", "E", "1", "1">> }

MCExpression == BoundedSeq(ParserChar, 4) \cup BoundedSeq(Lexeme, 7) \cup LongExpression

\* One letter, and a row other than 0.
MCIsCellPosition(s) == Len(s) = 2 /\ s[2] # "0"

\* An exponent of two digits without a sign is too large.
MCIsFiniteNumber(s) ==
    \A k \in DOMAIN s : s[k] \in {"e", "E"} => Len(s) - k < 2 \/ s[k + 1] \in AddSub
===========================================================================
