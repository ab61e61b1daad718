--------------------------- MODULE PositionText ---------------------------
(***************************************************************************)
(* Position::ToString and Position::FromString of structures.cpp, a loop   *)
(* iteration a step: a position is written and the text is read back, or   *)
(* any text is read.                                                       *)
(*                                                                         *)
(* Columns are A..Z, AA..ZZ, AAA...: a numeral system without a zero, in   *)
(* which ToString counts down and FromString counts up, each with its own  *)
(* correction by one.                                                      *)
(*                                                                         *)
(* A character is <<"upper", k>> for 'A' + k, <<"lower", k>> for 'a' + k,  *)
(* <<"digit", d>> for '0' + d, or <<"other", 0>>.                          *)
(***************************************************************************)
EXTENDS Positions, Sequences, SequencesExt

CONSTANTS
    LETTERS,        \* the letters of the alphabet
    MaxInt,         \* the largest int
    Numeral(_),     \* std::to_string
    Stoi(_),        \* the number std::stoi reads, too large for an int or not
    ArgPos,         \* the positions ToString is called on, valid or not
    ArgText         \* the texts FromString is called on

Character == ({"upper", "lower"} \X (0..LETTERS-1)) \cup ({"digit", "other"} \X Nat)

Upper(k) == <<"upper", k>>
Digit(d) == <<"digit", d>>

\* std::isalpha and std::isdigit.
IsAlpha(c) == c[1] \in {"upper", "lower"}
IsDigit(c) == c[1] = "digit"

\* Three letters are enough for the columns, and an int for the rows.
ASSUME LettersAssumption ==
    /\ LETTERS \in Nat \ {0}
    /\ MAX_COLS <= LETTERS * (1 + LETTERS * (1 + LETTERS))
    /\ MaxInt \in Nat
    /\ MAX_ROWS <= MaxInt

\* Of the library: a number is written in digits, the first not a zero, and read
\* back.
ASSUME NumeralAssumption ==
    \A n \in 1..MAX_ROWS :
        /\ Numeral(n) \in Seq({"digit"} \X Nat)
        /\ Numeral(n) # <<>>
        /\ Head(Numeral(n)) # Digit(0)
        /\ Stoi(Numeral(n)) = n

ASSUME ArgAssumption ==
    /\ ArgPos \subseteq Int \X Int
    /\ ArgText \subseteq Seq(Character)

NONE == <<-1, -1>>

VARIABLES
    at,        \* the loop the program is in
    pos,       \* the position ToString is called on, or NONE
    text,      \* what ToString has written so far; what FromString is given
    col,       \* col of ToString, then col of ColumnIndexToInt
    split,     \* col_end: how many letters come before the row
    read,      \* how many letters ColumnIndexToInt has read
    parsed,    \* what FromString has returned
    trail      \* history: the values of col at which ToString wrote a letter

vars == <<at, pos, text, col, split, read, parsed, trail>>

TextInit ==
    /\ \/ at = "ToString" /\ pos \in ArgPos /\ text = <<>>
       \/ at = "FromString" /\ pos = NONE /\ text \in ArgText
    /\ col = 0
    /\ split = 0
    /\ read = 0
    /\ parsed = NONE
    /\ trail = <<>>

---------------------------------------------------------------------------
(***************************************************************************)
(* ToString.                                                               *)
(***************************************************************************)
WriteNothing ==
    /\ at = "ToString"
    /\ ~IsValid(pos)
    /\ at' = "FromString"
    /\ UNCHANGED <<pos, text, col, split, read, parsed, trail>>

WriteBegin ==
    /\ at = "ToString"
    /\ IsValid(pos)
    /\ col' = pos[2]
    /\ at' = "letters"
    /\ UNCHANGED <<pos, text, split, read, parsed, trail>>

\* Faulty variant: as if the letters were the digits of a usual numeral.
NextColumnAsDigits(c) == IF c < LETTERS THEN -1 ELSE c \div LETTERS

NextColumn(c) == c \div LETTERS - 1

WriteLetter ==
    /\ at = "letters"
    /\ col >= 0
    /\ text' = <<Upper(col % LETTERS)>> \o text
    /\ col' = NextColumn(col)
    /\ trail' = Append(trail, col)
    /\ UNCHANGED <<at, pos, split, read, parsed>>

WriteRow ==
    /\ at = "letters"
    /\ col < 0
    /\ text' = text \o Numeral(pos[1] + 1)
    /\ at' = "FromString"
    /\ UNCHANGED <<pos, col, split, read, parsed, trail>>

---------------------------------------------------------------------------
(***************************************************************************)
(* FromString: SplitCellIndex, then ColumnIndexToInt and RowIndexToInt.    *)
(***************************************************************************)
Return(p) == /\ at' = "returned"
             /\ parsed' = p
             /\ UNCHANGED <<pos, text, col, split, read, trail>>

\* n letters, and then something that is none, or the end.
IsColEnd(n) == /\ \A i \in 1..n : IsAlpha(text[i])
               /\ n < Len(text) => ~IsAlpha(text[n + 1])

\* Too short, no letters or no row, or too many letters for ColumnIndexToInt.
RejectShape ==
    /\ at = "FromString"
    /\ \/ Len(text) < 2
       \/ \E n \in 0..Len(text) : IsColEnd(n) /\ (n \in {0, Len(text)} \/ n > 3)
    /\ Return(NONE)

Split ==
    /\ at = "FromString"
    /\ Len(text) >= 2
    /\ \E n \in 1..Len(text)-1 : /\ IsColEnd(n)
                                 /\ n <= 3
                                 /\ split' = n
    /\ col' = 0
    /\ at' = "columns"
    /\ UNCHANGED <<pos, text, read, parsed, trail>>

\* Faulty variant: the letters counted from zero.
ColumnWithFromZero(c) == col * LETTERS + c[2]

\* col once the letter c is read.
ColumnWith(c) == col * LETTERS + (c[2] + 1)

\* Faulty variants: small letters are read as well; the loop does not advance.
ReadAnyLetter ==
    /\ at = "columns"
    /\ read < split
    /\ col' = ColumnWith(text[read + 1])
    /\ read' = read + 1
    /\ UNCHANGED <<at, pos, text, split, parsed, trail>>

ReadNoLetter ==
    /\ at = "columns"
    /\ read < split
    /\ UNCHANGED vars

\* A small letter gives up.
ReadLetter ==
    /\ at = "columns"
    /\ read < split
    /\ LET c == text[read + 1]
       IN \/ /\ c[1] = "upper"
             /\ col' = ColumnWith(c)
             /\ read' = read + 1
             /\ UNCHANGED <<at, pos, text, split, parsed, trail>>
          \/ /\ c[1] # "upper"
             /\ Return(NONE)

\* RowIndexToInt reads the digits: none is something else, the first is not a
\* zero, stoi does not throw, and the table has the row.
IsRow(digits) ==
    /\ Head(digits) # Digit(0)
    /\ \A i \in 1..Len(digits) : IsDigit(digits[i])
    /\ Stoi(digits) <= MaxInt
    /\ Stoi(digits) - 1 \in 0..MAX_ROWS-1

\* Of the library: the number read from the digits of a row is written in the same
\* digits again.
ASSUME RowAssumption ==
    \A t \in ArgText : \A n \in 1..Len(t)-1 :
        LET digits == SubSeq(t, n + 1, Len(t))
        IN IsRow(digits) => Stoi(digits) \in Nat /\ Numeral(Stoi(digits)) = digits

ReadRow ==
    /\ at = "columns"
    /\ read = split
    /\ LET digits == SubSeq(text, split + 1, Len(text))
       IN Return(IF col - 1 < MAX_COLS /\ IsRow(digits)
                 THEN <<Stoi(digits) - 1, col - 1>> ELSE NONE)

TextNext == \/ WriteNothing \/ WriteBegin \/ WriteLetter \/ WriteRow
            \/ RejectShape \/ Split \/ ReadLetter \/ ReadRow

TextSpec == TextInit /\ [][TextNext]_vars

---------------------------------------------------------------------------
(***************************************************************************)
(* Properties.                                                             *)
(***************************************************************************)

\* The types: ToString gets by with three letters, though nothing in it counts
\* them, and col stays within an int in both directions.
TextTypeOK ==
    /\ at \in {"ToString", "letters", "FromString", "columns", "returned"}
    /\ pos \in ArgPos \cup {NONE}
    /\ text \in Seq(Character)
    /\ col \in -1..LETTERS * (1 + LETTERS * (1 + LETTERS))
    /\ split \in 0..3 /\ read \in 0..split
    /\ parsed \in Pos \cup {NONE}
    /\ Len(trail) <= 3

\* A valid position is what its text reads back as; the text of any other, "",
\* reads back as none.
RoundTrip ==
    at = "returned" /\ pos # NONE =>
        parsed = IF IsValid(pos) THEN pos ELSE NONE

\* The names columns can have, and the order in which they are given out:
\* shorter ones first, those of one length as in a dictionary.
ColumnName == BoundedSeq(0..LETTERS-1, 3) \ {<<>>}

NamedBefore(v, w) ==
    \/ Len(v) < Len(w)
    \/ Len(v) = Len(w) /\ \E i \in DOMAIN v : /\ v[i] < w[i]
                                              /\ \A j \in 1..i-1 : v[j] = w[j]

NumberOfName == [w \in ColumnName |-> Cardinality({v \in ColumnName : NamedBefore(v, w)})]

\* The one text of each position: capital letters, then the number of the row.
TextOf(p) ==
    LET w == CHOOSE w \in ColumnName : NumberOfName[w] = p[2]
    IN [i \in DOMAIN w |-> Upper(w[i])] \o Numeral(p[1] + 1)

TextsOfPositions == {<<p, TextOf(p)>> : p \in Pos}

\* FromString accepts the texts of the positions and no other: no small letters,
\* no zeros in front, no sign, nothing after the row, nothing outside the table.
ReadsTheTextsOfPositions ==
    at = "returned" => \A p \in Pos : parsed = p <=> <<p, text>> \in TextsOfPositions
===========================================================================
