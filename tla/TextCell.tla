----------------------------- MODULE TextCell -----------------------------
(***************************************************************************)
(* TextImpl::GetValue of cell.cpp: what a cell shows that holds a text,    *)
(* and what a formula makes of it.                                         *)
(*                                                                         *)
(* The apostrophe in front is taken off, strtod tries its luck, blanks     *)
(* after the number are skipped, and the text is a number if nothing is    *)
(* left.  end is a pointer into the text, which may contain characters     *)
(* that are special to C: a NUL, blanks, the words for infinity.           *)
(*                                                                         *)
(* A character is a string; "999" stands for digits enough to make an      *)
(* exponent too large, "inf" and "nan" for the words strtod knows, "w" for *)
(* any other letter.  A number is the characters it was read from.         *)
(***************************************************************************)
EXTENDS Integers, Sequences, FiniteSets, SequencesExt

CONSTANT CellText      \* the texts the cell is set to

Space == {" ", "\t"}
Blank == Space \cup {"\n"}
NumberDigit == {"0", "1", "999"}
Sign  == {"+", "-"}

\* A text cell holds a text that is neither empty nor a formula: Cell::Set and
\* Cell::IsFormulaText.
IsFormulaText(s) == Len(s) > 1 /\ s[1] = "="

ASSUME CellTextAssumption ==
    CellText \subseteq Seq(STRING) /\ \A s \in CellText : s # <<>> /\ ~IsFormulaText(s)

---------------------------------------------------------------------------
(***************************************************************************)
(* strtod.                                                                 *)
(***************************************************************************)
All(s, S) == \A i \in DOMAIN s : s[i] \in S

Part(s, i, j) == SubSeq(s, i, j)

IsDecimal(s) == /\ All(s, NumberDigit \cup {"."})
                /\ \E i \in DOMAIN s : s[i] \in NumberDigit
                /\ Cardinality({i \in DOMAIN s : s[i] = "."}) <= 1

Unsigned(s) == IF s # <<>> /\ s[1] \in Sign THEN Tail(s) ELSE s

IsExponent(s) == LET digits == Unsigned(s) IN digits # <<>> /\ All(digits, NumberDigit)

IsHexadecimal(s) == /\ Len(s) > 2
                    /\ s[1] = "0" /\ s[2] = "x"
                    /\ All(Part(s, 3, Len(s)), NumberDigit)

\* Mantissa and exponent at the letter e in place k.
IsScientific(s, k) == /\ s[k] = "e"
                      /\ IsDecimal(Part(s, 1, k - 1))
                      /\ IsExponent(Part(s, k + 1, Len(s)))

IsNumeral(s) ==
    LET u == Unsigned(s)
    IN \/ IsDecimal(u)
       \/ \E k \in DOMAIN u : IsScientific(u, k)
       \/ IsHexadecimal(u)
       \/ u \in {<<"inf">>, <<"nan">>}

\* Blanks, then a number.
IsConverted(s) ==
    \E b \in 0..Len(s) : All(Part(s, 1, b), Blank) /\ IsNumeral(Part(s, b + 1, Len(s)))

\* How much of s strtod converts: the longest part it can, or nothing.
Converted(s) == Max({0} \cup {n \in 1..Len(s) : IsConverted(Part(s, 1, n))})

\* The number is infinite or not a number.
IsFinite(s) ==
    /\ \A i \in DOMAIN s : s[i] \notin {"inf", "nan"}
    /\ \A k \in DOMAIN s :
          s[k] = "e" /\ s[k + 1] # "-" /\ (\E i \in k + 1..Len(s) : s[i] = "999")
              => All(Part(s, 1, k - 1), Blank \cup Sign \cup {"0", "."})

---------------------------------------------------------------------------
VARIABLES
    text_,        \* text_
    line,          \* the statement GetValue has come to
    content,     \* content
    num,         \* num: the characters strtod converted
    end,         \* end - content.data()
    value        \* what GetValue returns, once at = "returned"

cellVars == <<text_, line, content, num, end, value>>

Double(s)    == <<"double", s>>
String(s)    == <<"string", s>>
FormulaError(c) == <<"error", c>>

Zero == Double(<<>>)

GetValueInit ==
    /\ text_ \in CellText
    /\ line = "prefix"
    /\ content = <<>>
    /\ num = <<>>
    /\ end = 0
    /\ value = Zero

\* Faulty variant: the apostrophe stays.
PrefixKept(s) == s

WithoutPrefix(s) == IF s[1] = "'" THEN Tail(s) ELSE s

\* The apostrophe alone counts as zero.
RemovePrefix ==
    /\ line = "prefix"
    /\ content' = WithoutPrefix(text_)
    /\ line' = IF content' = <<>> THEN "returned" ELSE "convert"
    /\ UNCHANGED <<text_, num, end, value>>

Convert ==
    /\ line = "convert"
    /\ end' = Converted(content)
    /\ num' = Part(content, 1, end')
    /\ line' = "skip"
    /\ UNCHANGED <<text_, content, value>>

\* *end: a string is followed by a NUL.
AtEnd == IF end = Len(content) THEN "NUL" ELSE content[end + 1]

\* Faulty variant: the loop runs over the NUL.
SkipOverEnd ==
    /\ line = "skip"
    /\ end <= Len(content)
    /\ AtEnd \in Space \cup {"NUL"}
    /\ end' = end + 1
    /\ UNCHANGED <<text_, line, content, num, value>>

SkipBlank ==
    /\ line = "skip"
    /\ AtEnd \in Space
    /\ end' = end + 1
    /\ UNCHANGED <<text_, line, content, num, value>>

\* Faulty variant: a number may be followed by anything.
LeadingNumber ==
    IF end = 0 THEN String(content)
    ELSE IF ~IsFinite(num) THEN FormulaError("Arithmetic")
    ELSE Double(num)

\* The number, if end has moved and nothing is left; else the text.
Decided ==
    IF end = 0 \/ AtEnd # "NUL" THEN String(content)
    ELSE IF ~IsFinite(num) THEN FormulaError("Arithmetic")
    ELSE Double(num)

Decide ==
    /\ line = "skip"
    /\ AtEnd \notin Space
    /\ value' = Decided
    /\ line' = "returned"
    /\ UNCHANGED <<text_, content, num, end>>

GetValueNext == RemovePrefix \/ Convert \/ SkipBlank \/ Decide

TextCellSpec == GetValueInit /\ [][GetValueNext]_cellVars

---------------------------------------------------------------------------
(***************************************************************************)
(* Properties.                                                             *)
(***************************************************************************)

\* The types; and end never leaves the text and the NUL behind it, blanks at the
\* end of the text included.
TextCellTypeOK ==
    /\ line \in {"prefix", "convert", "skip", "returned"}
    /\ text_ \in Seq(STRING) /\ content \in Seq(STRING)
    /\ end \in 0..Len(content)
    /\ num \in Seq(STRING)
    /\ value[1] \in {"double", "string", "error"}

\* The text without the escape character, as C sees it, and without spaces at its
\* end.
Unescaped == IF Head(text_) = "'" THEN Tail(text_) ELSE text_

CString == LET nul == {i \in DOMAIN Unescaped : Unescaped[i] = "NUL"}
           IN IF nul = {} THEN Unescaped ELSE Part(Unescaped, 1, Min(nul) - 1)

Trimmed(s) == Part(s, 1, Max({0} \cup {i \in DOMAIN s : s[i] \notin Space}))

\* The value is what formula.h:12-14 has a formula make of the text, as cell.cpp:51-53
\* moved the conversion to here, and not always the text that common.h:90-91 and
\* cell.h:33 have: a number where strtod can read all of the text but the spaces at
\* its end, or where there are only spaces; an error if the number is none a double
\* can hold; in all other cases the text, all of it.  What comes after a NUL is not
\* looked at.
NumberOrText ==
    line = "returned" =>
        LET s == Trimmed(CString)
            reads == IsConverted(s) \/ (s = <<>> /\ CString # <<>>) \/ Unescaped = <<>>
        IN value = IF ~reads THEN String(Unescaped)
                   ELSE IF IsFinite(s) THEN Double(s) ELSE FormulaError("Arithmetic")

---------------------------------------------------------------------------
(***************************************************************************)
(* Sentences of formula.h and common.h.                                    *)
(***************************************************************************)

\* A text that represents no number is not taken for one (formula.h:12-14), and the
\* value of a text cell is its text (common.h:90-91).
BlankTextIsNoNumber ==
    line = "returned" /\ Unescaped # <<>> /\ All(Unescaped, Blank) => value = String(Unescaped)
===========================================================================
