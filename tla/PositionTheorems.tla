-------------------------- MODULE PositionTheorems ------------------------
(***************************************************************************)
(* For every alphabet, every size of the table that three letters can name *)
(* and every position: what ToString writes, FromString reads back, and a  *)
(* text it reads back is the text of a position.                           *)
(*                                                                         *)
(* The values of col at which ToString wrote its letters are kept in       *)
(* trail.  ToString goes along trail to -1; FromString, which counts from  *)
(* one, meets the same numbers on the way back.                            *)
(***************************************************************************)
EXTENDS PositionText, GeneralTheorems, SequenceTheorems, FunctionTheorems, FiniteSetTheorems

\* trail starts at the column of pos, and goes on as ToString does.
IsTrail == /\ trail \in Seq(Nat)
           /\ trail # <<>> => trail[1] = pos[2]
           /\ \A i \in 1..Len(trail)-1 : trail[i+1] = NextColumn(trail[i])

\* The letter written at trail[k] is before those written earlier.
LettersOf(t) == \A j \in 1..Len(trail) : t[j] = Upper(trail[Len(trail) + 1 - j] % LETTERS)

\* The columns left to name with the letters left.
ColumnsLeft == CASE Len(trail) = 0 -> LETTERS * (1 + LETTERS * (1 + LETTERS))
                 [] Len(trail) = 1 -> LETTERS * (1 + LETTERS)
                 [] Len(trail) = 2 -> LETTERS
                 [] OTHER -> 0

\* The text of pos is complete.
Written == /\ Len(trail) \in 1..3
           /\ NextColumn(trail[Len(trail)]) = -1
           /\ LettersOf(text)
           /\ text \in Seq(Character)
           /\ Len(text) = Len(trail) + Len(Numeral(pos[1] + 1))
           /\ \A k \in 1..Len(Numeral(pos[1] + 1)) :
                 text[Len(trail) + k] = Numeral(pos[1] + 1)[k]

\* The inductive invariant, for a valid position; with no valid position to
\* write, FromString is given "" or a text of the caller's.
WritingInv ==
    /\ IsValid(pos)
    /\ pos \in Int \X Int
    /\ IsTrail
    /\ at \in {"ToString", "letters", "FromString", "columns", "returned"}
    /\ at = "ToString" => trail = <<>> /\ text = <<>>
    /\ at = "letters" =>
          /\ text \in Seq(Character) /\ Len(text) = Len(trail) /\ Len(trail) <= 3
          /\ LettersOf(text)
          /\ col \in Int /\ -1 <= col /\ col < ColumnsLeft
          /\ col = IF trail = <<>> THEN pos[2] ELSE NextColumn(trail[Len(trail)])
    /\ at \in {"FromString", "columns"} => Written
    /\ at = "columns" =>
          /\ split = Len(trail)
          /\ read \in 0..split
          /\ col = IF read = 0 THEN 0 ELSE trail[Len(trail) + 1 - read] + 1
    /\ at = "returned" => parsed = pos
    /\ at \in {"ToString", "letters", "FromString"} => read = 0

NotWritingInv ==
    /\ ~IsValid(pos)
    /\ pos # NONE => /\ at \in {"ToString", "FromString", "returned"}
                     /\ text = <<>>
                     /\ parsed = NONE

RoundTripInv == WritingInv \/ NotWritingInv

---------------------------------------------------------------------------
(***************************************************************************)
(* Arithmetic.                                                             *)
(***************************************************************************)
\* What one letter takes off col: less than n names of m letters are left.
LEMMA NextColumnBound ==
    ASSUME NEW L \in Nat \ {0}, NEW c \in Nat, NEW m \in Nat, c < L * (1 + m)
    PROVE  c \div L - 1 \in Int /\ -1 <= c \div L - 1 /\ c \div L - 1 < m
<1> DEFINE q == c \div L
<1> DEFINE r == c % L
<1>1. q \in Int /\ r \in Int /\ 0 <= r /\ c = L * q + r
  OBVIOUS
<1> HIDE DEF q, r
<1>2. q >= 0
  <2>1. SUFFICES ASSUME q < 0 PROVE FALSE
    BY <1>1
  <2>2. r < L
    BY DEF r
  <2>3. L * q <= L * (-1)
    BY <2>1, <1>1
  <2> QED BY <1>1, <2>2, <2>3
<1>3. q < 1 + m
  <2>1. SUFFICES ASSUME q >= 1 + m PROVE FALSE
    BY <1>1
  <2>2. L * q >= L * (1 + m)
    BY <2>1, <1>1
  <2> QED BY <1>1, <2>2
<1> QED BY <1>1, <1>2, <1>3 DEF q

\* Counting up by the letter undoes counting down.
LEMMA LetterReadBack ==
    ASSUME NEW L \in Nat \ {0}, NEW c \in Nat
    PROVE  (c \div L) * L + ((c % L) + 1) = c + 1
OBVIOUS

---------------------------------------------------------------------------
(***************************************************************************)
(* The steps.                                                              *)
(***************************************************************************)
LEMMA NONENotValid == ~IsValid(NONE)
BY DEF IsValid, NONE

\* What the library writes for the row of a valid position.
LEMMA RowNumeral ==
    ASSUME NEW p \in Int \X Int, IsValid(p)
    PROVE  LET row == Numeral(p[1] + 1)
           IN /\ row \in Seq(Character) /\ row \in Seq({"digit"} \X Nat)
              /\ Len(row) \in Nat \ {0} /\ Head(row) # Digit(0) /\ row[1] = Head(row)
              /\ \A k \in 1..Len(row) : IsDigit(row[k]) /\ ~IsAlpha(row[k])
              /\ Stoi(row) = p[1] + 1
<1> DEFINE row == Numeral(p[1] + 1)
<1>1. p[1] + 1 \in 1..MAX_ROWS
  BY BoundsAssumption DEF IsValid
<1>2. /\ row \in Seq({"digit"} \X Nat) /\ row # <<>>
      /\ Head(row) # Digit(0) /\ Stoi(row) = p[1] + 1
  BY <1>1, NumeralAssumption
<1> HIDE DEF row
<1>3. \A k \in 1..Len(row) : row[k] \in {"digit"} \X Nat
  BY <1>2
<1>4. row \in Seq(Character)
  <2>1. {"digit"} \X Nat \subseteq Character
    BY DEF Character
  <2> QED BY <2>1, <1>2
<1>5. \A k \in 1..Len(row) : IsDigit(row[k]) /\ ~IsAlpha(row[k])
  BY <1>3 DEF IsDigit, IsAlpha
<1>6. Len(row) \in Nat \ {0} /\ row[1] = Head(row)
  BY <1>2
<1> QED BY <1>2, <1>4, <1>5, <1>6 DEF row

\* The invariant holds before the first character is written.
LEMMA InitHolds == TextInit => RoundTripInv
<1> SUFFICES ASSUME TextInit PROVE RoundTripInv
  OBVIOUS
<1>1. CASE at = "ToString" /\ pos \in ArgPos /\ text = <<>>
  <2>1. CASE IsValid(pos)
    <3>1. trail = <<>> /\ read = 0 /\ pos \in Int \X Int
      BY <1>1, ArgAssumption DEF TextInit
    <3> QED BY <1>1, <2>1, <3>1 DEF RoundTripInv, WritingInv, IsTrail
  <2>2. CASE ~IsValid(pos)
    BY <1>1, <2>2 DEF TextInit, RoundTripInv, NotWritingInv
  <2> QED BY <2>1, <2>2
<1>2. CASE at = "FromString" /\ pos = NONE /\ text \in ArgText
  BY <1>2, NONENotValid DEF RoundTripInv, NotWritingInv
<1> QED BY <1>1, <1>2 DEF TextInit

\* A position that has no text gets the empty one, which is too short to read.
LEMMA NotWritingKept == NotWritingInv /\ TextNext => NotWritingInv'
<1> SUFFICES ASSUME NotWritingInv, TextNext PROVE NotWritingInv'
  OBVIOUS
<1> USE DEF NotWritingInv
<1>0. pos' = pos /\ ~IsValid(pos)
  BY DEF TextNext, WriteNothing, WriteBegin, WriteLetter, WriteRow,
         RejectShape, Split, ReadLetter, ReadRow, Return
<1>1. CASE pos = NONE
  BY <1>0, <1>1 DEF IsValid
<1>2. CASE pos # NONE
  <2>1. CASE WriteNothing
    BY <1>0, <1>2, <2>1 DEF WriteNothing, IsValid
  <2>2. CASE RejectShape
    BY <1>0, <1>2, <2>2 DEF RejectShape, Return, IsValid
  <2>3. ~Split
    BY <1>2 DEF Split
  <2>4. ~(WriteBegin \/ WriteLetter \/ WriteRow \/ ReadLetter \/ ReadRow)
    BY <1>0, <1>2 DEF WriteBegin, WriteLetter, WriteRow, ReadLetter, ReadRow
  <2> QED BY <2>1, <2>2, <2>3, <2>4 DEF TextNext
<1> QED BY <1>1, <1>2

\* ToString begins with a valid position.
LEMMA WriteBeginKept == WritingInv /\ WriteBegin => WritingInv'
<1> SUFFICES ASSUME WritingInv, WriteBegin PROVE WritingInv'
  OBVIOUS
<1>1. /\ at' = "letters" /\ col' = pos[2] /\ trail' = <<>> /\ text' = <<>> /\ pos' = pos
      /\ read' = 0 /\ IsValid(pos) /\ pos \in Int \X Int
  BY DEF WritingInv, WriteBegin
<1>2. ColumnsLeft' = LETTERS * (1 + LETTERS * (1 + LETTERS))
  BY <1>1 DEF ColumnsLeft
<1>3. col' \in Int /\ -1 <= col' /\ col' < ColumnsLeft'
  <2>1. 0 <= col' /\ col' < MAX_COLS /\ col' \in Int
    BY <1>1 DEF IsValid
  <2>2. LETTERS * (1 + LETTERS * (1 + LETTERS)) \in Int
    BY LettersAssumption
  <2> QED BY <2>1, <2>2, <1>2, LettersAssumption, BoundsAssumption
<1>4. IsTrail'
  BY <1>1 DEF IsTrail
<1>5. LettersOf(text)'
  BY <1>1 DEF LettersOf
<1>6. IsValid(pos)' /\ text' \in Seq(Character) /\ Len(text') = Len(trail')
  BY <1>1 DEF IsValid
<1> QED BY <1>1, <1>3, <1>4, <1>5, <1>6 DEF WritingInv

\* A round of the loop of ToString: one more letter in front.
LEMMA WriteLetterKept == WritingInv /\ WriteLetter => WritingInv'
<1> SUFFICES ASSUME WritingInv, WriteLetter PROVE WritingInv'
  OBVIOUS
<1> DEFINE n == Len(trail)
<1>1. /\ at = "letters" /\ at' = "letters" /\ pos' = pos /\ read' = 0 /\ col \in Nat
      /\ col < ColumnsLeft
      /\ text' = <<Upper(col % LETTERS)>> \o text
      /\ col' = NextColumn(col)
      /\ trail' = Append(trail, col)
      /\ text \in Seq(Character) /\ Len(text) = n /\ LettersOf(text)
      /\ IsTrail /\ n \in Nat /\ trail \in Seq(Nat)
      /\ col = IF trail = <<>> THEN pos[2] ELSE NextColumn(trail[n])
  BY DEF WritingInv, WriteLetter, IsTrail
<1>2. /\ Len(trail') = n + 1 /\ trail' \in Seq(Nat) /\ trail' # <<>>
      /\ \A i \in 1..n : trail'[i] = trail[i]
      /\ trail'[n + 1] = col
  BY <1>1
<1>3. IsTrail'
  <2>1. trail'[1] = pos'[2]
    <3>1. CASE n = 0
      BY <1>1, <1>2, <3>1
    <3>2. CASE n # 0
      <4>1. trail # <<>> /\ 1 \in 1..n
        BY <1>1, <3>2
      <4> QED BY <4>1, <1>1, <1>2 DEF IsTrail
    <3> QED BY <3>1, <3>2
  <2>2. ASSUME NEW i \in 1..n PROVE trail'[i + 1] = NextColumn(trail'[i])
    <3>1. CASE i = n
      <4>1. trail # <<>>
        BY <1>1, <3>1
      <4> QED BY <4>1, <3>1, <1>1, <1>2
    <3>2. CASE i # n
      <4>1. i \in 1..n-1 /\ i + 1 \in 1..n
        BY <1>1, <3>2
      <4> QED BY <4>1, <1>1, <1>2 DEF IsTrail
    <3> QED BY <3>1, <3>2
  <2>3. \A i \in 1..Len(trail')-1 : trail'[i+1] = NextColumn(trail'[i])
    BY <2>2, <1>1, <1>2
  <2> QED BY <1>2, <2>1, <2>3 DEF IsTrail, NextColumn
<1>4. /\ text' \in Seq(Character) /\ Len(text') = n + 1
      /\ text'[1] = Upper(col % LETTERS)
      /\ \A j \in 2..n+1 : text'[j] = text[j - 1]
  <2>1. Upper(col % LETTERS) \in Character
    BY <1>1, LettersAssumption DEF Upper, Character
  <2> HIDE DEF n
  <2>2. <<Upper(col % LETTERS)>> \in Seq(Character)
    BY <2>1
  <2> QED BY <1>1, <2>2
<1>5. LettersOf(text)'
  <2> SUFFICES ASSUME NEW j \in 1..n+1
               PROVE  text'[j] = Upper(trail'[n + 2 - j] % LETTERS)
    BY <1>1, <1>2 DEF LettersOf
  <2>1. CASE j = 1
    BY <2>1, <1>1, <1>2, <1>4
  <2>2. CASE j # 1
    <3>1. j \in 2..n+1 /\ j - 1 \in 1..n /\ n + 1 - (j - 1) = n + 2 - j /\ n + 2 - j \in 1..n
      BY <2>2, <1>1
    <3>2. text'[j] = text[j - 1]
      BY <3>1, <1>4
    <3>3. text[j - 1] = Upper(trail[n + 1 - (j - 1)] % LETTERS)
      BY <3>1, <1>1 DEF LettersOf
    <3>4. trail'[n + 2 - j] = trail[n + 2 - j]
      BY <3>1, <1>2
    <3> QED BY <3>1, <3>2, <3>3, <3>4
  <2> QED BY <2>1, <2>2
<1>6. n \in {0, 1, 2}
  <2>1. SUFFICES ASSUME n \notin {0, 1, 2} PROVE FALSE
    OBVIOUS
  <2>2. ColumnsLeft = 0
    BY <2>1 DEF ColumnsLeft
  <2> QED BY <2>2, <1>1
<1>7. col' \in Int /\ -1 <= col' /\ col' < ColumnsLeft'
  <2> USE LettersAssumption DEF NextColumn
  <2>1. CASE n = 0
    <3>1. col < LETTERS * (1 + LETTERS * (1 + LETTERS))
      BY <1>1, <2>1 DEF ColumnsLeft
    <3>2. ColumnsLeft' = LETTERS * (1 + LETTERS)
      BY <1>2, <2>1 DEF ColumnsLeft
    <3>3. LETTERS * (1 + LETTERS) \in Nat
      OBVIOUS
    <3> QED BY <1>1, <3>1, <3>2, <3>3, NextColumnBound
  <2>2. CASE n = 1
    <3>1. col < LETTERS * (1 + LETTERS)
      BY <1>1, <2>2 DEF ColumnsLeft
    <3>2. ColumnsLeft' = LETTERS
      BY <1>2, <2>2 DEF ColumnsLeft
    <3> QED BY <1>1, <3>1, <3>2, NextColumnBound
  <2>3. CASE n = 2
    <3>1. col < LETTERS * (1 + 0)
      BY <1>1, <2>3 DEF ColumnsLeft
    <3>2. ColumnsLeft' = 0
      BY <1>2, <2>3 DEF ColumnsLeft
    <3> QED BY <1>1, <3>1, <3>2, NextColumnBound
  <2> QED BY <2>1, <2>2, <2>3, <1>6
<1>8. col' = IF trail' = <<>> THEN pos'[2] ELSE NextColumn(trail'[Len(trail')])
  BY <1>1, <1>2
<1>9. IsValid(pos)' /\ pos' \in Int \X Int /\ Len(text') = Len(trail')
  BY <1>1, <1>2, <1>4 DEF WritingInv, IsValid
<1>10. Len(trail') <= 3
  BY <1>2, <1>6
<1> QED BY <1>1, <1>3, <1>4, <1>5, <1>7, <1>8, <1>9, <1>10 DEF WritingInv

\* ToString appends the row.
LEMMA WriteRowKept == WritingInv /\ WriteRow => WritingInv'
<1> SUFFICES ASSUME WritingInv, WriteRow PROVE WritingInv'
  OBVIOUS
<1> DEFINE n == Len(trail)
<1> DEFINE row == Numeral(pos[1] + 1)
<1>1. /\ at = "letters" /\ at' = "FromString" /\ pos' = pos /\ read' = 0 /\ trail' = trail
      /\ text' = text \o row
      /\ text \in Seq(Character) /\ Len(text) = n /\ LettersOf(text) /\ n \in Nat
      /\ col \in Int /\ -1 <= col /\ col < 0
      /\ col = IF trail = <<>> THEN pos[2] ELSE NextColumn(trail[n])
      /\ IsTrail /\ trail \in Seq(Nat) /\ IsValid(pos) /\ pos \in Int \X Int
  BY DEF WritingInv, WriteRow, IsTrail
<1>2. row \in Seq(Character)
  BY <1>1, RowNumeral
<1>3. trail # <<>> /\ n >= 1 /\ NextColumn(trail[n]) = -1
  <2>1. trail # <<>>
    BY <1>1 DEF IsValid
  <2>2. n >= 1
    BY <2>1, <1>1
  <2>3. NextColumn(trail[n]) = -1
    BY <2>1, <1>1
  <2> QED BY <2>1, <2>2, <2>3
<1>4. n \in 1..3
  <2>1. n <= 3
    BY <1>1 DEF WritingInv
  <2>2. n \in Nat /\ n >= 1
    BY <1>1, <1>3
  <2> HIDE DEF n
  <2> QED BY ONLY <2>1, <2>2
<1> HIDE DEF row, n
<1>5. /\ text' \in Seq(Character) /\ Len(text') = n + Len(row)
      /\ \A j \in 1..n : text'[j] = text[j]
      /\ \A k \in 1..Len(row) : text'[n + k] = row[k]
  <2>1. text \in Seq(Character) /\ Len(text) = n /\ text' = text \o row
    BY <1>1
  <2>2. /\ text' \in Seq(Character) /\ Len(text') = n + Len(row)
        /\ \A i \in 1..n + Len(row) : text'[i] = IF i <= n THEN text[i] ELSE row[i - n]
    BY <2>1, <1>2, ConcatProperties
  <2>3. n \in Nat /\ Len(row) \in Nat
    BY <1>1, <1>2
  <2>4. ASSUME NEW j \in 1..n PROVE text'[j] = text[j]
    BY <2>2, <2>3
  <2>5. ASSUME NEW k \in 1..Len(row) PROVE text'[n + k] = row[k]
    <3>1. n + k \in 1..n + Len(row) /\ ~(n + k <= n) /\ (n + k) - n = k
      BY <2>3
    <3> QED BY <3>1, <2>2
  <2> QED BY <2>2, <2>4, <2>5
<1>6. LettersOf(text)'
  BY <1>1, <1>5 DEF LettersOf, n
<1>7. Written'
  BY <1>1, <1>3, <1>4, <1>5, <1>6 DEF Written, NextColumn, row, n
<1>8. IsTrail' /\ IsValid(pos)' /\ pos' \in Int \X Int
  BY <1>1 DEF IsTrail, IsValid, NextColumn
<1> QED BY <1>1, <1>7, <1>8 DEF WritingInv

\* The letters of a complete text end where trail does.
LEMMA ColumnEnd ==
    ASSUME Written, IsTrail, IsValid(pos), pos \in Int \X Int
    PROVE  /\ Len(text) >= 2
           /\ Len(trail) \in 1..Len(text)-1
           /\ \A n \in 0..Len(text) : IsColEnd(n) <=> n = Len(trail)
<1> DEFINE row == Numeral(pos[1] + 1)
<1>1. /\ Len(row) \in Nat \ {0}
      /\ \A k \in 1..Len(row) : ~IsAlpha(row[k])
  BY RowNumeral
<1>2. /\ Len(trail) \in 1..3 /\ Len(text) = Len(trail) + Len(row)
      /\ \A k \in 1..Len(row) : text[Len(trail) + k] = row[k]
      /\ LettersOf(text)
  BY DEF Written
<1> HIDE DEF row
<1>3. \A j \in 1..Len(trail) : IsAlpha(text[j])
  BY <1>2 DEF LettersOf, Upper, IsAlpha
<1>4. ~IsAlpha(text[Len(trail) + 1])
  <2>1. 1 \in 1..Len(row)
    BY <1>1
  <2> QED BY <2>1, <1>1, <1>2
<1>5. ASSUME NEW n \in 0..Len(text), IsColEnd(n) PROVE n = Len(trail)
  <2>1. ~(n < Len(trail))
    <3>1. SUFFICES ASSUME n < Len(trail) PROVE FALSE
      OBVIOUS
    <3>2. n < Len(text) /\ n + 1 \in 1..Len(trail)
      BY <3>1, <1>1, <1>2
    <3> QED BY <3>2, <1>3, <1>5 DEF IsColEnd
  <2>2. ~(n > Len(trail))
    <3>1. SUFFICES ASSUME n > Len(trail) PROVE FALSE
      OBVIOUS
    <3>2. Len(trail) + 1 \in 1..n
      BY <3>1, <1>2
    <3> QED BY <3>2, <1>4, <1>5 DEF IsColEnd
  <2> QED BY <2>1, <2>2, <1>2
<1>6. IsColEnd(Len(trail))
  BY <1>3, <1>4 DEF IsColEnd
<1>7. Len(text) >= 2 /\ Len(trail) \in 1..Len(text)-1 /\ Len(trail) \in 0..Len(text)
  <2> DEFINE n == Len(trail)
  <2> DEFINE m == Len(row)
  <2>1. n \in 1..3 /\ m \in Nat \ {0} /\ Len(text) = n + m
    BY <1>1, <1>2
  <2> HIDE DEF n, m
  <2>2. n + m >= 2 /\ n \in 1..(n + m)-1 /\ n \in 0..(n + m)
    BY <2>1
  <2> QED BY <2>1, <2>2 DEF n
<1>8. ASSUME NEW n \in 0..Len(text) PROVE IsColEnd(n) <=> n = Len(trail)
  BY <1>5, <1>6
<1> QED BY <1>7, <1>8

\* FromString finds where the letters end: where ToString ended them.
LEMMA SplitKept == WritingInv /\ Split => WritingInv'
<1> SUFFICES ASSUME WritingInv, Split PROVE WritingInv'
  OBVIOUS
<1>1. /\ at = "FromString" /\ at' = "columns" /\ pos' = pos /\ text' = text /\ trail' = trail
      /\ col' = 0 /\ read' = 0 /\ IsTrail /\ Written /\ IsValid(pos) /\ pos \in Int \X Int
  BY DEF WritingInv, Split
<1>2. split' = Len(trail)
  <2>1. PICK n \in 1..Len(text)-1 : IsColEnd(n) /\ split' = n
    BY DEF Split
  <2>2. n \in 0..Len(text)
    BY <1>1 DEF Written
  <2> QED BY <2>1, <2>2, <1>1, ColumnEnd
<1>3. Len(trail) \in 1..3
  BY <1>1 DEF Written
<1>4. Written' /\ IsTrail' /\ IsValid(pos)' /\ pos' \in Int \X Int
  BY <1>1 DEF Written, IsTrail, IsValid, LettersOf, NextColumn
<1> QED BY <1>1, <1>2, <1>3, <1>4 DEF WritingInv

\* A round of the loop of FromString: it undoes a round of ToString.
LEMMA ReadLetterKept == WritingInv /\ ReadLetter => WritingInv'
<1> SUFFICES ASSUME WritingInv, ReadLetter PROVE WritingInv'
  OBVIOUS
<1> DEFINE n == Len(trail)
<1>1. /\ at = "columns" /\ pos' = pos /\ text' = text /\ trail' = trail /\ split' = split
      /\ IsTrail /\ Written /\ IsValid(pos) /\ pos \in Int \X Int
      /\ split = n /\ read \in 0..n /\ read < n
      /\ col = IF read = 0 THEN 0 ELSE trail[n + 1 - read] + 1
      /\ n \in 1..3 /\ trail \in Seq(Nat) /\ NextColumn(trail[n]) = -1 /\ LettersOf(text)
      /\ \A i \in 1..n-1 : trail[i + 1] = NextColumn(trail[i])
  BY DEF WritingInv, ReadLetter, Return, Written, IsTrail
<1> HIDE DEF n
<1>2. n - read \in 1..n /\ trail[n - read] \in Nat
  <2>1. n - read \in 1..Len(trail)
    BY <1>1 DEF n
  <2> QED BY <2>1, <1>1, ElementOfSeq DEF n
<1>3. text[read + 1] = Upper(trail[n - read] % LETTERS)
  <2>1. read + 1 \in 1..n /\ n + 1 - (read + 1) = n - read
    BY <1>1
  <2> QED BY <2>1, <1>1 DEF LettersOf, n
<1>4. /\ col' = ColumnWith(text[read + 1])
      /\ read' = read + 1
      /\ at' = "columns"
  BY <1>1, <1>3 DEF ReadLetter, Upper
<1>5. col = NextColumn(trail[n - read]) + 1
  <2>1. CASE read = 0
    <3>1. col = 0 /\ n - read = n
      BY <2>1, <1>1
    <3> QED BY <3>1, <1>1
  <2>2. CASE read # 0
    <3>1. n - read \in 1..n-1 /\ (n - read) + 1 = n + 1 - read
      BY <2>2, <1>1
    <3> QED BY <2>2, <3>1, <1>1
  <2> QED BY <2>1, <2>2
<1>6. col' = trail[n - read] + 1
  <2> DEFINE c == trail[n - read]
  <2>1. col = c \div LETTERS /\ c \in Nat
    BY <1>2, <1>5, LettersAssumption DEF NextColumn
  <2>2. col' = (c \div LETTERS) * LETTERS + ((c % LETTERS) + 1)
    BY <1>3, <1>4, <2>1 DEF ColumnWith, Upper
  <2> QED BY <2>1, <2>2, LetterReadBack, LettersAssumption
<1>7. /\ read' \in 0..split'
      /\ col' = IF read' = 0 THEN 0 ELSE trail'[Len(trail') + 1 - read'] + 1
  <2>1. n + 1 - read' = n - read
    BY <1>1, <1>4
  <2>2. read' \in 0..split' /\ read' # 0
    BY <1>1, <1>4
  <2> QED BY <2>1, <2>2, <1>1, <1>6 DEF n
<1>8. Written' /\ IsTrail' /\ IsValid(pos)' /\ pos' \in Int \X Int
  BY <1>1 DEF Written, IsTrail, IsValid, LettersOf, NextColumn
<1> QED BY <1>1, <1>4, <1>7, <1>8 DEF WritingInv, n

\* FromString reads the row it was given.
LEMMA ReadRowKept == WritingInv /\ ReadRow => WritingInv'
<1> SUFFICES ASSUME WritingInv, ReadRow PROVE WritingInv'
  OBVIOUS
<1> DEFINE n == Len(trail)
<1> DEFINE row == Numeral(pos[1] + 1)
<1> DEFINE digits == SubSeq(text, split + 1, Len(text))
<1>1. /\ at = "columns" /\ at' = "returned" /\ pos' = pos /\ text' = text /\ trail' = trail
      /\ IsTrail /\ Written /\ IsValid(pos) /\ pos \in Int \X Int
      /\ split = n /\ read = n /\ n \in 1..3
      /\ col = trail[1] + 1 /\ trail[1] = pos[2]
  <2>1. /\ IsTrail /\ Written /\ split = n /\ read = n /\ n \in 1..3 /\ trail \in Seq(Nat)
    BY DEF WritingInv, ReadRow, Written, IsTrail
  <2>2. trail # <<>> /\ read # 0 /\ n + 1 - read = 1
    BY <2>1
  <2>3. col = trail[1] + 1
    BY <2>1, <2>2 DEF WritingInv, ReadRow
  <2>4. trail[1] = pos[2]
    BY <2>1, <2>2 DEF IsTrail
  <2> QED BY <2>1, <2>3, <2>4 DEF WritingInv, ReadRow, Return
<1>2. /\ row \in Seq(Character) /\ Len(row) \in Nat \ {0} /\ Head(row) # Digit(0) /\ row[1] = Head(row)
      /\ \A k \in 1..Len(row) : IsDigit(row[k])
      /\ Stoi(row) = pos[1] + 1
  BY <1>1, RowNumeral
<1> HIDE DEF row
<1>3. digits = row
  <2>1. /\ text \in Seq(Character) /\ Len(text) = n + Len(row)
        /\ \A k \in 1..Len(row) : text[n + k] = row[k]
    BY <1>1 DEF Written, row
  <2> HIDE DEF n
  <2>2. digits \in Seq(Character) /\ Len(digits) = Len(row)
    BY <1>1, <1>2, <2>1
  <2>3. ASSUME NEW k \in 1..Len(row) PROVE digits[k] = row[k]
    <3>1. digits[k] = text[n + k]
      BY <1>1, <1>2, <2>1
    <3> QED BY <3>1, <2>1
  <2> HIDE DEF digits
  <2>4. \A k \in 1..Len(digits) : digits[k] = row[k]
    BY <2>2, <2>3
  <2> QED BY <2>2, <2>4, <1>2, SeqEqual
<1> HIDE DEF digits
<1>4. IsRow(digits)
  <2>1. pos[1] \in 0..MAX_ROWS-1 /\ pos[1] + 1 <= MaxInt
    BY <1>1, LettersAssumption, BoundsAssumption DEF IsValid
  <2>2. Stoi(digits) = pos[1] + 1
    BY <1>2, <1>3
  <2>3. Stoi(digits) <= MaxInt /\ Stoi(digits) - 1 \in 0..MAX_ROWS-1
    BY <2>1, <2>2, <1>1
  <2> QED BY <2>3, <1>2, <1>3 DEF IsRow
<1>5. parsed' = pos
  <2>1. parsed' = IF col - 1 < MAX_COLS /\ IsRow(digits)
                  THEN <<Stoi(digits) - 1, col - 1>> ELSE NONE
    BY DEF ReadRow, Return, digits
  <2>2. col - 1 = pos[2] /\ Stoi(digits) - 1 = pos[1] /\ pos[2] < MAX_COLS
    <3>1. Stoi(digits) = pos[1] + 1
      BY <1>2, <1>3
    <3>2. pos[1] \in Int /\ pos[2] \in Int /\ pos[2] < MAX_COLS
      BY <1>1 DEF IsValid
    <3>3. col - 1 = pos[2]
      BY <1>1
    <3> QED BY ONLY <3>1, <3>2, <3>3
  <2> QED BY <2>1, <2>2, <1>1, <1>4
<1>6. IsTrail' /\ IsValid(pos)' /\ pos' \in Int \X Int
  BY <1>1 DEF IsTrail, IsValid, NextColumn
<1> QED BY <1>1, <1>5, <1>6 DEF WritingInv

LEMMA RoundTripStep == RoundTripInv /\ [TextNext]_vars => RoundTripInv'
<1> SUFFICES ASSUME RoundTripInv, [TextNext]_vars PROVE RoundTripInv'
  OBVIOUS
<1>1. CASE NotWritingInv /\ TextNext
  BY <1>1, NotWritingKept DEF RoundTripInv
<1>2. CASE WritingInv /\ TextNext
  <2>1. ~WriteNothing
    BY <1>2 DEF WritingInv, WriteNothing
  <2>2. ~RejectShape
    <3>1. SUFFICES ASSUME RejectShape PROVE FALSE
      OBVIOUS
    <3>2. /\ Len(text) >= 2 /\ Len(trail) \in 1..Len(text)-1 /\ Len(trail) \in 1..3
          /\ \A n \in 0..Len(text) : IsColEnd(n) <=> n = Len(trail)
      BY <1>2, <3>1, ColumnEnd DEF WritingInv, RejectShape, Written
    <3>3. PICK n \in 0..Len(text) : IsColEnd(n) /\ (n \in {0, Len(text)} \/ n > 3)
      BY <3>1, <3>2 DEF RejectShape
    <3>4. n = Len(trail)
      BY <3>2, <3>3
    <3>5. Len(text) \in Int
      BY <1>2, <3>1 DEF WritingInv, RejectShape, Written
    <3> QED BY <3>2, <3>3, <3>4, <3>5
  <2> QED BY <1>2, <2>1, <2>2, WriteBeginKept, WriteLetterKept, WriteRowKept, SplitKept,
            ReadLetterKept, ReadRowKept DEF TextNext, RoundTripInv
<1>3. CASE UNCHANGED vars
  <2>1. WritingInv => WritingInv'
    BY <1>3 DEF vars, WritingInv, IsTrail, LettersOf, ColumnsLeft, Written, IsValid,
                NextColumn
  <2>2. NotWritingInv => NotWritingInv'
    BY <1>3 DEF vars, NotWritingInv, IsValid
  <2> QED BY <2>1, <2>2 DEF RoundTripInv
<1> QED BY <1>1, <1>2, <1>3 DEF RoundTripInv

\* A position that is written is read back the same; what is not valid is not
\* written, and nothing comes of it.
THEOREM RoundTripAlways == TextSpec => []RoundTrip
<1>1. RoundTripInv => RoundTrip
  BY NONENotValid DEF RoundTripInv, WritingInv, NotWritingInv, RoundTrip
<1> QED BY InitHolds, RoundTripStep, <1>1, PTL DEF TextSpec
---------------------------------------------------------------------------
(***************************************************************************)
(* The names of the columns.                                               *)
(***************************************************************************)
Letter == 0..LETTERS-1

\* The number of a name, as FromString counts it.
Number(w) == CASE Len(w) = 1 -> w[1]
               [] Len(w) = 2 -> (w[1] + 1) * LETTERS + w[2]
               [] Len(w) = 3 -> ((w[1] + 1) * LETTERS + w[2] + 1) * LETTERS + w[3]

\* How many names there are.
Names == LETTERS * (1 + LETTERS * (1 + LETTERS))

LEMMA NameType ==
    ASSUME NEW w \in ColumnName
    PROVE  /\ w \in Seq(Letter) /\ Len(w) \in 1..3
           /\ DOMAIN w = 1..Len(w) /\ \A i \in 1..Len(w) : w[i] \in Letter
<1>1. PICK m \in 0..3 : w \in [1..m -> Letter]
      BY DEF ColumnName, BoundedSeq, SeqOf, Letter
<1>2. w \in Seq(Letter) /\ Len(w) = m /\ DOMAIN w = 1..m
      BY <1>1
<1>3. w # <<>>
      BY DEF ColumnName
<1>4. m # 0
      BY <1>2, <1>3, EmptySeq
<1>. QED BY <1>1, <1>2, <1>4

LEMMA NameOfLetters ==
    ASSUME NEW n \in 1..3, NEW w \in [1..n -> Letter]
    PROVE  w \in ColumnName /\ Len(w) = n
<1>1. w \in Seq(Letter) /\ Len(w) = n
      OBVIOUS
<1>2. w # <<>>
      BY <1>1, EmptySeq
<1>3. n \in 0..3
      OBVIOUS
<1>. QED BY <1>1, <1>2, <1>3 DEF ColumnName, BoundedSeq, SeqOf, Letter

LEMMA LettersIsNatural == LETTERS \in Nat /\ LETTERS > 0
BY LettersAssumption

\* One more letter keeps the order, whatever it is.
LEMMA EarlierNumber ==
    ASSUME NEW a \in Int, NEW b \in Int, a < b, NEW x \in Letter, NEW y \in Letter
    PROVE  a * LETTERS + x < b * LETTERS + y
<1>. DEFINE L == LETTERS
<1>1. L \in Nat /\ x \in Int /\ y \in Int /\ x < L /\ 0 <= y
      BY LettersIsNatural DEF Letter
<1>. HIDE DEF L
<1>2. (b - a - 1) * L >= 0
      BY <1>1
<1>3. (b - a - 1) * L = b * L - a * L - L
      BY <1>1
<1>4. a * L \in Int /\ b * L \in Int
      BY <1>1
<1>5. a * L + x < b * L + y
      BY <1>1, <1>2, <1>3, <1>4
<1>. QED BY <1>5 DEF L

\* It is a number, too.
LEMMA NumberIsInt ==
    ASSUME NEW a \in Int, NEW x \in Letter
    PROVE  a * LETTERS + x \in Int
<1>1. LETTERS \in Int /\ x \in Int
      BY LettersIsNatural DEF Letter
<1>. QED BY ONLY <1>1

\* The same number in front, and a smaller letter.
LEMMA SmallerLetter ==
    ASSUME NEW a \in Int, NEW x \in Letter, NEW y \in Letter, x < y
    PROVE  a * LETTERS + x < a * LETTERS + y
<1>. DEFINE k == a * LETTERS
<1>1. LETTERS \in Int /\ x \in Int /\ y \in Int
      BY LettersIsNatural DEF Letter
<1>2. k \in Int
      BY ONLY <1>1
<1>. HIDE DEF k
<1>3. k + x < k + y
      BY <1>1, <1>2
<1>. QED BY <1>3 DEF k

LEMMA NumberType ==
    ASSUME NEW w \in ColumnName
    PROVE  Number(w) \in Nat
<1>1. Len(w) \in {1, 2, 3} /\ \A i \in 1..Len(w) : w[i] \in Letter
      BY NameType
<1>2. \A i \in 1..Len(w) : w[i] \in Nat
      BY <1>1 DEF Letter
<1>3. LETTERS \in Nat
      BY LettersIsNatural
<1>4. CASE Len(w) = 1
      BY <1>2, <1>4 DEF Number
<1>5. CASE Len(w) = 2
      <2>1. w[1] \in Nat /\ w[2] \in Nat
            BY <1>2, <1>5
      <2>2. (w[1] + 1) * LETTERS + w[2] \in Nat
            BY <1>3, <2>1
      <2>. QED BY <1>5, <2>2 DEF Number
<1>6. CASE Len(w) = 3
      <2>1. w[1] \in Nat /\ w[2] \in Nat /\ w[3] \in Nat
            BY <1>2, <1>6
      <2>2. (w[1] + 1) * LETTERS + w[2] + 1 \in Nat
            BY <1>3, <2>1
      <2>3. ((w[1] + 1) * LETTERS + w[2] + 1) * LETTERS + w[3] \in Nat
            BY <1>3, <2>1, <2>2
      <2>. QED BY <1>6, <2>3 DEF Number
<1>. QED BY <1>1, <1>4, <1>5, <1>6

\* Shorter names have smaller numbers.
LEMMA ShorterIsEarlier ==
    ASSUME NEW v \in ColumnName, NEW w \in ColumnName, Len(v) < Len(w)
    PROVE  Number(v) < Number(w)
<1>1. /\ Len(v) \in 1..3 /\ \A i \in 1..Len(v) : v[i] \in Letter
      /\ Len(w) \in 1..3 /\ \A i \in 1..Len(w) : w[i] \in Letter
      BY NameType
<1>2. \A x \in Letter : x \in Nat /\ x < LETTERS
      BY LettersIsNatural DEF Letter
<1>3. LETTERS \in Nat /\ LETTERS > 0
      BY LettersIsNatural
<1>4. CASE Len(v) = 1 /\ Len(w) = 2
      <2>1. v[1] \in Letter /\ w[1] \in Letter /\ w[2] \in Letter
            BY <1>1, <1>4
      <2>2. 0 * LETTERS + v[1] < (w[1] + 1) * LETTERS + w[2]
            BY <1>2, <2>1, EarlierNumber
      <2>. QED BY <1>2, <1>3, <1>4, <2>1, <2>2 DEF Number
<1>5. CASE Len(v) = 1 /\ Len(w) = 3
      <2>1. v[1] \in Letter /\ w[1] \in Letter /\ w[2] \in Letter /\ w[3] \in Letter
            BY <1>1, <1>5
      <2>. DEFINE b == (w[1] + 1) * LETTERS + w[2] + 1
      <2>2. b \in Int /\ 0 < b
            <3>. DEFINE c == (w[1] + 1) * LETTERS
            <3>1. w[1] + 1 \in Nat /\ w[2] \in Nat /\ LETTERS \in Nat
                  BY <1>2, <1>3, <2>1
            <3>2. c \in Nat
                  BY ONLY <3>1
            <3>. HIDE DEF c
            <3>. QED BY ONLY <3>1, <3>2 DEF b, c
      <2>. HIDE DEF b
      <2>3. 0 * LETTERS + v[1] < b * LETTERS + w[3]
            BY <2>1, <2>2, EarlierNumber
      <2>4. v[1] < b * LETTERS + w[3]
            BY <1>2, <1>3, <2>1, <2>3
      <2>. QED BY <1>5, <2>4 DEF Number, b
<1>6. CASE Len(v) = 2 /\ Len(w) = 3
      <2>1. v[1] \in Letter /\ v[2] \in Letter /\ w[1] \in Letter /\ w[2] \in Letter /\ w[3] \in Letter
            BY <1>1, <1>6
      <2>. DEFINE a == v[1] + 1
                  b == (w[1] + 1) * LETTERS + w[2] + 1
      <2>2. 0 * LETTERS + v[1] < (w[1] + 1) * LETTERS + w[2]
            BY <1>2, <2>1, EarlierNumber
      <2>3. a \in Int /\ b \in Int /\ a < b
            <3>. DEFINE c == (w[1] + 1) * LETTERS
            <3>1. c \in Int /\ v[1] \in Int /\ w[2] \in Int
                  BY <1>2, <1>3, <2>1
            <3>2. 0 * LETTERS = 0 /\ b = c + w[2] + 1
                  BY <1>3
            <3>3. 0 * LETTERS + v[1] < c + w[2]
                  BY <2>2
            <3>. HIDE DEF c, b
            <3>. QED BY ONLY <3>1, <3>2, <3>3 DEF a
      <2>. HIDE DEF a, b
      <2>4. a * LETTERS + v[2] < b * LETTERS + w[3]
            BY <2>1, <2>3, EarlierNumber
      <2>. QED BY <1>6, <2>4 DEF Number, a, b
<1>7. \/ Len(v) = 1 /\ Len(w) = 2
      \/ Len(v) = 1 /\ Len(w) = 3
      \/ Len(v) = 2 /\ Len(w) = 3
      <2>. DEFINE m == Len(v)
                  n == Len(w)
      <2>1. m \in 1..3 /\ n \in 1..3 /\ m < n
            BY <1>1
      <2>. HIDE DEF m, n
      <2>2. (m = 1 /\ n = 2) \/ (m = 1 /\ n = 3) \/ (m = 2 /\ n = 3)
            BY <2>1
      <2>. QED BY <2>2 DEF m, n
<1>. QED BY <1>4, <1>5, <1>6, <1>7

\* Of names of one length, the first letter in which they differ decides.
LEMMA SmallerLetterIsEarlier ==
    ASSUME NEW v \in ColumnName, NEW w \in ColumnName, Len(v) = Len(w),
           NEW i \in 1..Len(v), v[i] < w[i], \A j \in 1..i-1 : v[j] = w[j]
    PROVE  Number(v) < Number(w)
<1>1. /\ Len(v) \in {1, 2, 3} /\ Len(w) = Len(v)
      /\ \A k \in 1..Len(v) : v[k] \in Letter /\ w[k] \in Letter
      BY NameType
<1>2. \A x \in Letter : x \in Nat /\ x < LETTERS
      BY LettersIsNatural DEF Letter
<1>3. LETTERS \in Nat /\ LETTERS > 0
      BY LettersIsNatural
<1>4. CASE Len(v) = 1
      <2>1. i = 1
            BY <1>4
      <2>. QED BY <1>1, <1>4, <2>1 DEF Number
<1>5. CASE Len(v) = 2
      <2>1. v[1] \in Letter /\ v[2] \in Letter /\ w[1] \in Letter /\ w[2] \in Letter
            BY <1>1, <1>5
      <2>2. v[1] < w[1] \/ (v[1] = w[1] /\ v[2] < w[2])
            <3>1. i = 1 \/ (i = 2 /\ 1 \in 1..i-1)
                  BY <1>5
            <3>. QED BY <3>1
      <2>3. (v[1] + 1) * LETTERS + v[2] < (w[1] + 1) * LETTERS + w[2]
            <3>1. CASE v[1] < w[1]
                  BY <1>2, <2>1, <3>1, EarlierNumber
            <3>2. CASE v[1] = w[1] /\ v[2] < w[2]
                  BY <1>2, <1>3, <2>1, <3>2
            <3>. QED BY <2>2, <3>1, <3>2
      <2>. QED BY <1>1, <1>5, <2>3 DEF Number
<1>6. CASE Len(v) = 3
      <2>1. /\ v[1] \in Letter /\ v[2] \in Letter /\ v[3] \in Letter
            /\ w[1] \in Letter /\ w[2] \in Letter /\ w[3] \in Letter
            BY <1>1, <1>6
      <2>2. \/ v[1] < w[1]
            \/ v[1] = w[1] /\ v[2] < w[2]
            \/ v[1] = w[1] /\ v[2] = w[2] /\ v[3] < w[3]
            <3>1. i = 1 \/ (i = 2 /\ 1 \in 1..i-1) \/ (i = 3 /\ 1 \in 1..i-1 /\ 2 \in 1..i-1)
                  BY <1>6
            <3>. QED BY <3>1
      <2>3. v[1] + 1 \in Int /\ w[1] + 1 \in Int /\ v[1] \in Int /\ w[1] \in Int
            BY <1>2, <2>1
      <2>. DEFINE c == (v[1] + 1) * LETTERS + v[2]
                  d == (w[1] + 1) * LETTERS + w[2]
                  a == c + 1
                  b == d + 1
      <2>4. c \in Int /\ d \in Int
            BY ONLY <2>1, <2>3, NumberIsInt
      <2>5. c < d \/ (c = d /\ v[3] < w[3])
            <3>1. CASE v[1] < w[1]
                  <4>1. v[1] + 1 < w[1] + 1
                        BY ONLY <2>3, <3>1
                  <4>. QED BY ONLY <2>1, <2>3, <4>1, EarlierNumber
            <3>2. CASE v[1] = w[1] /\ v[2] < w[2]
                  BY ONLY <2>1, <2>3, <3>2, SmallerLetter
            <3>3. CASE v[1] = w[1] /\ v[2] = w[2] /\ v[3] < w[3]
                  BY ONLY <3>3
            <3>. QED BY <2>2, <3>1, <3>2, <3>3
      <2>. HIDE DEF c, d
      <2>6. a \in Int /\ b \in Int /\ (a < b \/ (a = b /\ v[3] < w[3]))
            BY ONLY <2>4, <2>5
      <2>. HIDE DEF a, b
      <2>7. a * LETTERS + v[3] < b * LETTERS + w[3]
            BY ONLY <2>1, <2>6, EarlierNumber, SmallerLetter
      <2>. USE DEF c, d
      <2>. QED BY <1>1, <1>6, <2>7 DEF Number, a, b
<1>. QED BY <1>1, <1>4, <1>5, <1>6

\* Two names have different numbers.
LEMMA NamesAreOrdered ==
    ASSUME NEW v \in ColumnName, NEW w \in ColumnName, v # w
    PROVE  NamedBefore(v, w) \/ NamedBefore(w, v)
<1>1. /\ v \in Seq(Letter) /\ Len(v) \in {1, 2, 3} /\ DOMAIN v = 1..Len(v)
      /\ \A i \in 1..Len(v) : v[i] \in Int
      BY NameType DEF Letter
<1>2. /\ w \in Seq(Letter) /\ Len(w) \in {1, 2, 3} /\ DOMAIN w = 1..Len(w)
      /\ \A i \in 1..Len(w) : w[i] \in Int
      BY NameType DEF Letter
<1>3. CASE Len(v) # Len(w)
      <2>. DEFINE m == Len(v)
                  n == Len(w)
      <2>1. m \in {1, 2, 3} /\ n \in {1, 2, 3} /\ m # n
            BY <1>1, <1>2, <1>3
      <2>2. m < n \/ n < m
            <3>. HIDE DEF m, n
            <3>. QED BY <2>1
      <2>. QED BY <2>2 DEF NamedBefore
<1>4. CASE Len(v) = Len(w)
      <2>1. PICK k \in 1..Len(v) : v[k] # w[k]
            BY <1>1, <1>2, <1>4, SeqEqual
      <2>2. PICK i \in 1..Len(v) : v[i] # w[i] /\ \A j \in 1..i-1 : v[j] = w[j]
            <3>. DEFINE D == {j \in 1..Len(v) : v[j] # w[j]}
            <3>1. D \in SUBSET Nat /\ D # {} /\ D \subseteq 1..Len(v)
                  BY <2>1
            <3>2. PICK i \in D : \A j \in D : i <= j
                  <4>. HIDE DEF D
                  <4>. QED BY <3>1, LeastNatural
            <3>3. \A j \in 1..i-1 : j \in 1..Len(v) /\ ~(i <= j)
                  BY <1>1, <3>1
            <3>4. \A j \in 1..i-1 : v[j] = w[j]
                  BY <3>2, <3>3
            <3>. QED BY <3>2, <3>4
      <2>3. v[i] < w[i] \/ w[i] < v[i]
            BY <1>1, <1>2, <1>4, <2>2
      <2>4. i \in DOMAIN v /\ i \in DOMAIN w
            BY <1>1, <1>2, <1>4
      <2>5. \A j \in 1..i-1 : w[j] = v[j]
            BY <2>2
      <2>. QED BY <1>4, <2>2, <2>3, <2>4, <2>5 DEF NamedBefore
<1>. QED BY <1>3, <1>4

\* The order of the names is that of their numbers.
LEMMA OrderOfNames ==
    ASSUME NEW v \in ColumnName, NEW w \in ColumnName
    PROVE  NamedBefore(v, w) <=> Number(v) < Number(w)
<1>1. ASSUME NEW x \in ColumnName, NEW y \in ColumnName, NamedBefore(x, y)
      PROVE  Number(x) < Number(y)
      <2>1. CASE Len(x) < Len(y)
            BY <2>1, ShorterIsEarlier
      <2>2. CASE Len(x) = Len(y) /\ \E i \in DOMAIN x : /\ x[i] < y[i]
                                                        /\ \A j \in 1..i-1 : x[j] = y[j]
            <3>1. DOMAIN x = 1..Len(x)
                  BY NameType
            <3>. QED BY <2>2, <3>1, SmallerLetterIsEarlier
      <2>. QED BY <1>1, <2>1, <2>2 DEF NamedBefore
<1>2. Number(v) \in Nat /\ Number(w) \in Nat
      BY NumberType
<1>. QED BY <1>1, <1>2, NamesAreOrdered

\* One more letter in the bounds of one more letter.
LEMMA NumberBoundStep ==
    ASSUME NEW a \in Nat, NEW m \in Nat, a < m, NEW x \in Letter
    PROVE  (a + 1) * LETTERS + x < LETTERS * (1 + m)
<1>1. a + 1 < m + 1 /\ a + 1 \in Int /\ m + 1 \in Int /\ 0 \in Letter
      BY LettersIsNatural DEF Letter
<1>2. (a + 1) * LETTERS + x < (m + 1) * LETTERS + 0
      BY <1>1, EarlierNumber
<1>3. (m + 1) * LETTERS + 0 = LETTERS * (1 + m)
      BY LettersIsNatural
<1>. QED BY <1>2, <1>3

LEMMA NumberBound ==
    ASSUME NEW w \in ColumnName
    PROVE  Number(w) < Names
<1>1. Len(w) \in {1, 2, 3} /\ \A i \in 1..Len(w) : w[i] \in Letter
      BY NameType
<1>2. \A x \in Letter : x \in Nat /\ x < LETTERS
      BY LettersIsNatural DEF Letter
<1>3. LETTERS \in Nat /\ LETTERS > 0
      BY LettersIsNatural
<1>. DEFINE m == LETTERS * (1 + LETTERS)
<1>4. m \in Nat /\ LETTERS <= m /\ m <= Names /\ Names = LETTERS * (1 + m)
      <2>1. LETTERS * LETTERS \in Nat /\ m = LETTERS + LETTERS * LETTERS
            BY <1>3
      <2>2. m \in Nat /\ LETTERS <= m /\ Names = LETTERS * (1 + m)
            BY <1>3, <2>1 DEF Names
      <2>. HIDE DEF m
      <2>3. LETTERS * (1 + m) = LETTERS + LETTERS * m /\ LETTERS * m >= m
            <3>1. (LETTERS - 1) * m >= 0 /\ (LETTERS - 1) * m = LETTERS * m - m
                  BY <1>3, <2>2
            <3>2. LETTERS * m \in Int
                  BY <1>3, <2>2
            <3>. QED BY <1>3, <2>2, <3>1, <3>2
      <2>4. LETTERS * m \in Int
            BY <1>3, <2>2
      <2>. QED BY <1>3, <2>2, <2>3, <2>4
<1>. HIDE DEF m
<1>5. Names \in Nat
      BY <1>3, <1>4
<1>6. CASE Len(w) = 1
      <2>1. w[1] \in Nat /\ w[1] < LETTERS
            BY <1>1, <1>2, <1>6
      <2>. QED BY <1>3, <1>4, <1>5, <1>6, <2>1 DEF Number
<1>7. CASE Len(w) = 2
      <2>1. w[1] \in Nat /\ w[1] < LETTERS /\ w[2] \in Letter
            BY <1>1, <1>2, <1>7
      <2>2. (w[1] + 1) * LETTERS + w[2] < m
            BY <1>3, <2>1, NumberBoundStep DEF m
      <2>3. (w[1] + 1) * LETTERS + w[2] \in Int
            BY <1>2, <1>3, <2>1
      <2>. QED BY <1>4, <1>5, <1>7, <2>2, <2>3 DEF Number
<1>8. CASE Len(w) = 3
      <2>1. w[1] \in Nat /\ w[1] < LETTERS /\ w[2] \in Letter /\ w[3] \in Letter /\ w[2] \in Nat
            BY <1>1, <1>2, <1>8
      <2>. DEFINE a == (w[1] + 1) * LETTERS + w[2]
      <2>2. a < m
            BY <1>3, <2>1, NumberBoundStep DEF m
      <2>3. a \in Nat
            BY <1>3, <2>1
      <2>4. Number(w) = (a + 1) * LETTERS + w[3]
            BY <1>8 DEF Number
      <2>. HIDE DEF a
      <2>5. (a + 1) * LETTERS + w[3] < LETTERS * (1 + m)
            BY <1>4, <2>1, <2>2, <2>3, NumberBoundStep
      <2>. QED BY <1>4, <2>4, <2>5
<1>. QED BY <1>1, <1>6, <1>7, <1>8

\* A column that one letter cannot name: its last letter, and a column for the others.
LEMMA LastLetter ==
    ASSUME NEW k \in Nat, LETTERS <= k, NEW m \in Nat, k < LETTERS * (1 + m)
    PROVE  \E c \in Nat : c < m /\ \E x \in Letter : (c + 1) * LETTERS + x = k
<1>. DEFINE L == LETTERS
            q == k \div L
            r == k % L
<1>1. L \in Nat \ {0} /\ L <= k /\ k < L * (1 + m)
      BY LettersIsNatural
<1>. HIDE DEF L
<1>2. q - 1 \in Int /\ -1 <= q - 1 /\ q - 1 < m
      BY <1>1, NextColumnBound
<1>3. q * L + (r + 1) = k + 1
      BY <1>1, LetterReadBack
<1>4. q \in Int /\ r \in Int /\ 0 <= r /\ r < L
      BY <1>1
<1>. HIDE DEF q, r
<1>5. q # 0
      BY <1>1, <1>3, <1>4
<1>6. q - 1 \in Nat /\ (q - 1) + 1 = q
      BY <1>2, <1>4, <1>5
<1>7. q * L \in Int
      BY <1>1, <1>4
<1>8. ((q - 1) + 1) * L + r = k
      BY <1>3, <1>4, <1>6, <1>7
<1>9. r \in Letter
      BY <1>1, <1>4 DEF Letter, L
<1>. QED BY <1>2, <1>6, <1>8, <1>9 DEF L

LEMMA EveryColumnHasName ==
    ASSUME NEW k \in Nat, k < Names
    PROVE  \E w \in ColumnName : Number(w) = k
<1>1. LETTERS \in Nat \ {0}
      BY LettersIsNatural
<1>2. CASE k < LETTERS
      <2>. DEFINE w == [i \in 1..1 |-> k]
      <2>1. w \in [1..1 -> Letter]
            BY <1>1, <1>2 DEF Letter
      <2>2. w \in ColumnName /\ Len(w) = 1
            BY <2>1, NameOfLetters
      <2>3. w[1] = k
            OBVIOUS
      <2>. HIDE DEF w
      <2>. QED BY <2>2, <2>3 DEF Number
<1>3. CASE LETTERS <= k
      <2>1. PICK c \in Nat, x \in Letter :
               c < LETTERS * (1 + LETTERS) /\ (c + 1) * LETTERS + x = k
            <3>1. LETTERS * (1 + LETTERS) \in Nat /\ k < LETTERS * (1 + LETTERS * (1 + LETTERS))
                  BY <1>1 DEF Names
            <3>. QED BY <1>3, <3>1, LastLetter
      <2>3. CASE c < LETTERS
            <3>. DEFINE w == [i \in 1..2 |-> IF i = 1 THEN c ELSE x]
            <3>1. c \in Letter
                  BY <1>1, <2>1, <2>3 DEF Letter
            <3>2. w \in [1..2 -> Letter]
                  BY <2>1, <3>1
            <3>3. w \in ColumnName /\ Len(w) = 2
                  BY <3>2, NameOfLetters
            <3>4. w[1] = c /\ w[2] = x
                  OBVIOUS
            <3>. HIDE DEF w
            <3>5. Number(w) = (c + 1) * LETTERS + x
                  BY <3>3, <3>4 DEF Number
            <3>. QED BY <2>1, <3>3, <3>5
      <2>4. CASE LETTERS <= c
            <3>1. PICK d \in Nat, y \in Letter : d < LETTERS /\ (d + 1) * LETTERS + y = c
                  <4>1. c \in Nat /\ LETTERS \in Nat /\ c < LETTERS * (1 + LETTERS)
                        BY <1>1, <2>1
                  <4>. QED BY ONLY <2>4, <4>1, LastLetter
            <3>2. d \in Letter
                  BY <1>1, <3>1 DEF Letter
            <3>. DEFINE w == [i \in 1..3 |-> IF i = 1 THEN d ELSE IF i = 2 THEN y ELSE x]
            <3>3. w \in [1..3 -> Letter]
                  BY <2>1, <3>1, <3>2
            <3>4. w \in ColumnName /\ Len(w) = 3
                  BY <3>3, NameOfLetters
            <3>5. w[1] = d /\ w[2] = y /\ w[3] = x
                  OBVIOUS
            <3>. HIDE DEF w
            <3>6. Number(w) = ((d + 1) * LETTERS + y + 1) * LETTERS + x
                  BY <3>4, <3>5 DEF Number
            <3>. QED BY <2>1, <3>1, <3>4, <3>6
      <2>. QED BY <1>1, <2>1, <2>3, <2>4
<1>. QED BY <1>1, <1>2, <1>3

\* The names before a name are as many as its number says.
LEMMA NumberOfNameIs ==
    ASSUME NEW w \in ColumnName
    PROVE  NumberOfName[w] = Number(w)
<1>. DEFINE B == {v \in ColumnName : NamedBefore(v, w)}
            n == Number(w)
            T == 0..n-1
            f == [v \in B |-> Number(v)]
<1>1. n \in Nat /\ n < Names /\ Names \in Int
      BY NumberType, NumberBound, LettersIsNatural DEF Names
<1>2. \A v \in B : v \in ColumnName /\ Number(v) \in Nat /\ Number(v) < n
      BY NumberType, OrderOfNames
<1>3. f \in [B -> T]
      <2>1. \A v \in B : Number(v) \in T
            <3>. HIDE DEF B, n
            <3>. QED BY <1>1, <1>2
      <2>. HIDE DEF B, T
      <2>. QED BY <2>1
<1>4. \A u, v \in B : f[u] = f[v] => u = v
      <2>1. \A u, v \in B : Number(u) = Number(v) => u = v
            BY <1>2, NamesAreOrdered, OrderOfNames
      <2>. HIDE DEF B
      <2>. QED BY <2>1
<1>5. \A k \in T : \E v \in B : f[v] = k
      <2>1. SUFFICES ASSUME NEW k \in T PROVE \E v \in B : f[v] = k
            OBVIOUS
      <2>2. k \in Nat /\ k < n /\ k < Names
            <3>. HIDE DEF n
            <3>. QED BY <1>1
      <2>3. PICK v \in ColumnName : Number(v) = k
            BY <2>2, EveryColumnHasName
      <2>4. v \in B
            BY <2>2, <2>3, OrderOfNames
      <2>. HIDE DEF B
      <2>. QED BY <2>3, <2>4
<1>6. Cardinality(B) = Cardinality(T) /\ IsFiniteSet(T)
      <2>. HIDE DEF B, T, f
      <2>1. f \in Bijection(B, T)
            BY <1>3, <1>4, <1>5 DEF Bijection, Injection, Surjection, IsInjective
      <2>2. ExistsBijection(T, B)
            <3>1. ExistsBijection(B, T)
                  BY <2>1 DEF ExistsBijection
            <3>. QED BY ONLY <3>1, Fun_ExistsBijSymmetric
      <2>3. IsFiniteSet(T)
            BY <1>1, FS_Interval DEF T
      <2>. QED BY <2>2, <2>3, FS_Bijection
<1>7. Cardinality(T) = n
      <2>. HIDE DEF n
      <2>1. Cardinality(0..n-1) = IF 0 > n - 1 THEN 0 ELSE n - 1 - 0 + 1
            BY <1>1, FS_Interval
      <2>. QED BY <1>1, <2>1
<1>. QED BY <1>6, <1>7 DEF NumberOfName

\* The name of the column of a position is the one with its number.
LEMMA NameOfColumn ==
    ASSUME NEW p \in Pos
    PROVE  \E w \in ColumnName :
              /\ Number(w) = p[2]
              /\ \A v \in ColumnName : Number(v) = p[2] => v = w
              /\ TextOf(p) = [i \in DOMAIN w |-> Upper(w[i])] \o Numeral(p[1] + 1)
<1>. DEFINE w == CHOOSE x \in ColumnName : NumberOfName[x] = p[2]
<1>1. p[2] \in Nat /\ p[2] < Names
      <2>1. p[2] \in 0..MAX_COLS-1
            BY DEF Pos
      <2>2. MAX_COLS <= Names /\ Names \in Int
            BY LettersAssumption, LettersIsNatural DEF Names
      <2>. QED BY <2>1, <2>2, BoundsAssumption
<1>2. \E x \in ColumnName : NumberOfName[x] = p[2]
      BY <1>1, EveryColumnHasName, NumberOfNameIs
<1>3. w \in ColumnName /\ NumberOfName[w] = p[2]
      BY <1>2
<1>4. TextOf(p) = [i \in DOMAIN w |-> Upper(w[i])] \o Numeral(p[1] + 1)
      BY DEF TextOf
<1>. HIDE DEF w
<1>5. Number(w) = p[2]
      BY <1>3, NumberOfNameIs
<1>6. \A v \in ColumnName : Number(v) = p[2] => v = w
      BY <1>1, <1>3, <1>5, NamesAreOrdered, OrderOfNames
<1>. QED BY <1>3, <1>4, <1>5, <1>6

---------------------------------------------------------------------------
(***************************************************************************)
(* What FromString makes of a text.                                        *)
(***************************************************************************)
LettersRead(n) == [i \in 1..n |-> text[i][2]]

\* The value of col once n letters are read.
ColumnRead(n) == IF n = 0 THEN 0 ELSE Number(LettersRead(n)) + 1

RowDigits(n) == SubSeq(text, n + 1, Len(text))

AreUpper(n) == \A i \in 1..n : text[i][1] = "upper"

\* FromString finds p in the text.
ReadsAs(p) == \E n \in 1..3 : /\ n < Len(text)
                              /\ IsColEnd(n)
                              /\ AreUpper(n)
                              /\ ColumnRead(n) = p[2] + 1
                              /\ IsRow(RowDigits(n))
                              /\ Stoi(RowDigits(n)) = p[1] + 1

\* The row is written as the library writes it.
Canonical == \A n \in 1..Len(text)-1 :
    IsColEnd(n) /\ IsRow(RowDigits(n)) =>
        /\ Stoi(RowDigits(n)) \in Nat
        /\ Numeral(Stoi(RowDigits(n))) = RowDigits(n)

\* The letters end in one place.
LEMMA ColEndUnique ==
    ASSUME Len(text) \in Nat, NEW m \in 0..Len(text), NEW n \in 0..Len(text),
           IsColEnd(m), IsColEnd(n)
    PROVE  m = n
<1>1. ASSUME NEW i \in 0..Len(text), NEW j \in 0..Len(text), IsColEnd(i), IsColEnd(j)
      PROVE  ~(i < j)
      <2>1. SUFFICES ASSUME i < j PROVE FALSE
            OBVIOUS
      <2>2. i < Len(text) /\ i + 1 \in 1..j
            BY <2>1
      <2>. QED BY <1>1, <2>2 DEF IsColEnd
<1>2. ~(m < n) /\ ~(n < m)
      BY <1>1
<1>. QED BY <1>2

\* Capital letters make a name.
LEMMA LettersReadName ==
    ASSUME text \in Seq(Character), NEW n \in 1..3, n <= Len(text), AreUpper(n)
    PROVE  /\ LettersRead(n) \in ColumnName /\ Len(LettersRead(n)) = n
           /\ \A i \in 1..n : text[i] = Upper(LettersRead(n)[i]) /\ text[i][2] \in Letter
<1>1. \A i \in 1..n : text[i] \in Character
      BY ElementOfSeq, LenProperties
<1>2. \A i \in 1..n : text[i][2] \in Letter /\ text[i] = Upper(text[i][2])
      BY <1>1 DEF AreUpper, Character, Letter, Upper
<1>3. LettersRead(n) \in [1..n -> Letter]
      BY <1>2 DEF LettersRead
<1>4. \A i \in 1..n : LettersRead(n)[i] = text[i][2]
      BY DEF LettersRead
<1>. QED BY <1>2, <1>3, <1>4, NameOfLetters

\* A round of the loop of FromString.
LEMMA ColumnReadStep ==
    ASSUME text \in Seq(Character), NEW n \in 0..2, n + 1 <= Len(text), AreUpper(n + 1)
    PROVE  ColumnRead(n + 1) = ColumnRead(n) * LETTERS + (text[n + 1][2] + 1)
<1>. DEFINE w == LettersRead(n + 1)
            v == LettersRead(n)
<1>1. /\ w \in ColumnName /\ Len(w) = n + 1
      /\ \A i \in 1..n+1 : text[i][2] \in Letter
      <2>1. n + 1 \in 1..3
            OBVIOUS
      <2>. QED BY <2>1, LettersReadName
<1>2. \A i \in 1..n+1 : w[i] = text[i][2]
      BY DEF LettersRead
<1>3. \A x \in Letter : x \in Nat
      BY LettersIsNatural DEF Letter
<1>4. LETTERS \in Nat
      BY LettersIsNatural
<1>5. ColumnRead(n + 1) = Number(w) + 1
      BY DEF ColumnRead
<1>6. n > 0 => /\ ColumnRead(n) = Number(v) + 1 /\ Len(v) = n
               /\ \A i \in 1..n : v[i] = text[i][2]
      <2>1. SUFFICES ASSUME n > 0 PROVE Len(v) = n
            BY DEF ColumnRead, LettersRead
      <2>2. n \in 1..3 /\ n <= Len(text)
            BY <2>1, LenProperties
      <2>3. AreUpper(n)
            BY DEF AreUpper
      <2>. QED BY <2>2, <2>3, LettersReadName
<1>. HIDE DEF w, v
<1>7. CASE n = 0
      <2>1. w[1] = text[1][2] /\ text[1][2] \in Nat /\ Len(w) = 1
            BY <1>1, <1>2, <1>3, <1>7
      <2>2. Number(w) = text[1][2]
            BY <2>1 DEF Number
      <2>3. ColumnRead(0) = 0
            BY DEF ColumnRead
      <2>. QED BY <1>4, <1>5, <1>7, <2>1, <2>2, <2>3
<1>8. CASE n = 1
      <2>. DEFINE a == text[1][2]
                  b == text[2][2]
      <2>1. Len(w) = 2 /\ w[1] = a /\ w[2] = b /\ a \in Nat /\ b \in Nat
            BY <1>1, <1>2, <1>3, <1>8
      <2>2. Len(v) = 1 /\ v[1] = a /\ ColumnRead(1) = Number(v) + 1
            BY <1>6, <1>8
      <2>. HIDE DEF a, b
      <2>3. Number(w) = (a + 1) * LETTERS + b
            BY <2>1 DEF Number
      <2>4. ColumnRead(1) = a + 1
            BY <2>2 DEF Number
      <2>5. (a + 1) * LETTERS \in Int
            BY <1>4, <2>1
      <2>6. ColumnRead(2) = ColumnRead(1) * LETTERS + (b + 1)
            BY <1>5, <1>8, <2>1, <2>3, <2>4, <2>5
      <2>. QED BY <1>8, <2>6 DEF b
<1>9. CASE n = 2
      <2>. DEFINE a == text[1][2]
                  b == text[2][2]
                  c == text[3][2]
      <2>1. /\ Len(w) = 3 /\ w[1] = a /\ w[2] = b /\ w[3] = c
            /\ a \in Nat /\ b \in Nat /\ c \in Nat
            BY <1>1, <1>2, <1>3, <1>9
      <2>2. Len(v) = 2 /\ v[1] = a /\ v[2] = b /\ ColumnRead(2) = Number(v) + 1
            BY <1>6, <1>9
      <2>. HIDE DEF a, b, c
      <2>3. Number(w) = ((a + 1) * LETTERS + b + 1) * LETTERS + c
            BY <2>1 DEF Number
      <2>4. ColumnRead(2) = (a + 1) * LETTERS + b + 1
            BY <2>2 DEF Number
      <2>5. ((a + 1) * LETTERS + b + 1) * LETTERS \in Int
            BY <1>4, <2>1
      <2>6. ColumnRead(3) = ColumnRead(2) * LETTERS + (c + 1)
            BY <1>5, <1>9, <2>1, <2>3, <2>4, <2>5
      <2>. QED BY <1>9, <2>6 DEF c
<1>. QED BY <1>7, <1>8, <1>9

\* What a position is read from is its text.
LEMMA OnlyTheText ==
    ASSUME text \in Seq(Character), Canonical, NEW p \in Pos, ReadsAs(p)
    PROVE  text = TextOf(p)
<1>1. PICK n \in 1..3 : /\ n < Len(text)
                        /\ IsColEnd(n)
                        /\ AreUpper(n)
                        /\ ColumnRead(n) = p[2] + 1
                        /\ IsRow(RowDigits(n))
                        /\ Stoi(RowDigits(n)) = p[1] + 1
      BY DEF ReadsAs
<1>2. PICK w \in ColumnName :
         /\ \A v \in ColumnName : Number(v) = p[2] => v = w
         /\ TextOf(p) = [i \in DOMAIN w |-> Upper(w[i])] \o Numeral(p[1] + 1)
      BY NameOfColumn
<1>. DEFINE d == RowDigits(n)
            l == [i \in DOMAIN w |-> Upper(w[i])]
            m == Len(text)
<1>3. m \in Nat /\ n < m /\ n <= m /\ n \in 1..m-1
      <2>1. m \in Nat /\ n < m
            BY <1>1, LenProperties
      <2>. HIDE DEF m
      <2>. QED BY <2>1
<1>4. /\ LettersRead(n) \in ColumnName /\ Len(LettersRead(n)) = n
      /\ \A i \in 1..n : text[i] = Upper(LettersRead(n)[i])
      <2>1. n <= Len(text) /\ AreUpper(n) /\ n \in 1..3
            BY <1>1, <1>3
      <2>. QED BY ONLY <2>1, text \in Seq(Character), LettersReadName
<1>5. LettersRead(n) = w
      <2>1. Number(LettersRead(n)) \in Int
            BY <1>4, NumberType
      <2>2. ColumnRead(n) = Number(LettersRead(n)) + 1
            BY DEF ColumnRead
      <2>3. p[2] \in Int
            BY DEF Pos
      <2>4. Number(LettersRead(n)) = p[2]
            BY <1>1, <2>1, <2>2, <2>3
      <2>. QED BY <1>2, <1>4, <2>4
<1>6. d = Numeral(p[1] + 1)
      <2>1. Numeral(Stoi(d)) = d
            BY <1>1, <1>3 DEF Canonical
      <2>. QED BY <1>1, <2>1
<1>7. d \in Seq(Character) /\ Len(d) = m - n /\ \A i \in 1..m-n : d[i] = text[n + i]
      <2>1. n + 1 \in 1..m /\ m \in n+1..m /\ m - (n + 1) + 1 = m - n
            <3>. HIDE DEF m
            <3>. QED BY <1>3
      <2>2. /\ SubSeq(text, n + 1, m) \in Seq(Character)
            /\ Len(SubSeq(text, n + 1, m)) = m - (n + 1) + 1
            /\ \A i \in 1..m-(n+1)+1 : SubSeq(text, n + 1, m)[i] = text[(n + 1) + i - 1]
            BY <1>3, <2>1, SubSeqProperties
      <2>3. d = SubSeq(text, n + 1, m)
            BY DEF RowDigits
      <2>. HIDE DEF m, d
      <2>4. \A i \in 1..m-n : (n + 1) + i - 1 = n + i
            BY <1>3
      <2>. QED BY <2>1, <2>2, <2>3, <2>4
<1>8. l \in Seq(Character) /\ Len(l) = n /\ \A i \in 1..n : l[i] = text[i]
      <2>1. DOMAIN w = 1..n /\ \A i \in 1..n : w[i] \in Letter
            BY <1>4, <1>5, NameType
      <2>2. \A i \in 1..n : Upper(w[i]) \in Character
            BY <2>1 DEF Upper, Character, Letter
      <2>3. l \in [1..n -> Character]
            BY <2>1, <2>2
      <2>4. l \in Seq(Character) /\ Len(l) = n
            <3>. HIDE DEF l
            <3>. QED BY <2>3
      <2>. QED BY <1>4, <1>5, <2>1, <2>4
<1>. HIDE DEF d, l, m
<1>9. /\ l \o d \in Seq(Character) /\ Len(l \o d) = n + (m - n)
      /\ \A i \in 1..n+(m-n) : (l \o d)[i] = IF i <= n THEN l[i] ELSE d[i - n]
      BY <1>7, <1>8, ConcatProperties
<1>10. ASSUME NEW i \in 1..m PROVE (l \o d)[i] = text[i]
      <2>1. i \in 1..n+(m-n)
            BY <1>3
      <2>2. CASE i <= n
            <3>1. i \in 1..n
                  BY <1>3, <2>2
            <3>. QED BY <1>8, <1>9, <2>1, <2>2, <3>1
      <2>3. CASE ~(i <= n)
            <3>1. i - n \in 1..m-n /\ n + (i - n) = i
                  BY <1>3, <2>3
            <3>. QED BY <1>7, <1>9, <2>1, <2>3, <3>1
      <2>. QED BY <2>2, <2>3
<1>11. n + (m - n) = m
      BY <1>3
<1>12. l \o d = text
      BY <1>9, <1>10, <1>11, SeqEqual DEF m
<1>. QED BY <1>2, <1>6, <1>12 DEF d, l

\* The text of a position is read.
LEMMA TheTextIsRead ==
    ASSUME text \in Seq(Character), NEW p \in Pos, text = TextOf(p)
    PROVE  ReadsAs(p)
<1>1. PICK w \in ColumnName :
         /\ Number(w) = p[2]
         /\ text = [i \in DOMAIN w |-> Upper(w[i])] \o Numeral(p[1] + 1)
      BY NameOfColumn
<1>. DEFINE row == Numeral(p[1] + 1)
            l == [i \in DOMAIN w |-> Upper(w[i])]
            n == Len(w)
            k == Len(row)
<1>2. n \in 1..3 /\ DOMAIN w = 1..n /\ w \in Seq(Letter) /\ \A i \in 1..n : w[i] \in Letter
      BY NameType
<1>3. p \in Int \X Int /\ IsValid(p) /\ p[1] \in 0..MAX_ROWS-1
      BY BoundsAssumption DEF Pos, IsValid
<1>4. /\ row \in Seq(Character) /\ k \in Nat \ {0}
      /\ Head(row) # Digit(0) /\ Stoi(row) = p[1] + 1
      /\ \A i \in 1..k : IsDigit(row[i]) /\ ~IsAlpha(row[i])
      BY <1>3, RowNumeral
<1>5. l \in Seq(Character) /\ Len(l) = n /\ \A i \in 1..n : l[i] = Upper(w[i])
      <2>1. \A i \in 1..n : Upper(w[i]) \in Character
            BY <1>2 DEF Upper, Character, Letter
      <2>2. l \in [1..n -> Character]
            BY <1>2, <2>1
      <2>3. l \in Seq(Character) /\ Len(l) = n
            <3>. HIDE DEF l, n
            <3>. QED BY <1>2, <2>2
      <2>. QED BY <1>2, <2>3
<1>. HIDE DEF row, l, n, k
<1>6. /\ Len(text) = n + k
      /\ \A i \in 1..n+k : text[i] = IF i <= n THEN l[i] ELSE row[i - n]
      BY <1>1, <1>4, <1>5, ConcatProperties DEF l, row, k
<1>7. \A i \in 1..n : text[i] = Upper(w[i])
      <2>1. \A i \in 1..n : i \in 1..n+k /\ i <= n
            BY <1>2, <1>4
      <2>. QED BY <1>5, <1>6, <2>1
<1>8. \A i \in 1..k : text[n + i] = row[i]
      <2>1. \A i \in 1..k : n + i \in 1..n+k /\ ~(n + i <= n) /\ (n + i) - n = i
            BY <1>2, <1>4
      <2>. QED BY <1>6, <2>1
<1>9. n < Len(text) /\ n <= Len(text) /\ Len(text) \in Nat
      BY <1>2, <1>4, <1>6
<1>10. AreUpper(n)
      BY <1>7 DEF AreUpper, Upper
<1>11. IsColEnd(n)
      <2>1. \A i \in 1..n : IsAlpha(text[i])
            BY <1>7 DEF Upper, IsAlpha
      <2>2. 1 \in 1..k
            BY <1>4
      <2>3. ~IsAlpha(text[n + 1])
            BY <1>4, <1>8, <2>2
      <2>. QED BY <2>1, <2>3 DEF IsColEnd
<1>12. ColumnRead(n) = p[2] + 1
      <2>1. LettersRead(n) = w
            <3>1. LettersRead(n) \in ColumnName /\ Len(LettersRead(n)) = n
                  BY <1>2, <1>9, <1>10, LettersReadName
            <3>2. \A i \in 1..n : LettersRead(n)[i] = w[i]
                  BY <1>7 DEF LettersRead, Upper
            <3>3. LettersRead(n) \in Seq(Letter)
                  BY <3>1, NameType
            <3>. QED BY <1>2, <3>1, <3>2, <3>3, SeqEqual DEF n
      <2>2. n # 0
            BY <1>2
      <2>. QED BY <1>1, <2>1, <2>2 DEF ColumnRead
<1>13. RowDigits(n) = row
      <2>1. n + 1 \in 1..n+k /\ n + k \in n+1..n+k /\ (n + k) - (n + 1) + 1 = k
            BY <1>2, <1>4
      <2>2. /\ SubSeq(text, n + 1, n + k) \in Seq(Character)
            /\ Len(SubSeq(text, n + 1, n + k)) = (n + k) - (n + 1) + 1
            /\ \A i \in 1..(n+k)-(n+1)+1 : SubSeq(text, n + 1, n + k)[i] = text[(n + 1) + i - 1]
            BY <1>6, <2>1, SubSeqProperties
      <2>3. \A i \in 1..k : (n + 1) + i - 1 = n + i
            BY <1>2, <1>4
      <2>4. \A i \in 1..k : SubSeq(text, n + 1, n + k)[i] = row[i]
            BY <1>8, <2>1, <2>2, <2>3
      <2>5. SubSeq(text, n + 1, n + k) = row
            BY <1>4, <2>1, <2>2, <2>4, SeqEqual DEF k
      <2>. QED BY <1>6, <2>5 DEF RowDigits
<1>14. IsRow(row)
      <2>1. p[1] + 1 <= MaxInt /\ (p[1] + 1) - 1 \in 0..MAX_ROWS-1
            BY <1>3, LettersAssumption, BoundsAssumption
      <2>. QED BY <1>4, <2>1 DEF IsRow, k
<1>. QED BY <1>2, <1>4, <1>9, <1>10, <1>11, <1>12, <1>13, <1>14 DEF ReadsAs

---------------------------------------------------------------------------
(***************************************************************************)
(* The invariant of FromString, whatever text it is given.                 *)
(***************************************************************************)
ReadsText == \A p \in Pos : parsed = p <=> ReadsAs(p)

\* Some letters are read, all of them capital, and col is their column.
LettersAreRead == /\ split \in 1..3 /\ split < Len(text) /\ IsColEnd(split)
                  /\ read \in 0..split /\ AreUpper(read) /\ col = ColumnRead(read)

ReadingInv ==
    /\ at \in {"ToString", "letters", "FromString", "columns", "returned"}
    /\ pos \in ArgPos \cup {NONE}
    /\ text \in Seq(Character)
    /\ col \in -1..Names
    /\ split \in 0..3 /\ read \in 0..split
    /\ parsed \in Pos \cup {NONE}
    /\ Len(trail) <= 3
    /\ at \in {"ToString", "letters", "FromString"} => split = 0
    /\ at = "ToString" => text = <<>>
    /\ at = "letters" => IsValid(pos)
    /\ at \in {"FromString", "columns", "returned"} => Canonical
    /\ at = "columns" => LettersAreRead
    /\ at = "returned" => ReadsText

LEMMA NamesIsNatural == Names \in Nat
BY LettersIsNatural DEF Names

LEMMA NONENotInPos == NONE \notin Pos
<1>1. SUFFICES ASSUME NONE \in Pos PROVE FALSE
      OBVIOUS
<1>2. -1 \in 0..MAX_ROWS-1
      BY <1>1 DEF NONE, Pos
<1>. QED BY <1>2, BoundsAssumption

\* What the texts FromString is called on owe to the library.
LEMMA ArgTextIsCanonical ==
    ASSUME text \in ArgText
    PROVE  text \in Seq(Character) /\ Canonical
BY ArgAssumption, RowAssumption DEF Canonical, RowDigits

LEMMA ReadingAtFirst == TextInit => ReadingInv
<1>. SUFFICES ASSUME TextInit PROVE ReadingInv
     OBVIOUS
<1>1. /\ col = 0 /\ split = 0 /\ read = 0 /\ parsed = NONE /\ trail = <<>>
      /\ col \in -1..Names /\ split \in 0..3 /\ read \in 0..split /\ Len(trail) <= 3
      BY NamesIsNatural DEF TextInit
<1>2. CASE at = "ToString" /\ pos \in ArgPos /\ text = <<>>
      BY <1>1, <1>2 DEF ReadingInv
<1>3. CASE at = "FromString" /\ pos = NONE /\ text \in ArgText
      BY <1>1, <1>3, ArgTextIsCanonical DEF ReadingInv
<1>. QED BY <1>2, <1>3 DEF TextInit

LEMMA ReadingWriteNothing == ReadingInv /\ WriteNothing => ReadingInv'
<1>. SUFFICES ASSUME ReadingInv, WriteNothing PROVE ReadingInv'
     OBVIOUS
<1>1. /\ at = "ToString" /\ at' = "FromString"
      /\ UNCHANGED <<pos, text, col, split, read, parsed, trail>>
      BY DEF WriteNothing
<1>2. text' = <<>> /\ Len(text') = 0
      BY <1>1 DEF ReadingInv
<1>3. Canonical'
      <2>1. 1..Len(text')-1 = {}
            BY <1>2
      <2>. QED BY <2>1 DEF Canonical
<1>. QED BY <1>1, <1>3 DEF ReadingInv

LEMMA ReadingWriteBegin == ReadingInv /\ WriteBegin => ReadingInv'
<1>. SUFFICES ASSUME ReadingInv, WriteBegin PROVE ReadingInv'
     OBVIOUS
<1>1. /\ at = "ToString" /\ at' = "letters" /\ col' = pos[2] /\ IsValid(pos)
      /\ UNCHANGED <<pos, text, split, read, parsed, trail>>
      BY DEF WriteBegin
<1>2. pos \in Int \X Int
      BY <1>1, ArgAssumption DEF ReadingInv, NONE
<1>3. col' \in -1..Names /\ IsValid(pos)'
      <2>1. pos[2] \in Int /\ 0 <= pos[2] /\ pos[2] < MAX_COLS
            BY <1>1, <1>2 DEF IsValid
      <2>2. MAX_COLS <= Names
            BY LettersAssumption DEF Names
      <2>3. pos[2] \in -1..Names
            BY <2>1, <2>2, BoundsAssumption, NamesIsNatural
      <2>. QED BY <1>1, <2>3 DEF IsValid
<1>. QED BY <1>1, <1>3 DEF ReadingInv

\* The columns left are not more than there are names.
LEMMA ColumnsLeftBound ==
    ASSUME NEW left \in {Names, LETTERS * (1 + LETTERS), LETTERS, 0},
           NEW c \in Int, -1 <= c, c < left
    PROVE  c \in -1..Names
<1>. DEFINE m == LETTERS * (1 + LETTERS)
<1>1. m \in Nat /\ LETTERS <= m /\ m <= Names
      <2>1. LETTERS \in Nat /\ LETTERS > 0 /\ LETTERS * LETTERS \in Nat
            BY LettersIsNatural
      <2>2. m = LETTERS + LETTERS * LETTERS
            BY <2>1
      <2>3. m \in Nat /\ LETTERS <= m
            BY <2>1, <2>2
      <2>4. Names = LETTERS * (1 + m)
            BY DEF Names
      <2>. HIDE DEF m
      <2>5. LETTERS * (1 + m) >= m
            <3>1. (LETTERS - 1) * m >= 0 /\ (LETTERS - 1) * m = LETTERS * m - m
                  BY <2>1, <2>3
            <3>2. LETTERS * (1 + m) = LETTERS + LETTERS * m /\ LETTERS * m \in Int
                  BY <2>1, <2>3
            <3>. QED BY <2>1, <2>3, <3>1, <3>2
      <2>. QED BY <2>3, <2>4, <2>5
<1>. HIDE DEF m
<1>2. left \in {Names, m, LETTERS, 0}
      BY DEF m
<1>3. left \in Int /\ left <= Names
      BY <1>1, <1>2, NamesIsNatural, LettersIsNatural
<1>. QED BY <1>3, NamesIsNatural

LEMMA ReadingWriteLetter == ReadingInv /\ WritingInv /\ WriteLetter => ReadingInv'
<1>. SUFFICES ASSUME ReadingInv, WritingInv, WriteLetter PROVE ReadingInv'
     OBVIOUS
<1>1. /\ at = "letters" /\ at' = "letters"
      /\ UNCHANGED <<pos, split, read, parsed>>
      BY DEF WriteLetter
<1>2. /\ text' \in Seq(Character) /\ Len(trail') <= 3 /\ trail' \in Seq(Nat)
      /\ col' \in Int /\ -1 <= col' /\ col' < ColumnsLeft'
      BY <1>1, WriteLetterKept DEF WritingInv, IsTrail
<1>3. IsValid(pos)'
      BY <1>1 DEF WritingInv, IsValid
<1>4. col' \in -1..Names
      <2>1. Len(trail') \in Nat
            BY <1>2, LenProperties
      <2>2. ColumnsLeft' \in {Names, LETTERS * (1 + LETTERS), LETTERS, 0}
            BY <2>1 DEF ColumnsLeft, Names
      <2>. QED BY <1>2, <2>2, ColumnsLeftBound
<1>. QED BY <1>1, <1>2, <1>3, <1>4 DEF ReadingInv

\* The text of a position ends in a row as the library writes it.
LEMMA WrittenIsCanonical ==
    ASSUME Written, IsTrail, IsValid(pos), pos \in Int \X Int
    PROVE  Canonical
<1>. DEFINE n == Len(trail)
            row == Numeral(pos[1] + 1)
            k == Len(row)
<1>1. /\ Len(text) = n + k /\ text \in Seq(Character) /\ n \in 1..3
      /\ \A i \in 1..k : text[n + i] = row[i]
      BY DEF Written
<1>2. row \in Seq(Character) /\ k \in Nat \ {0} /\ Stoi(row) = pos[1] + 1
      BY RowNumeral
<1>. HIDE DEF n, row, k
<1>3. RowDigits(n) = row
      <2>1. n + 1 \in 1..n+k /\ n + k \in n+1..n+k /\ (n + k) - (n + 1) + 1 = k
            BY <1>1, <1>2
      <2>2. /\ SubSeq(text, n + 1, n + k) \in Seq(Character)
            /\ Len(SubSeq(text, n + 1, n + k)) = (n + k) - (n + 1) + 1
            /\ \A i \in 1..(n+k)-(n+1)+1 : SubSeq(text, n + 1, n + k)[i] = text[(n + 1) + i - 1]
            BY <1>1, <2>1, SubSeqProperties
      <2>3. \A i \in 1..k : (n + 1) + i - 1 = n + i
            BY <1>1, <1>2
      <2>4. \A i \in 1..k : SubSeq(text, n + 1, n + k)[i] = row[i]
            BY <1>1, <2>1, <2>2, <2>3
      <2>5. SubSeq(text, n + 1, n + k) = row
            BY <1>2, <2>1, <2>2, <2>4, SeqEqual DEF k
      <2>. QED BY <1>1, <2>5 DEF RowDigits
<1>4. Stoi(row) \in Nat /\ Numeral(Stoi(row)) = row
      <2>1. pos[1] + 1 \in Nat
            BY DEF IsValid
      <2>. QED BY <1>2, <2>1 DEF row
<1>5. \A i \in 1..Len(text)-1 : IsColEnd(i) => i = n
      <2>1. \A i \in 1..Len(text)-1 : i \in 0..Len(text)
            BY <1>1, <1>2
      <2>. QED BY <2>1, ColumnEnd DEF n
<1>. QED BY <1>3, <1>4, <1>5 DEF Canonical

LEMMA WrittenIsCanonicalNext ==
    (Written /\ IsTrail /\ IsValid(pos) /\ pos \in Int \X Int)' => Canonical'
<1>1. Written /\ IsTrail /\ IsValid(pos) /\ pos \in Int \X Int => Canonical
      BY WrittenIsCanonical
<1>. QED BY <1>1, PTL

LEMMA ReadingWriteRow == ReadingInv /\ WritingInv /\ WriteRow => ReadingInv'
<1>. SUFFICES ASSUME ReadingInv, WritingInv, WriteRow PROVE ReadingInv'
     OBVIOUS
<1>1. /\ at = "letters" /\ at' = "FromString"
      /\ UNCHANGED <<pos, col, split, read, parsed, trail>>
      BY DEF WriteRow
<1>2. /\ Written' /\ IsTrail' /\ IsValid(pos)' /\ pos' \in Int \X Int
      BY <1>1, WriteRowKept DEF WritingInv
<1>3. Canonical'
      BY <1>2, WrittenIsCanonicalNext
<1>4. text' \in Seq(Character)
      BY <1>2 DEF Written
<1>. QED BY <1>1, <1>3, <1>4 DEF ReadingInv

\* The row, and all that FromString asks of a text, stays.
LEMMA TextStays ==
    ASSUME text' = text
    PROVE  /\ Canonical' = Canonical
           /\ \A p \in Pos : ReadsAs(p)' = ReadsAs(p)
           /\ \A n : IsColEnd(n)' = IsColEnd(n)
           /\ \A n : AreUpper(n)' = AreUpper(n)
           /\ \A n : ColumnRead(n)' = ColumnRead(n)
BY DEF Canonical, ReadsAs, IsColEnd, AreUpper, ColumnRead, LettersRead, RowDigits, Number

LEMMA ReadingRejectShape == ReadingInv /\ RejectShape => ReadingInv'
<1>. SUFFICES ASSUME ReadingInv, RejectShape PROVE ReadingInv'
     OBVIOUS
<1>1. /\ at = "FromString" /\ at' = "returned" /\ parsed' = NONE
      /\ UNCHANGED <<pos, text, col, split, read, trail>>
      BY DEF RejectShape, Return
<1>2. Len(text) \in Nat
      BY LenProperties DEF ReadingInv
<1>3. ASSUME NEW p \in Pos PROVE ~ReadsAs(p)
      <2>1. SUFFICES ASSUME ReadsAs(p) PROVE FALSE
            OBVIOUS
      <2>2. PICK n \in 1..3 : n < Len(text) /\ IsColEnd(n)
            BY <2>1 DEF ReadsAs
      <2>3. ~(Len(text) < 2) /\ n \in 0..Len(text) /\ n \notin {0, Len(text)} /\ ~(n > 3)
            BY <1>2, <2>2
      <2>4. PICK m \in 0..Len(text) : IsColEnd(m) /\ (m \in {0, Len(text)} \/ m > 3)
            BY <2>3 DEF RejectShape
      <2>5. m = n
            BY <1>2, <2>2, <2>3, <2>4, ColEndUnique
      <2>. QED BY <2>3, <2>4, <2>5
<1>4. ReadsText'
      BY <1>1, <1>3, NONENotInPos, TextStays DEF ReadsText
<1>5. Canonical'
      BY <1>1, TextStays DEF ReadingInv
<1>. QED BY <1>1, <1>4, <1>5 DEF ReadingInv

LEMMA ReadingSplit == ReadingInv /\ Split => ReadingInv'
<1>. SUFFICES ASSUME ReadingInv, Split PROVE ReadingInv'
     OBVIOUS
<1>1. /\ at = "FromString" /\ at' = "columns" /\ col' = 0
      /\ UNCHANGED <<pos, text, read, parsed, trail>>
      BY DEF Split
<1>2. Len(text) \in Nat /\ read = 0
      BY <1>1, LenProperties DEF ReadingInv
<1>3. split' \in 1..3 /\ split' < Len(text) /\ IsColEnd(split')
      <2>1. PICK n \in 1..Len(text)-1 : IsColEnd(n) /\ n <= 3 /\ split' = n
            BY DEF Split
      <2>2. n \in 1..3 /\ n < Len(text)
            BY <1>2, <2>1
      <2>. QED BY <2>1, <2>2
<1>4. LettersAreRead'
      <2>1. AreUpper(0)
            BY DEF AreUpper
      <2>2. ColumnRead(0) = 0
            BY DEF ColumnRead
      <2>3. IsColEnd(split)'
            BY <1>1, <1>3 DEF IsColEnd
      <2>4. AreUpper(read)' /\ (ColumnRead(read) = 0)'
            BY <1>1, <1>2 DEF AreUpper, ColumnRead
      <2>. QED BY <1>1, <1>2, <1>3, <2>3, <2>4 DEF LettersAreRead
<1>5. Canonical'
      BY <1>1, TextStays DEF ReadingInv
<1>6. col' \in -1..Names /\ split' \in 0..3 /\ read' \in 0..split'
      BY <1>1, <1>2, <1>3, NamesIsNatural
<1>. QED BY <1>1, <1>4, <1>5, <1>6 DEF ReadingInv

\* A letter that is not capital is in no text of a position.
LEMMA SmallLetterReadsNothing ==
    ASSUME LettersAreRead, read < split, text[read + 1][1] # "upper",
           Len(text) \in Nat, NEW p \in Pos
    PROVE  ~ReadsAs(p)
<1>1. SUFFICES ASSUME ReadsAs(p) PROVE FALSE
      OBVIOUS
<1>2. PICK n \in 1..3 : n < Len(text) /\ IsColEnd(n) /\ AreUpper(n)
      BY <1>1 DEF ReadsAs
<1>3. split \in 1..3 /\ split < Len(text) /\ IsColEnd(split) /\ read \in 0..split
      BY DEF LettersAreRead
<1>4. n = split
      <2>1. n \in 0..Len(text) /\ split \in 0..Len(text)
            BY <1>2, <1>3
      <2>. QED BY <1>2, <1>3, <2>1, ColEndUnique
<1>5. read + 1 \in 1..n
      BY <1>3, <1>4
<1>. QED BY <1>2, <1>5 DEF AreUpper

LEMMA ReadingReadLetter == ReadingInv /\ ReadLetter => ReadingInv'
<1>. SUFFICES ASSUME ReadingInv, ReadLetter PROVE ReadingInv'
     OBVIOUS
<1>. DEFINE c == text[read + 1]
<1>1. /\ at = "columns" /\ read < split /\ LettersAreRead /\ Canonical
      /\ text \in Seq(Character) /\ Len(text) \in Nat
      BY LenProperties DEF ReadLetter, ReadingInv
<1>2. split \in 1..3 /\ split < Len(text) /\ IsColEnd(split) /\ read \in 0..split
      BY <1>1 DEF LettersAreRead
<1>3. CASE c[1] = "upper" /\ col' = ColumnWith(c) /\ read' = read + 1
           /\ UNCHANGED <<at, pos, text, split, parsed, trail>>
      <2>1. read \in 0..2 /\ read + 1 \in 1..3 /\ read + 1 <= Len(text) /\ read + 1 \in 0..split
            BY <1>1, <1>2
      <2>2. AreUpper(read + 1)
            <3>1. AreUpper(read) /\ text[read + 1][1] = "upper"
                  BY <1>1, <1>3 DEF LettersAreRead
            <3>2. \A i \in 1..read+1 : i \in 1..read \/ i = read + 1
                  BY <1>2
            <3>. QED BY <3>1, <3>2 DEF AreUpper
      <2>3. col' = ColumnRead(read + 1)
            <3>1. ColumnRead(read + 1) = ColumnRead(read) * LETTERS + (text[read + 1][2] + 1)
                  BY <1>1, <2>1, <2>2, ColumnReadStep
            <3>2. col = ColumnRead(read)
                  BY <1>1 DEF LettersAreRead
            <3>. QED BY <1>3, <3>1, <3>2 DEF ColumnWith
      <2>4. ColumnRead(read + 1) \in -1..Names
            <3>1. LettersRead(read + 1) \in ColumnName
                  BY <1>1, <2>1, <2>2, LettersReadName
            <3>2. /\ Number(LettersRead(read + 1)) \in Nat
                  /\ Number(LettersRead(read + 1)) < Names
                  BY <3>1, NumberType, NumberBound
            <3>3. read + 1 # 0
                  BY <2>1
            <3>4. ColumnRead(read + 1) = Number(LettersRead(read + 1)) + 1
                  BY <3>3 DEF ColumnRead
            <3>. QED BY <3>2, <3>4, NamesIsNatural
      <2>5. LettersAreRead'
            <3>1. IsColEnd(split)' /\ AreUpper(read)' /\ (ColumnRead(read))' = ColumnRead(read + 1)
                  BY <1>2, <1>3, <2>2 DEF IsColEnd, AreUpper, ColumnRead, LettersRead, Number
            <3>. QED BY <1>2, <1>3, <2>1, <2>3, <3>1 DEF LettersAreRead
      <2>6. Canonical'
            BY <1>1, <1>3, TextStays
      <2>. QED BY <1>1, <1>3, <2>1, <2>3, <2>4, <2>5, <2>6 DEF ReadingInv
<1>4. CASE c[1] # "upper" /\ Return(NONE)
      <2>1. /\ at' = "returned" /\ parsed' = NONE
            /\ UNCHANGED <<pos, text, col, split, read, trail>>
            BY <1>4 DEF Return
      <2>2. ReadsText'
            <3>1. \A p \in Pos : ~ReadsAs(p)
                  BY <1>1, <1>4, SmallLetterReadsNothing
            <3>. QED BY <2>1, <3>1, NONENotInPos, TextStays DEF ReadsText
      <2>3. Canonical'
            BY <1>1, <2>1, TextStays
      <2>. QED BY <2>1, <2>2, <2>3 DEF ReadingInv
<1>. QED BY <1>3, <1>4 DEF ReadLetter

LEMMA ReadingReadRow == ReadingInv /\ ReadRow => ReadingInv'
<1>. SUFFICES ASSUME ReadingInv, ReadRow PROVE ReadingInv'
     OBVIOUS
<1>. DEFINE d == RowDigits(split)
            r == Stoi(d)
<1>1. /\ at = "columns" /\ read = split /\ LettersAreRead /\ Canonical
      /\ text \in Seq(Character) /\ Len(text) \in Nat
      /\ at' = "returned" /\ UNCHANGED <<pos, text, col, split, read, trail>>
      /\ parsed' = IF col - 1 < MAX_COLS /\ IsRow(d) THEN <<r - 1, col - 1>> ELSE NONE
      BY LenProperties DEF ReadRow, Return, ReadingInv, RowDigits
<1>2. /\ split \in 1..3 /\ split < Len(text) /\ IsColEnd(split)
      /\ AreUpper(split) /\ col = ColumnRead(split)
      BY <1>1 DEF LettersAreRead
<1>3. col - 1 \in Nat /\ col \in Int
      <2>1. split <= Len(text)
            BY <1>1, <1>2
      <2>2. Number(LettersRead(split)) \in Nat
            BY <1>1, <1>2, <2>1, LettersReadName, NumberType
      <2>3. split # 0
            BY <1>2
      <2>4. col = Number(LettersRead(split)) + 1
            BY <1>2, <2>3 DEF ColumnRead
      <2>. QED BY <2>2, <2>4
<1>4. IsRow(d) => r \in Nat /\ r - 1 \in 0..MAX_ROWS-1
      <2>1. split \in 1..Len(text)-1
            BY <1>1, <1>2
      <2>. QED BY <1>1, <1>2, <2>1 DEF Canonical, IsRow
<1>. HIDE DEF d, r
<1>5. ASSUME NEW p \in Pos
      PROVE  ReadsAs(p) <=> col = p[2] + 1 /\ IsRow(d) /\ r = p[1] + 1
      <2>1. ASSUME ReadsAs(p)
            PROVE  col = p[2] + 1 /\ IsRow(d) /\ r = p[1] + 1
            <3>1. PICK n \in 1..3 : /\ n < Len(text)
                                    /\ IsColEnd(n)
                                    /\ ColumnRead(n) = p[2] + 1
                                    /\ IsRow(RowDigits(n))
                                    /\ Stoi(RowDigits(n)) = p[1] + 1
                  BY <2>1 DEF ReadsAs
            <3>2. n \in 0..Len(text) /\ split \in 0..Len(text)
                  BY <1>1, <1>2, <3>1
            <3>3. n = split
                  BY <1>1, <1>2, <3>1, <3>2, ColEndUnique
            <3>. QED BY <1>2, <3>1, <3>3 DEF d, r
      <2>2. ASSUME col = p[2] + 1, IsRow(d), r = p[1] + 1
            PROVE  ReadsAs(p)
            BY <1>2, <2>2 DEF ReadsAs, d, r
      <2>. QED BY <2>1, <2>2
<1>6. ASSUME NEW p \in Pos PROVE parsed' = p <=> ReadsAs(p)
      <2>1. p[1] \in Int /\ p[2] \in Int /\ p[2] < MAX_COLS /\ p = <<p[1], p[2]>>
            BY BoundsAssumption DEF Pos
      <2>2. CASE col - 1 < MAX_COLS /\ IsRow(d)
            <3>1. parsed' = <<r - 1, col - 1>> /\ r \in Int
                  BY <1>1, <1>4, <2>2
            <3>2. parsed' = p <=> r - 1 = p[1] /\ col - 1 = p[2]
                  BY <2>1, <3>1
            <3>3. (r - 1 = p[1] /\ col - 1 = p[2]) <=> (col = p[2] + 1 /\ r = p[1] + 1)
                  BY <1>3, <2>1, <3>1
            <3>. QED BY <1>5, <2>2, <3>2, <3>3
      <2>3. CASE ~(col - 1 < MAX_COLS /\ IsRow(d))
            <3>1. parsed' = NONE
                  BY <1>1, <2>3
            <3>2. parsed' # p
                  BY <3>1, NONENotInPos
            <3>3. col = p[2] + 1 => col - 1 < MAX_COLS
                  BY <1>3, <2>1
            <3>. QED BY <1>5, <2>3, <3>2, <3>3
      <2>. QED BY <2>2, <2>3
<1>7. ReadsText'
      BY <1>1, <1>6, TextStays DEF ReadsText
<1>8. parsed' \in Pos \cup {NONE}
      <2>1. CASE col - 1 < MAX_COLS /\ IsRow(d)
            <3>1. col - 1 \in 0..MAX_COLS-1
                  BY <1>3, <2>1, BoundsAssumption
            <3>. QED BY <1>1, <1>4, <2>1, <3>1 DEF Pos
      <2>2. CASE ~(col - 1 < MAX_COLS /\ IsRow(d))
            BY <1>1, <2>2
      <2>. QED BY <2>1, <2>2
<1>9. Canonical'
      BY <1>1, TextStays
<1>. QED BY <1>1, <1>7, <1>8, <1>9 DEF ReadingInv

LEMMA ReadingStutter == ReadingInv /\ UNCHANGED vars => ReadingInv'
<1>. SUFFICES ASSUME ReadingInv, UNCHANGED vars PROVE ReadingInv'
     OBVIOUS
<1>1. UNCHANGED <<at, pos, text, col, split, read, parsed, trail>>
      BY DEF vars
<1>2. Canonical' = Canonical
      BY <1>1, TextStays
<1>3. LettersAreRead' = LettersAreRead
      BY <1>1 DEF LettersAreRead, IsColEnd, AreUpper, ColumnRead, LettersRead, Number
<1>4. ReadsText' = ReadsText
      BY <1>1, TextStays DEF ReadsText
<1>. QED BY <1>1, <1>2, <1>3, <1>4 DEF ReadingInv, IsValid

LEMMA BothInvariants == TextSpec => [](RoundTripInv /\ ReadingInv)
<1>1. RoundTripInv /\ ReadingInv /\ [TextNext]_vars => ReadingInv'
      <2>. SUFFICES ASSUME RoundTripInv, ReadingInv, [TextNext]_vars PROVE ReadingInv'
           OBVIOUS
      <2>1. WriteLetter \/ WriteRow => WritingInv
            <3>1. WriteLetter \/ WriteRow => IsValid(pos)
                  BY DEF WriteLetter, WriteRow, ReadingInv
            <3>. QED BY <3>1 DEF RoundTripInv, NotWritingInv
      <2>. QED BY <2>1, ReadingWriteNothing, ReadingWriteBegin, ReadingWriteLetter,
                  ReadingWriteRow, ReadingRejectShape, ReadingSplit, ReadingReadLetter,
                  ReadingReadRow, ReadingStutter DEF TextNext
<1>. QED BY InitHolds, RoundTripStep, ReadingAtFirst, <1>1, PTL DEF TextSpec

\* Three letters are enough, and col stays within an int, in both directions.
THEOREM TextTypesKept == TextSpec => []TextTypeOK
<1>1. ReadingInv => TextTypeOK
      BY DEF ReadingInv, TextTypeOK, Names
<1>. QED BY BothInvariants, <1>1, PTL

\* FromString accepts the texts of the positions and no other.
THEOREM OnlyTextsOfPositionsAreRead == TextSpec => []ReadsTheTextsOfPositions
<1>1. ReadingInv => ReadsTheTextsOfPositions
      <2>1. SUFFICES ASSUME ReadingInv, at = "returned", NEW p \in Pos
                     PROVE  parsed = p <=> <<p, text>> \in TextsOfPositions
            BY DEF ReadsTheTextsOfPositions
      <2>2. text \in Seq(Character) /\ Canonical /\ (parsed = p <=> ReadsAs(p))
            BY <2>1 DEF ReadingInv, ReadsText
      <2>3. ReadsAs(p) <=> text = TextOf(p)
            BY <2>2, OnlyTheText, TheTextIsRead
      <2>4. <<p, text>> \in TextsOfPositions <=> text = TextOf(p)
            BY DEF TextsOfPositions
      <2>. QED BY <2>2, <2>3, <2>4
<1>. QED BY BothInvariants, <1>1, PTL
===========================================================================
