------------------------- MODULE TextCellTheorems -------------------------
(***************************************************************************)
(* For every set of texts: what GetValue returns for a text is a matter of *)
(* the text, and the end pointer stays in it.                              *)
(*                                                                         *)
(* GetValue compares a place, where strtod and the loop have stopped, with *)
(* the end of the text; the property reads the text itself.  The two meet  *)
(* because no number ends in a blank and none holds a NUL.                 *)
(***************************************************************************)
EXTENDS TextCell, GeneralTheorems, SequenceTheorems

---------------------------------------------------------------------------
(***************************************************************************)
(* strtod.                                                                 *)
(***************************************************************************)
\* The characters numbers are made of.
NumeralChar == NumberDigit \cup Sign \cup {".", "e", "x", "inf", "nan"}

LEMMA NumeralCharIsNoBlank ==
    ASSUME NEW c \in NumeralChar
    PROVE  c \notin Space /\ c # "NUL"
BY DEF NumeralChar, NumberDigit, Sign, Space

\* A part of a text, its length and its characters.
LEMMA PartOfText ==
    ASSUME NEW s \in Seq(STRING), NEW i \in 1..Len(s)+1, NEW j \in 0..Len(s), i <= j + 1
    PROVE  /\ Part(s, i, j) \in Seq(STRING)
           /\ Len(Part(s, i, j)) = j - i + 1
           /\ \A k \in 1..j-i+1 : Part(s, i, j)[k] = s[i + k - 1]
<1>1. Len(s) \in Nat
      BY LenProperties
<1>2. CASE i <= j
      <2>1. i \in 1..Len(s) /\ j \in i..Len(s)
            BY <1>1, <1>2
      <2>2. /\ SubSeq(s, i, j) \in Seq(STRING)
            /\ Len(SubSeq(s, i, j)) = j - i + 1
            /\ \A k \in 1..j-i+1 : SubSeq(s, i, j)[k] = s[i + k - 1]
            BY <1>1, <1>2, <2>1, SubSeqProperties
      <2>. QED BY <2>2 DEF Part
<1>3. CASE i = j + 1
      <2>1. SubSeq(s, i, j) = <<>>
            BY <1>1, <1>3, SubSeqEmpty
      <2>2. 1..j-i+1 = {} /\ j - i + 1 = 0
            BY <1>1, <1>3
      <2>. QED BY <2>1, <2>2, EmptySeq DEF Part
<1>. QED BY <1>1, <1>2, <1>3

\* A part from the start on.
LEMMA FirstPart ==
    ASSUME NEW s \in Seq(STRING), NEW j \in 0..Len(s)
    PROVE  /\ Part(s, 1, j) \in Seq(STRING)
           /\ Len(Part(s, 1, j)) = j
           /\ \A k \in 1..j : Part(s, 1, j)[k] = s[k]
<1>1. Len(s) \in Nat
      BY LenProperties
<1>2. /\ Part(s, 1, j) \in Seq(STRING)
      /\ Len(Part(s, 1, j)) = j - 1 + 1
      /\ \A k \in 1..j-1+1 : Part(s, 1, j)[k] = s[1 + k - 1]
      BY <1>1, PartOfText
<1>3. j - 1 + 1 = j /\ \A k \in 1..j : 1 + k - 1 = k
      BY <1>1
<1>. QED BY <1>2, <1>3

LEMMA PartOfPart ==
    ASSUME NEW s \in Seq(STRING), NEW j \in 0..Len(s), NEW i \in 0..j
    PROVE  Part(Part(s, 1, j), 1, i) = Part(s, 1, i)
<1>. DEFINE l == Part(Part(s, 1, j), 1, i)
            r == Part(s, 1, i)
<1>0. Len(s) \in Nat /\ i \in 0..Len(s)
      BY LenProperties
<1>1. /\ Part(s, 1, j) \in Seq(STRING) /\ Len(Part(s, 1, j)) = j
      /\ \A k \in 1..j : Part(s, 1, j)[k] = s[k]
      BY FirstPart
<1>2. l \in Seq(STRING) /\ Len(l) = i /\ \A k \in 1..i : l[k] = Part(s, 1, j)[k]
      BY <1>1, FirstPart
<1>3. r \in Seq(STRING) /\ Len(r) = i /\ \A k \in 1..i : r[k] = s[k]
      BY <1>0, FirstPart
<1>4. \A k \in 1..i : l[k] = r[k]
      BY <1>0, <1>1, <1>2, <1>3
<1>5. l = r
      <2>. HIDE DEF l, r
      <2>. QED BY <1>2, <1>3, <1>4, SeqEqual
<1>. QED BY <1>5

\* The whole of a text is a part.
LEMMA WholePart ==
    ASSUME NEW s \in Seq(STRING)
    PROVE  Part(s, 1, Len(s)) = s
<1>1. Len(s) \in Nat /\ Len(s) \in 0..Len(s)
      BY LenProperties
<1>2. /\ Part(s, 1, Len(s)) \in Seq(STRING)
      /\ Len(Part(s, 1, Len(s))) = Len(s)
      /\ \A k \in 1..Len(s) : Part(s, 1, Len(s))[k] = s[k]
      BY <1>1, FirstPart
<1>. QED BY <1>2, SeqEqual

\* A sign in front is a character of numbers.
LEMMA UnsignedChars ==
    ASSUME NEW s \in Seq(STRING)
    PROVE  /\ Unsigned(s) \in Seq(STRING)
           /\ Unsigned(s) # <<>> => s # <<>>
           /\ All(Unsigned(s), NumeralChar) => All(s, NumeralChar)
<1>1. CASE s # <<>> /\ s[1] \in Sign
      <2>1. /\ Tail(s) \in Seq(STRING) /\ Len(Tail(s)) = Len(s) - 1
            /\ \A i \in 1..Len(Tail(s)) : Tail(s)[i] = s[i + 1]
            BY <1>1, HeadTailProperties
      <2>2. Unsigned(s) = Tail(s)
            BY <1>1 DEF Unsigned
      <2>3. ASSUME All(Tail(s), NumeralChar), NEW i \in DOMAIN s
            PROVE  s[i] \in NumeralChar
            <3>1. i \in 1..Len(s) /\ Len(s) \in Nat
                  BY <2>3, LenProperties
            <3>2. CASE i = 1
                  BY <1>1, <3>2 DEF NumeralChar
            <3>3. CASE i # 1
                  <4>1. i - 1 \in 1..Len(Tail(s)) /\ (i - 1) + 1 = i
                        BY <2>1, <3>1, <3>3
                  <4>2. i - 1 \in DOMAIN Tail(s)
                        BY <2>1, <4>1, LenProperties
                  <4>3. Tail(s)[i - 1] \in NumeralChar
                        BY <2>3, <4>2 DEF All
                  <4>. QED BY <2>1, <4>1, <4>3
            <3>. QED BY <3>2, <3>3
      <2>. QED BY <1>1, <2>1, <2>2, <2>3 DEF All
<1>2. CASE ~(s # <<>> /\ s[1] \in Sign)
      BY <1>2 DEF Unsigned
<1>. QED BY <1>1, <1>2

LEMMA DecimalChars ==
    ASSUME NEW s, IsDecimal(s)
    PROVE  All(s, NumeralChar) /\ DOMAIN s # {}
BY DEF IsDecimal, All, NumeralChar

LEMMA ExponentChars ==
    ASSUME NEW s \in Seq(STRING), IsExponent(s)
    PROVE  All(s, NumeralChar)
<1>1. All(Unsigned(s), NumeralChar)
      BY DEF IsExponent, All, NumeralChar
<1>. QED BY <1>1, UnsignedChars

LEMMA ScientificChars ==
    ASSUME NEW s \in Seq(STRING), NEW k \in DOMAIN s, IsScientific(s, k)
    PROVE  All(s, NumeralChar)
<1>1. Len(s) \in Nat /\ DOMAIN s = 1..Len(s) /\ k \in 1..Len(s)
      BY LenProperties
<1>. DEFINE m == Part(s, 1, k - 1)
            e == Part(s, k + 1, Len(s))
<1>2. m \in Seq(STRING) /\ Len(m) = k - 1 /\ \A i \in 1..k-1 : m[i] = s[i]
      <2>1. k - 1 \in 0..Len(s)
            BY <1>1
      <2>. QED BY <2>1, FirstPart
<1>3. /\ e \in Seq(STRING) /\ Len(e) = Len(s) - (k + 1) + 1
      /\ \A i \in 1..Len(s)-(k+1)+1 : e[i] = s[(k + 1) + i - 1]
      <2>1. k + 1 \in 1..Len(s)+1 /\ Len(s) \in 0..Len(s) /\ k + 1 <= Len(s) + 1
            BY <1>1
      <2>. QED BY <2>1, PartOfText
<1>4. s[k] = "e" /\ IsDecimal(m) /\ IsExponent(e)
      BY DEF IsScientific
<1>. HIDE DEF m, e
<1>5. All(m, NumeralChar) /\ All(e, NumeralChar)
      BY <1>3, <1>4, DecimalChars, ExponentChars
<1>6. SUFFICES ASSUME NEW i \in 1..Len(s) PROVE s[i] \in NumeralChar
      BY <1>1 DEF All
<1>7. CASE i < k
      <2>1. i \in 1..k-1
            BY <1>1, <1>7
      <2>2. i \in DOMAIN m
            BY <1>2, <2>1, LenProperties
      <2>. QED BY <1>2, <1>5, <2>1, <2>2 DEF All
<1>8. CASE i = k
      BY <1>4, <1>8 DEF NumeralChar
<1>9. CASE i > k
      <2>1. i - k \in 1..Len(s)-(k+1)+1 /\ (k + 1) + (i - k) - 1 = i
            BY <1>1, <1>9
      <2>2. i - k \in DOMAIN e
            BY <1>3, <2>1, LenProperties
      <2>3. e[i - k] \in NumeralChar
            BY <1>5, <2>2 DEF All
      <2>. QED BY <1>3, <2>1, <2>3
<1>. QED BY <1>1, <1>7, <1>8, <1>9

LEMMA HexadecimalChars ==
    ASSUME NEW s \in Seq(STRING), IsHexadecimal(s)
    PROVE  All(s, NumeralChar)
<1>1. Len(s) \in Nat /\ DOMAIN s = 1..Len(s) /\ Len(s) > 2
      BY LenProperties DEF IsHexadecimal
<1>. DEFINE h == Part(s, 3, Len(s))
<1>2. /\ h \in Seq(STRING) /\ Len(h) = Len(s) - 3 + 1
      /\ \A i \in 1..Len(s)-3+1 : h[i] = s[3 + i - 1]
      <2>1. 3 \in 1..Len(s)+1 /\ Len(s) \in 0..Len(s) /\ 3 <= Len(s) + 1
            BY <1>1
      <2>. QED BY <2>1, PartOfText
<1>3. s[1] = "0" /\ s[2] = "x" /\ All(h, NumberDigit)
      BY DEF IsHexadecimal
<1>. HIDE DEF h
<1>4. SUFFICES ASSUME NEW i \in 1..Len(s) PROVE s[i] \in NumeralChar
      BY <1>1 DEF All
<1>5. CASE i \in {1, 2}
      BY <1>3, <1>5 DEF NumeralChar, NumberDigit
<1>6. CASE i > 2
      <2>1. i - 2 \in 1..Len(s)-3+1 /\ 3 + (i - 2) - 1 = i
            BY <1>1, <1>6
      <2>2. i - 2 \in DOMAIN h
            BY <1>2, <2>1, LenProperties
      <2>3. h[i - 2] \in NumberDigit
            BY <1>3, <2>2 DEF All
      <2>. QED BY <1>2, <2>1, <2>3 DEF NumeralChar
<1>. QED BY <1>1, <1>5, <1>6

\* A number has characters, all of them those of numbers.
LEMMA NumeralChars ==
    ASSUME NEW s \in Seq(STRING), IsNumeral(s)
    PROVE  s # <<>> /\ All(s, NumeralChar)
<1>. DEFINE u == Unsigned(s)
<1>1. u \in Seq(STRING)
      BY UnsignedChars
<1>2. u # <<>> /\ All(u, NumeralChar)
      <2>. HIDE DEF u
      <2>1. CASE IsDecimal(u)
            <3>1. All(u, NumeralChar) /\ DOMAIN u # {}
                  BY <2>1, DecimalChars
            <3>2. Len(u) # 0
                  BY <1>1, <3>1, LenProperties
            <3>. QED BY <3>1, <3>2, EmptySeq
      <2>2. CASE \E k \in DOMAIN u : IsScientific(u, k)
            <3>1. PICK k \in DOMAIN u : IsScientific(u, k)
                  BY <2>2
            <3>2. Len(u) # 0
                  BY <1>1, <3>1, LenProperties
            <3>. QED BY <1>1, <3>1, <3>2, ScientificChars, EmptySeq
      <2>3. CASE IsHexadecimal(u)
            <3>1. Len(u) # 0
                  BY <1>1, <2>3, LenProperties DEF IsHexadecimal
            <3>. QED BY <1>1, <2>3, <3>1, HexadecimalChars, EmptySeq
      <2>4. CASE u \in {<<"inf">>, <<"nan">>}
            <3>1. DOMAIN u = {1} /\ u[1] \in {"inf", "nan"} /\ u # <<>>
                  BY <2>4
            <3>. QED BY <3>1 DEF All, NumeralChar
      <2>. QED BY <2>1, <2>2, <2>3, <2>4 DEF IsNumeral, u
<1>. QED BY <1>1, <1>2, UnsignedChars

\* What strtod converts does not end in a blank and has no NUL in it.
LEMMA ConvertedChars ==
    ASSUME NEW s \in Seq(STRING), IsConverted(s)
    PROVE  /\ s # <<>>
           /\ s[Len(s)] \notin Space
           /\ \A i \in 1..Len(s) : s[i] # "NUL"
<1>1. Len(s) \in Nat /\ DOMAIN s = 1..Len(s)
      BY LenProperties
<1>2. PICK b \in 0..Len(s) : All(Part(s, 1, b), Blank) /\ IsNumeral(Part(s, b + 1, Len(s)))
      BY DEF IsConverted
<1>. DEFINE l == Part(s, 1, b)
            r == Part(s, b + 1, Len(s))
<1>3. l \in Seq(STRING) /\ Len(l) = b /\ \A i \in 1..b : l[i] = s[i]
      BY FirstPart
<1>4. /\ r \in Seq(STRING) /\ Len(r) = Len(s) - (b + 1) + 1
      /\ \A i \in 1..Len(s)-(b+1)+1 : r[i] = s[(b + 1) + i - 1]
      <2>1. b + 1 \in 1..Len(s)+1 /\ Len(s) \in 0..Len(s) /\ b + 1 <= Len(s) + 1
            BY <1>1
      <2>. QED BY <2>1, PartOfText
<1>5. r # <<>> /\ All(r, NumeralChar) /\ All(l, Blank)
      <2>. HIDE DEF r
      <2>. QED BY <1>2, <1>4, NumeralChars DEF r
<1>. HIDE DEF l, r
<1>6. Len(r) # 0
      BY <1>4, <1>5, EmptySeq
<1>7. b < Len(s) /\ s # <<>>
      <2>1. Len(r) = Len(s) - (b + 1) + 1
            BY <1>4
      <2>2. b < Len(s)
            <3>. DEFINE n == Len(s)
                        m == Len(r)
            <3>1. n \in Nat /\ b \in 0..n /\ m = n - (b + 1) + 1 /\ m # 0
                  BY <1>1, <1>6, <2>1
            <3>2. b < n
                  <4>. HIDE DEF n, m
                  <4>. QED BY <3>1
            <3>. QED BY <3>2
      <2>. QED BY <1>1, <2>2, EmptySeq
<1>8. \A i \in b+1..Len(s) : s[i] \in NumeralChar
      <2>1. SUFFICES ASSUME NEW i \in b+1..Len(s) PROVE s[i] \in NumeralChar
            OBVIOUS
      <2>2. i - b \in 1..Len(s)-(b+1)+1 /\ (b + 1) + (i - b) - 1 = i
            BY <1>1
      <2>3. i - b \in DOMAIN r
            BY <1>4, <2>2, LenProperties
      <2>4. r[i - b] \in NumeralChar
            BY <1>5, <2>3 DEF All
      <2>. QED BY <1>4, <2>2, <2>4
<1>9. \A i \in 1..b : s[i] # "NUL"
      <2>1. SUFFICES ASSUME NEW i \in 1..b PROVE s[i] # "NUL"
            OBVIOUS
      <2>2. i \in DOMAIN l
            BY <1>3, LenProperties
      <2>3. s[i] \in Blank
            BY <1>3, <1>5, <2>2 DEF All
      <2>. QED BY <2>3 DEF Blank, Space
<1>10. Len(s) \in b+1..Len(s)
      BY <1>1, <1>7
<1>11. \A i \in 1..Len(s) : s[i] # "NUL"
      <2>1. SUFFICES ASSUME NEW i \in 1..Len(s) PROVE s[i] # "NUL"
            OBVIOUS
      <2>2. i \in 1..b \/ i \in b+1..Len(s)
            BY <1>1
      <2>. QED BY <1>8, <1>9, <2>2, NumeralCharIsNoBlank
<1>. QED BY <1>7, <1>8, <1>10, <1>11, NumeralCharIsNoBlank

\* strtod converts a part that it can, and no longer one.
LEMMA ConvertedIsLongest ==
    ASSUME NEW s \in Seq(STRING)
    PROVE  /\ Converted(s) \in 0..Len(s)
           /\ Converted(s) > 0 => IsConverted(Part(s, 1, Converted(s)))
           /\ \A n \in 1..Len(s) : IsConverted(Part(s, 1, n)) => n <= Converted(s)
<1>. DEFINE lengths == {0} \cup {n \in 1..Len(s) : IsConverted(Part(s, 1, n))}
<1>1. Len(s) \in Nat
      BY LenProperties
<1>2. lengths \in SUBSET (0..Len(s)) /\ lengths # {}
      BY <1>1
<1>3. Max(lengths) \in lengths /\ \A n \in lengths : n <= Max(lengths)
      <2>. HIDE DEF lengths
      <2>. QED BY <1>1, <1>2, MaxOfBounded
<1>4. Converted(s) = Max(lengths)
      BY DEF Converted
<1>. DEFINE m == Max(lengths)
<1>. HIDE DEF m
<1>5. m \in lengths /\ \A n \in lengths : n <= m
      BY <1>3 DEF m
<1>. QED BY <1>1, <1>2, <1>4, <1>5 DEF m

---------------------------------------------------------------------------
(***************************************************************************)
(* The text, up to a NUL, and without the spaces at its end.               *)
(***************************************************************************)
\* The text of a cell has characters.
LEMMA UnescapedType ==
    ASSUME text_ \in CellText
    PROVE  /\ text_ \in Seq(STRING) /\ Unescaped \in Seq(STRING)
           /\ WithoutPrefix(text_) = Unescaped
<1>1. text_ \in Seq(STRING) /\ text_ # <<>>
      BY CellTextAssumption
<1>2. Head(text_) = text_[1] /\ Tail(text_) \in Seq(STRING)
      BY <1>1, HeadTailProperties
<1>. QED BY <1>1, <1>2 DEF Unescaped, WithoutPrefix

\* C sees the text to the first NUL, wherever one looks for it from.
LEMMA CStringStops ==
    ASSUME Unescaped \in Seq(STRING), NEW e \in 0..Len(Unescaped),
           \A i \in 1..e : Unescaped[i] # "NUL"
    PROVE  /\ e = Len(Unescaped) \/ Unescaped[e + 1] = "NUL" => CString = Part(Unescaped, 1, e)
           /\ e < Len(Unescaped) /\ Unescaped[e + 1] # "NUL" =>
                 \E m \in e+1..Len(Unescaped) : CString = Part(Unescaped, 1, m)
<1>. DEFINE s == Unescaped
            nul == {i \in DOMAIN s : s[i] = "NUL"}
<1>1. Len(s) \in Nat /\ DOMAIN s = 1..Len(s)
      BY LenProperties
<1>2. CString = IF nul = {} THEN s ELSE Part(s, 1, Min(nul) - 1)
      BY DEF CString
<1>3. Part(s, 1, Len(s)) = s
      BY WholePart
<1>4. nul # {} => Min(nul) \in nul /\ \A i \in nul : Min(nul) <= i
      <2>1. nul \in SUBSET Nat
            BY <1>1
      <2>. HIDE DEF nul
      <2>. QED BY <2>1, MinOfNaturals
<1>. DEFINE n == Len(s)
            f == Min(nul)
<1>5. n \in Nat /\ e \in 0..n
      BY <1>1
<1>6. \A i \in nul : i \in e+1..n /\ s[i] = "NUL"
      BY <1>1
<1>7. \A i \in 1..n : s[i] = "NUL" => i \in nul
      BY <1>1
<1>8. nul # {} => f \in e+1..n /\ s[f] = "NUL" /\ \A i \in nul : f <= i
      BY <1>4, <1>6
<1>9. CString = IF nul = {} THEN Part(s, 1, n) ELSE Part(s, 1, f - 1)
      BY <1>2, <1>3
<1>. HIDE DEF nul, f, n, s
<1>10. ASSUME e = n \/ s[e + 1] = "NUL"
       PROVE  CString = Part(s, 1, e)
      <2>1. CASE nul = {}
            <3>1. e # n => e + 1 \in 1..n
                  BY <1>5
            <3>2. e = n
                  BY <1>7, <1>10, <2>1, <3>1
            <3>. QED BY <1>9, <2>1, <3>2
      <2>2. CASE nul # {}
            <3>1. f \in e+1..n
                  BY <1>8, <2>2
            <3>2. e + 1 \in 1..n /\ e # n
                  BY <1>5, <3>1
            <3>3. e + 1 \in nul
                  BY <1>7, <1>10, <3>2
            <3>4. f <= e + 1
                  BY <1>8, <2>2, <3>3
            <3>5. f - 1 = e
                  BY <1>5, <3>1, <3>4
            <3>. QED BY <1>9, <2>2, <3>5
      <2>. QED BY <2>1, <2>2
<1>11. ASSUME e < n, s[e + 1] # "NUL"
       PROVE  \E m \in e+1..n : CString = Part(s, 1, m)
      <2>1. CASE nul = {}
            <3>1. n \in e+1..n
                  BY <1>5, <1>11
            <3>. QED BY <1>9, <2>1, <3>1
      <2>2. CASE nul # {}
            <3>1. f \in e+1..n /\ s[f] = "NUL"
                  BY <1>8, <2>2
            <3>2. f # e + 1
                  BY <1>11, <3>1
            <3>3. f - 1 \in e+1..n
                  BY <1>5, <3>1, <3>2
            <3>. QED BY <1>9, <2>2, <3>3
      <2>. QED BY <2>1, <2>2
<1>. QED BY <1>10, <1>11 DEF s, n

\* Only spaces are trimmed, and all of those at the end.
LEMMA TrimmedTo ==
    ASSUME NEW s \in Seq(STRING)
    PROVE  \E n \in 0..Len(s) : /\ Trimmed(s) = Part(s, 1, n)
                                /\ n > 0 => s[n] \notin Space
                                /\ \A i \in n+1..Len(s) : s[i] \in Space
<1>. DEFINE kept == {0} \cup {i \in DOMAIN s : s[i] \notin Space}
<1>1. Len(s) \in Nat /\ DOMAIN s = 1..Len(s)
      BY LenProperties
<1>2. kept \in SUBSET (0..Len(s)) /\ kept # {}
      BY <1>1
<1>. DEFINE n == Max(kept)
<1>3. n \in kept /\ \A i \in kept : i <= n
      <2>. HIDE DEF kept
      <2>. QED BY <1>1, <1>2, MaxOfBounded
<1>4. Trimmed(s) = Part(s, 1, n)
      BY DEF Trimmed
<1>. HIDE DEF n
<1>5. n \in 0..Len(s) /\ (n > 0 => s[n] \notin Space)
      BY <1>1, <1>3
<1>6. ASSUME NEW i \in n+1..Len(s) PROVE s[i] \in Space
      <2>1. i \in 1..Len(s) /\ ~(i <= n)
            BY <1>1, <1>5
      <2>2. i \notin kept
            BY <1>3, <2>1
      <2>. QED BY <1>1, <2>1, <2>2
<1>. QED BY <1>4, <1>5, <1>6

---------------------------------------------------------------------------
(***************************************************************************)
(* The invariant.                                                          *)
(***************************************************************************)
\* Between the number and end there are spaces only.
Stopped == /\ num = Part(content, 1, Converted(content))
           /\ end \in Converted(content)..Len(content)
           /\ \A i \in Converted(content)+1..end : content[i] \in Space

TextCellInv ==
    /\ text_ \in CellText
    /\ content \in Seq(STRING)
    /\ line \in {"prefix", "convert", "skip", "returned"}
    /\ line # "prefix" => content = Unescaped
    /\ line \in {"convert", "skip"} => content # <<>>
    /\ line # "returned" => value = Zero
    /\ line \in {"prefix", "convert"} => num = <<>> /\ end = 0
    /\ line = "skip" => Stopped
    /\ line = "returned" =>
          \/ content = <<>> /\ num = <<>> /\ end = 0 /\ value = Zero
          \/ content # <<>> /\ Stopped /\ AtEnd \notin Space /\ value = Decided

LEMMA InvAtFirst == GetValueInit => TextCellInv
BY EmptySeq DEF GetValueInit, TextCellInv

LEMMA RemovePrefixKeeps == TextCellInv /\ RemovePrefix => TextCellInv'
<1>. SUFFICES ASSUME TextCellInv, RemovePrefix PROVE TextCellInv'
     OBVIOUS
<1>1. text_ \in CellText /\ num = <<>> /\ end = 0 /\ value = Zero
      BY DEF TextCellInv, RemovePrefix
<1>2. /\ text_' = text_ /\ num' = num /\ end' = end /\ value' = value
      /\ content' = WithoutPrefix(text_)
      /\ line' = IF content' = <<>> THEN "returned" ELSE "convert"
      BY DEF RemovePrefix
<1>3. content' = Unescaped /\ Unescaped \in Seq(STRING) /\ Unescaped' = Unescaped
      BY <1>1, <1>2, UnescapedType DEF Unescaped
<1>. QED BY <1>1, <1>2, <1>3 DEF TextCellInv, Zero

LEMMA ConvertKeeps == TextCellInv /\ Convert => TextCellInv'
<1>. SUFFICES ASSUME TextCellInv, Convert PROVE TextCellInv'
     OBVIOUS
<1>1. /\ text_ \in CellText /\ value = Zero
      /\ content \in Seq(STRING) /\ content = Unescaped /\ content # <<>>
      BY DEF TextCellInv, Convert
<1>2. /\ text_' = text_ /\ content' = content /\ value' = value
      /\ end' = Converted(content) /\ num' = Part(content, 1, end') /\ line' = "skip"
      BY DEF Convert
<1>3. Unescaped' = Unescaped /\ Converted(content)' = Converted(content)
      BY <1>2 DEF Unescaped
<1>4. Converted(content) \in 0..Len(content) /\ Len(content) \in Nat
      BY <1>1, ConvertedIsLongest, LenProperties
<1>5. Stopped'
      <2>. DEFINE n == Converted(content)
                  l == Len(content)
      <2>1. n \in 0..l /\ l \in Nat
            BY <1>4
      <2>2. n \in n..l /\ n+1..n = {}
            <3>. HIDE DEF n, l
            <3>. QED BY <2>1
      <2>. QED BY <1>2, <2>2 DEF Stopped
<1>. QED BY <1>1, <1>2, <1>3, <1>5 DEF TextCellInv

\* The loop stops at the NUL behind the text at the latest.
LEMMA SkipBlankKeeps == TextCellInv /\ SkipBlank => TextCellInv'
<1>. SUFFICES ASSUME TextCellInv, SkipBlank PROVE TextCellInv'
     OBVIOUS
<1>1. /\ text_ \in CellText /\ value = Zero /\ line = "skip" /\ Stopped
      /\ content \in Seq(STRING) /\ content = Unescaped /\ content # <<>>
      BY DEF TextCellInv, SkipBlank
<1>2. /\ text_' = text_ /\ content' = content /\ value' = value
      /\ end' = end + 1 /\ num' = num /\ line' = line
      BY DEF SkipBlank
<1>3. end # Len(content) /\ content[end + 1] \in Space
      BY DEF SkipBlank, AtEnd, Space
<1>4. Unescaped' = Unescaped /\ Converted(content)' = Converted(content)
      BY <1>2 DEF Unescaped
<1>5. Stopped'
      <2>. DEFINE n == Converted(content)
                  l == Len(content)
      <2>1. n \in 0..l /\ l \in Nat /\ end # l
            BY <1>1, <1>3, ConvertedIsLongest, LenProperties
      <2>2. end \in n..l /\ \A i \in n+1..end : content[i] \in Space
            BY <1>1 DEF Stopped
      <2>3. end + 1 \in n..l /\ \A i \in n+1..end+1 : content[i] \in Space
            <3>. HIDE DEF n, l
            <3>1. \A i \in n+1..end+1 : i \in n+1..end \/ i = end + 1
                  BY <2>1, <2>2
            <3>2. end + 1 \in n..l
                  BY <2>1, <2>2
            <3>. QED BY <1>3, <2>2, <3>1, <3>2
      <2>. QED BY <1>1, <1>2, <2>3 DEF Stopped
<1>. QED BY <1>1, <1>2, <1>4, <1>5 DEF TextCellInv

LEMMA DecideKeeps == TextCellInv /\ Decide => TextCellInv'
<1>. SUFFICES ASSUME TextCellInv, Decide PROVE TextCellInv'
     OBVIOUS
<1>1. /\ text_ \in CellText /\ Stopped
      /\ content \in Seq(STRING) /\ content = Unescaped /\ content # <<>>
      BY DEF TextCellInv, Decide
<1>2. /\ text_' = text_ /\ content' = content /\ num' = num /\ end' = end
      /\ value' = Decided /\ line' = "returned" /\ AtEnd \notin Space
      BY DEF Decide
<1>3. Unescaped' = Unescaped /\ Decided' = Decided /\ AtEnd' = AtEnd
      BY <1>2 DEF Unescaped, Decided, AtEnd
<1>4. Stopped'
      BY <1>1, <1>2 DEF Stopped
<1>. QED BY <1>1, <1>2, <1>3, <1>4 DEF TextCellInv

LEMMA StutterKeeps == TextCellInv /\ UNCHANGED cellVars => TextCellInv'
BY DEF TextCellInv, cellVars, Stopped, AtEnd, Decided, Unescaped

LEMMA TextCellInvHolds == TextCellSpec => []TextCellInv
<1>1. TextCellInv /\ [GetValueNext]_cellVars => TextCellInv'
      BY RemovePrefixKeeps, ConvertKeeps, SkipBlankKeeps, DecideKeeps, StutterKeeps
         DEF GetValueNext
<1>. QED BY InvAtFirst, <1>1, PTL DEF TextCellSpec

---------------------------------------------------------------------------
(***************************************************************************)
(* The types.                                                              *)
(***************************************************************************)
LEMMA InvGivesTypes == TextCellInv => TextCellTypeOK
<1>. SUFFICES ASSUME TextCellInv PROVE TextCellTypeOK
     OBVIOUS
<1>1. /\ text_ \in Seq(STRING) /\ content \in Seq(STRING)
      /\ line \in {"prefix", "convert", "skip", "returned"}
      BY CellTextAssumption DEF TextCellInv
<1>2. (num = <<>> /\ end = 0) \/ Stopped
      BY DEF TextCellInv
<1>3. value = Zero \/ value = Decided
      BY DEF TextCellInv
<1>4. value[1] \in {"double", "string", "error"}
      BY <1>3 DEF Zero, Decided, Double, String, FormulaError
<1>5. Converted(content) \in 0..Len(content) /\ Len(content) \in Nat
      BY <1>1, ConvertedIsLongest, LenProperties
<1>6. end \in 0..Len(content)
      <2>1. CASE Stopped
            <3>. DEFINE n == Converted(content)
                        l == Len(content)
            <3>1. n \in 0..l /\ l \in Nat /\ end \in n..l
                  BY <1>5, <2>1 DEF Stopped
            <3>. HIDE DEF n, l
            <3>2. end \in 0..l
                  BY <3>1
            <3>. QED BY <3>2 DEF l
      <2>2. CASE end = 0
            BY <1>5, <2>2
      <2>. QED BY <1>2, <2>1, <2>2
<1>7. num \in Seq(STRING)
      BY <1>1, <1>2, <1>5, EmptySeq, FirstPart DEF Stopped
<1>. QED BY <1>1, <1>4, <1>6, <1>7 DEF TextCellTypeOK

\* end never leaves the text and the NUL behind it, whatever the text.
THEOREM TextCellTypesKept == TextCellSpec => []TextCellTypeOK
<1>1. TextCellInv => TextCellTypeOK
      BY InvGivesTypes
<1>. QED BY TextCellInvHolds, <1>1, PTL

---------------------------------------------------------------------------
(***************************************************************************)
(* Number or text.                                                         *)
(***************************************************************************)
LEMMA NothingIsNotConverted == ~IsConverted(<<>>)
<1>1. <<>> \in Seq(STRING)
      BY EmptySeq
<1>. QED BY <1>1, ConvertedChars

\* What formulas can read is a number, or spaces; or there is no text.
Reads == \/ IsConverted(Trimmed(CString))
         \/ Trimmed(CString) = <<>> /\ CString # <<>>
         \/ Unescaped = <<>>

Told == IF ~Reads THEN String(Unescaped)
        ELSE IF IsFinite(Trimmed(CString)) THEN Double(Trimmed(CString))
        ELSE FormulaError("Arithmetic")

\* Where GetValue decides.
Deciding == /\ content = Unescaped /\ content \in Seq(STRING) /\ content # <<>>
            /\ Stopped /\ AtEnd \notin Space

\* Up to end there is no NUL.
LEMMA NoNulBeforeEnd ==
    ASSUME Deciding
    PROVE  /\ end \in 0..Len(content)
           /\ Converted(content) \in 0..end
           /\ \A i \in 1..end : content[i] # "NUL"
<1>. DEFINE n == Converted(content)
            l == Len(content)
            p == Part(content, 1, n)
<1>1. content \in Seq(STRING) /\ n \in 0..l /\ l \in Nat /\ (n > 0 => IsConverted(p))
      BY ConvertedIsLongest, LenProperties DEF Deciding
<1>2. end \in n..l /\ \A i \in n+1..end : content[i] \in Space
      BY DEF Deciding, Stopped
<1>3. p \in Seq(STRING) /\ Len(p) = n /\ \A i \in 1..n : p[i] = content[i]
      BY <1>1, FirstPart
<1>4. n > 0 => \A i \in 1..n : content[i] # "NUL"
      <2>1. SUFFICES ASSUME n > 0, NEW i \in 1..n PROVE content[i] # "NUL"
            OBVIOUS
      <2>2. IsConverted(p) /\ p \in Seq(STRING) /\ i \in 1..Len(p) /\ content[i] = p[i]
            BY <1>1, <1>3, <2>1
      <2>. HIDE DEF p
      <2>3. p[i] # "NUL"
            BY <2>2, ConvertedChars
      <2>. QED BY <2>2, <2>3
<1>5. \A i \in n+1..end : content[i] # "NUL"
      BY <1>2 DEF Space
<1>6. end \in 0..l /\ n \in 0..end /\ \A i \in 1..end : content[i] # "NUL"
      <2>. HIDE DEF n, l, p
      <2>1. end \in 0..l /\ n \in 0..end
            BY <1>1, <1>2
      <2>2. \A i \in 1..end : (n > 0 /\ i \in 1..n) \/ i \in n+1..end
            BY <1>1, <1>2
      <2>. QED BY <1>4, <1>5, <2>1, <2>2
<1>. QED BY <1>6

\* Nothing but the number and spaces, up to the NUL.
LEMMA NothingLeft ==
    ASSUME Deciding, AtEnd = "NUL", end # 0
    PROVE  CString = Part(content, 1, end) /\ CString # <<>> /\ Trimmed(CString) = num
<1>. DEFINE n == Converted(content)
            l == Len(content)
            c == Part(content, 1, end)
<1>1. /\ end \in 0..l /\ n \in 0..end /\ \A i \in 1..end : content[i] # "NUL"
      /\ content = Unescaped /\ content \in Seq(STRING) /\ l \in Nat
      BY NoNulBeforeEnd, LenProperties DEF Deciding
<1>2. end = l \/ content[end + 1] = "NUL"
      BY DEF AtEnd
<1>3. CString = c
      BY <1>1, <1>2, CStringStops
<1>4. c \in Seq(STRING) /\ Len(c) = end /\ \A i \in 1..end : c[i] = content[i]
      BY <1>1, FirstPart
<1>5. c # <<>>
      BY <1>4, EmptySeq
<1>6. num = Part(content, 1, n) /\ \A i \in n+1..end : content[i] \in Space
      BY DEF Deciding, Stopped
<1>7. n > 0 => content[n] \notin Space
      <2>. DEFINE p == Part(content, 1, n)
      <2>1. SUFFICES ASSUME n > 0 PROVE content[n] \notin Space
            OBVIOUS
      <2>2. n \in 0..l
            BY ConvertedIsLongest, <1>1
      <2>3. p \in Seq(STRING) /\ Len(p) = n /\ \A i \in 1..n : p[i] = content[i]
            BY <1>1, <2>2, FirstPart
      <2>4. IsConverted(p)
            BY <1>1, <2>1, ConvertedIsLongest
      <2>5. p[Len(p)] \notin Space
            <3>. HIDE DEF p
            <3>. QED BY <2>3, <2>4, ConvertedChars
      <2>6. n \in 1..n
            <3>. HIDE DEF n, l
            <3>. QED BY <1>1, <2>1
      <2>. QED BY <2>3, <2>5, <2>6
<1>8. PICK m \in 0..Len(c) : /\ Trimmed(c) = Part(c, 1, m)
                             /\ m > 0 => c[m] \notin Space
                             /\ \A i \in m+1..Len(c) : c[i] \in Space
      <2>. HIDE DEF c
      <2>. QED BY <1>4, TrimmedTo
<1>9. m = n
      <2>. HIDE DEF n, l, c
      <2>1. m \in 0..end /\ (m > 0 => c[m] \notin Space) /\ \A i \in m+1..end : c[i] \in Space
            BY <1>4, <1>8
      <2>2. CASE m < n
            <3>1. n \in m+1..end /\ n \in 1..end /\ n > 0
                  BY <1>1, <2>1, <2>2
            <3>. QED BY <1>4, <1>7, <2>1, <3>1
      <2>3. CASE m > n
            <3>1. m \in n+1..end /\ m \in 1..end /\ m > 0
                  BY <1>1, <2>1, <2>3
            <3>. QED BY <1>4, <1>6, <2>1, <3>1
      <2>. QED BY <1>1, <2>1, <2>2, <2>3
<1>10. Part(c, 1, m) = Part(content, 1, n)
      BY <1>1, <1>9, PartOfPart
<1>11. Trimmed(c) = num
       <2>. HIDE DEF c
       <2>. QED BY <1>6, <1>8, <1>10
<1>. QED BY <1>3, <1>5, <1>11

\* Something is left, or there was no number and no space: strtod cannot read what
\* there is.
LEMMA SomethingLeft ==
    ASSUME Deciding, end = 0 \/ AtEnd # "NUL"
    PROVE  ~Reads
<1>. DEFINE n == Converted(content)
            l == Len(content)
            c == CString
<1>1. /\ end \in 0..l /\ n \in 0..end /\ \A i \in 1..end : content[i] # "NUL"
      /\ content = Unescaped /\ content \in Seq(STRING) /\ content # <<>> /\ l \in Nat
      BY NoNulBeforeEnd, LenProperties DEF Deciding
<1>2. n \in 0..l /\ \A i \in 1..l : IsConverted(Part(content, 1, i)) => i <= n
      BY <1>1, ConvertedIsLongest
<1>3. CASE AtEnd # "NUL"
      <2>1. end # l /\ content[end + 1] # "NUL" /\ content[end + 1] \notin Space
            BY <1>3 DEF Deciding, AtEnd
      <2>2. end < l
            <3>. HIDE DEF n, l
            <3>. QED BY <1>1, <2>1
      <2>3. PICK m \in end+1..l : c = Part(content, 1, m)
            BY <1>1, <2>1, <2>2, CStringStops
      <2>4. m \in 0..l
            <3>. HIDE DEF n, l
            <3>. QED BY <1>1, <2>3
      <2>5. c \in Seq(STRING) /\ Len(c) = m /\ \A i \in 1..m : c[i] = content[i]
            BY <1>1, <2>3, <2>4, FirstPart
      <2>. HIDE DEF c
      <2>6. PICK k \in 0..Len(c) : /\ Trimmed(c) = Part(c, 1, k)
                                    /\ \A i \in k+1..Len(c) : c[i] \in Space
            BY <2>5, TrimmedTo
      <2>7. k \in end+1..l
            <3>1. k \in 0..m /\ \A i \in k+1..m : c[i] \in Space
                  BY <2>5, <2>6
            <3>. HIDE DEF n, l
            <3>2. CASE k < end + 1
                  <4>1. end + 1 \in k+1..m /\ end + 1 \in 1..m
                        BY <1>1, <2>3, <3>1, <3>2
                  <4>. QED BY <2>1, <2>5, <3>1, <4>1
            <3>3. CASE ~(k < end + 1)
                  BY <1>1, <2>3, <3>1, <3>3
            <3>. QED BY <3>2, <3>3
      <2>8. Trimmed(c) = Part(content, 1, k)
            <3>1. k \in 0..m
                  BY <2>5, <2>6
            <3>. QED BY <1>1, <2>3, <2>4, <2>6, <3>1, PartOfPart
      <2>9. k \in 1..l /\ ~(k <= n)
            <3>. HIDE DEF n, l
            <3>. QED BY <1>1, <2>7
      <2>10. ~IsConverted(Trimmed(c))
            BY <1>2, <2>8, <2>9
      <2>11. Trimmed(c) # <<>>
            <3>1. k \in 0..l
                  <4>. HIDE DEF n, l
                  <4>. QED BY <1>1, <2>9
            <3>2. Len(Part(content, 1, k)) = k
                  BY <1>1, <3>1, FirstPart
            <3>3. k # 0
                  BY <2>9
            <3>. QED BY <2>8, <3>2, <3>3, EmptySeq
      <2>. QED BY <1>1, <2>10, <2>11 DEF Reads, c
<1>4. CASE end = 0 /\ AtEnd = "NUL"
      <2>1. end = l \/ content[end + 1] = "NUL"
            BY <1>4 DEF AtEnd
      <2>2. c = Part(content, 1, 0)
            BY <1>1, <1>4, <2>1, CStringStops
      <2>3. 0 \in 0..l
            BY <1>1
      <2>4. Part(content, 1, 0) \in Seq(STRING) /\ Len(Part(content, 1, 0)) = 0
            BY <1>1, <2>3, FirstPart
      <2>5. c = <<>>
            BY <2>2, <2>4, EmptySeq
      <2>. HIDE DEF c
      <2>6. Trimmed(c) = <<>>
            <3>1. c \in Seq(STRING) /\ Len(c) = 0
                  BY <2>5, EmptySeq
            <3>2. PICK k \in 0..Len(c) : Trimmed(c) = Part(c, 1, k)
                  BY <3>1, TrimmedTo
            <3>3. k = 0 /\ 0 \in 0..Len(c)
                  BY <3>1, <3>2
            <3>4. Part(c, 1, 0) \in Seq(STRING) /\ Len(Part(c, 1, 0)) = 0
                  BY <3>1, <3>3, FirstPart
            <3>. QED BY <3>2, <3>3, <3>4, EmptySeq
      <2>. QED BY <1>1, <2>5, <2>6, NothingIsNotConverted DEF Reads, c
<1>. QED BY <1>3, <1>4

\* A part strtod has converted is what it converts.
LEMMA NumberLeft ==
    ASSUME Deciding, AtEnd = "NUL", end # 0
    PROVE  Reads
<1>1. CString # <<>> /\ Trimmed(CString) = num
      BY NothingLeft
<1>2. content \in Seq(STRING) /\ num = Part(content, 1, Converted(content))
      BY DEF Deciding, Stopped
<1>3. Converted(content) \in 0..Len(content) /\ Len(content) \in Nat
      BY <1>2, ConvertedIsLongest, LenProperties
<1>4. CASE Converted(content) > 0
      BY <1>1, <1>2, <1>4, ConvertedIsLongest DEF Reads
<1>5. CASE Converted(content) = 0
      <2>1. num \in Seq(STRING) /\ Len(num) = 0
            BY <1>2, <1>3, <1>5, FirstPart
      <2>. QED BY <1>1, <2>1, EmptySeq DEF Reads
<1>. QED BY <1>3, <1>4, <1>5

LEMMA DecidedIsTold ==
    ASSUME Deciding
    PROVE  Decided = Told
<1>1. CASE end = 0 \/ AtEnd # "NUL"
      BY <1>1, SomethingLeft DEF Decided, Told, Deciding
<1>2. CASE end # 0 /\ AtEnd = "NUL"
      BY <1>2, NothingLeft, NumberLeft DEF Decided, Told
<1>. QED BY <1>1, <1>2

\* A formula reads no text as zero.
LEMMA NothingIsTold ==
    ASSUME Unescaped = <<>>
    PROVE  Told = Zero
<1>1. CString = <<>>
      <2>1. <<>> \in Seq(STRING) /\ Len(<<>>) = 0 /\ DOMAIN <<>> = {}
            BY EmptySeq
      <2>. QED BY <2>1 DEF CString
<1>2. Trimmed(<<>>) = <<>>
      <2>1. <<>> \in Seq(STRING) /\ Len(<<>>) = 0
            BY EmptySeq
      <2>2. PICK k \in 0..Len(<<>>) : Trimmed(<<>>) = Part(<<>>, 1, k)
            BY <2>1, TrimmedTo
      <2>3. k = 0 /\ 0 \in 0..Len(<<>>)
            BY <2>1, <2>2
      <2>4. Part(<<>>, 1, 0) \in Seq(STRING) /\ Len(Part(<<>>, 1, 0)) = 0
            BY <2>1, <2>3, FirstPart
      <2>. QED BY <2>2, <2>3, <2>4, EmptySeq
<1>3. IsFinite(<<>>)
      <2>1. DOMAIN <<>> = {}
            OBVIOUS
      <2>. QED BY <2>1 DEF IsFinite
<1>. QED BY <1>1, <1>2, <1>3 DEF Told, Reads, Zero

\* What GetValue returns is what the text is to strtod, without the spaces at its
\* end and up to a NUL.
THEOREM TextIsNumberOrText == TextCellSpec => []NumberOrText
<1>1. TextCellInv => NumberOrText
      <2>1. SUFFICES ASSUME TextCellInv, line = "returned" PROVE value = Told
            BY DEF NumberOrText, Told, Reads
      <2>2. content = Unescaped /\ content \in Seq(STRING)
            BY <2>1 DEF TextCellInv
      <2>3. CASE content = <<>> /\ value = Zero
            BY <2>2, <2>3, NothingIsTold
      <2>4. CASE content # <<>> /\ Stopped /\ AtEnd \notin Space /\ value = Decided
            BY <2>2, <2>4, DecidedIsTold DEF Deciding
      <2>. QED BY <2>1, <2>3, <2>4 DEF TextCellInv
<1>. QED BY TextCellInvHolds, <1>1, PTL
===========================================================================
