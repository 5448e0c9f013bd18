---------------------------- MODULE ScannerProofs ----------------------------
(***************************************************************************)
(* What the Scanner makes of a source of any length: lines are counted,    *)
(* and every lexeme is the longest one and becomes its token. The second   *)
(* half reads the predicates on texts as predicates on positions of the    *)
(* source, as the loops of the scanner move along it.                      *)
(***************************************************************************)
EXTENDS Scanner, RecursionTheorems, FiniteSetTheorems

-----------------------------------------------------------------------------
(* Positions. *)

Modes == {"scan", "comment", "block", "string", "number", "fraction", "identifier", "done"}

Positions ==
  /\ source \in Seq(Chars)
  /\ start \in Nat /\ current \in Nat
  /\ start <= current /\ current <= Len(source)
  /\ line \in Nat
  /\ mode \in Modes

LEMMA LengthNatural == Positions => Len(source) \in Nat /\ DOMAIN source = 1..Len(source)
  BY LenProperties DEF Positions

\* One character more, or two of which the second is no newline, are consumed.
LEMMA Counting ==
  ASSUME Positions, LinesCounted, NEW n \in {1, 2}, current + n <= Len(source), source' = source,
         n = 2 => source[current + 2] # Newline, Advance(n)
  PROVE  LinesCounted' /\ line' \in Nat /\ current' = current + n
<1>1. Len(source) \in Nat /\ current \in Nat /\ line \in Nat /\ current' = current + n
  BY LengthNatural DEF Positions, Advance
<1> DEFINE newlines == {i \in 1..current : source[i] = Newline}
           newlines1 == {i \in 1..current + n : source[i] = Newline}
<1>2. IsFiniteSet(newlines) /\ Cardinality(newlines) \in Nat
  <2>1. IsFiniteSet(1..current)
    BY <1>1, FS_Interval
  <2>2. newlines \subseteq 1..current
    OBVIOUS
  <2> QED
    BY <2>1, <2>2, FS_Subset, FS_CardinalityType
<1>3. Peek = source[current + 1]
  BY <1>1 DEF Peek, Ahead
<1>4. line = 1 + Cardinality(newlines)
  BY DEF LinesCounted
<1>5. LinesCounted' <=> line' = 1 + Cardinality(newlines1)
  BY <1>1 DEF LinesCounted, Newline
<1>6. CASE Peek = Newline
  <2>1. newlines1 = newlines \cup {current + 1} /\ current + 1 \notin newlines
    <3>1. \A i \in 1..current + n : i \in 1..current \/ i = current + 1 \/ (n = 2 /\ i = current + 2)
      BY <1>1
    <3>2. source[current + 1] = Newline /\ current + 1 \in 1..current + n /\ current + 1 \notin 1..current
      BY <1>1, <1>3, <1>6
    <3>3. 1..current \subseteq 1..current + n
      BY <1>1
    <3> QED
      BY <3>1, <3>2, <3>3
  <2>2. Cardinality(newlines1) = Cardinality(newlines) + 1
    BY <1>2, <2>1, FS_AddElement
  <2>3. line' = line + 1
    BY <1>6 DEF Advance
  <2> QED
    BY <1>1, <1>2, <1>4, <1>5, <2>2, <2>3
<1>7. CASE Peek # Newline
  <2>1. newlines1 = newlines
    BY <1>1, <1>3, <1>7
  <2>2. line' = line
    BY <1>7 DEF Advance
  <2> QED
    BY <1>1, <1>4, <1>5, <2>1, <2>2
<1> QED
  BY <1>1, <1>6, <1>7

LEMMA PositionsStep ==
  ASSUME Positions, LinesCounted, Next
  PROVE  Positions' /\ LinesCounted' /\ source' = source
<1>0. /\ Len(source) \in Nat /\ current \in Nat /\ line \in Nat /\ start \in Nat
      /\ start <= current /\ current <= Len(source)
  BY LengthNatural DEF Positions
<1>1. ASSUME UNCHANGED <<source, current, line>> PROVE LinesCounted'
  BY <1>1 DEF LinesCounted, Newline
<1>2. ASSUME source' = source, Advance(1), current < Len(source)
      PROVE  LinesCounted' /\ line' \in Nat /\ current' = current + 1
  BY <1>0, <1>2, Counting
<1>3. ~AtEnd => current < Len(source)
  BY <1>0 DEF AtEnd
<1>4. \A n \in {1, 2} : \A c \in STRING : Ahead(n) = c /\ c # "end" => current + n <= Len(source) /\ source[current + n] = c
  BY <1>0 DEF Ahead
<1>5. CASE ScanToken
  <2>0. Loop(Peek) \in Modes
    BY DEF Loop, Modes
  <2>1. current < Len(source) /\ start' = current /\ source' = source /\ Advance(Length(Peek))
    BY <1>3, <1>5 DEF ScanToken
  <2>2. CASE Length(Peek) = 1
    BY <1>0, <1>2, <1>5, <2>0, <2>1, <2>2 DEF ScanToken, Positions
  <2>3. CASE Length(Peek) # 1
    <3>1. Length(Peek) = 2 /\ Ahead(2) \in {"/", "*", "="}
      BY <2>3 DEF Length, Loop
    <3>2. current + 2 <= Len(source) /\ source[current + 2] # Newline
      BY <1>0, <3>1 DEF Ahead, Newline
    <3>3. LinesCounted' /\ line' \in Nat /\ current' = current + 2
      BY <2>1, <3>1, <3>2, Counting
    <3> QED
      BY <1>0, <1>5, <2>0, <2>1, <3>2, <3>3 DEF ScanToken, Positions
  <2> QED
    BY <2>2, <2>3
<1>6. CASE LineComment
  BY <1>0, <1>1, <1>2, <1>3, <1>6 DEF LineComment, InLexeme, Positions, Modes
<1>7. CASE BlockComment
  <2>1. CASE Peek = "*" /\ Ahead(2) = "/" /\ Advance(2)
    <3>1. current + 2 <= Len(source) /\ source[current + 2] # Newline
      BY <1>0, <2>1 DEF Ahead, Newline
    <3>2. LinesCounted' /\ line' \in Nat /\ current' = current + 2
      BY <1>7, <2>1, <3>1, Counting DEF BlockComment, InLexeme
    <3>3. mode' \in Modes
      BY <1>7 DEF BlockComment, Modes
    <3> QED
      BY <1>0, <1>7, <3>1, <3>2, <3>3 DEF BlockComment, InLexeme, Positions
  <2>2. CASE AtEnd /\ mode' = "scan" /\ UNCHANGED <<current, line>>
    BY <1>0, <1>1, <1>7, <2>2 DEF BlockComment, InLexeme, Positions, Modes
  <2>3. CASE ~AtEnd /\ Advance(1) /\ UNCHANGED mode
    BY <1>0, <1>2, <1>3, <1>7, <2>3 DEF BlockComment, InLexeme, Positions, Modes
  <2>4. \/ Peek = "*" /\ Ahead(2) = "/" /\ Advance(2)
        \/ AtEnd /\ mode' = "scan" /\ UNCHANGED <<current, line>>
        \/ ~AtEnd /\ Advance(1) /\ UNCHANGED mode
    BY <1>7 DEF BlockComment
  <2> QED
    BY <2>1, <2>2, <2>3, <2>4
<1>8. CASE String
  <2>1. Peek = "q" => ~AtEnd
    BY <1>0 DEF Peek, Ahead, AtEnd
  <2>2. \/ mode' = "scan" /\ UNCHANGED <<current, line>>
        \/ ~AtEnd /\ Advance(1) /\ mode' \in {"scan", "string"}
    BY <1>8, <2>1 DEF String
  <2>3. CASE mode' = "scan" /\ UNCHANGED <<current, line>>
    BY <1>0, <1>1, <1>8, <2>3 DEF String, InLexeme, Positions, Modes
  <2>4. CASE ~AtEnd /\ Advance(1) /\ mode' \in {"scan", "string"}
    BY <1>0, <1>2, <1>3, <1>8, <2>4 DEF String, InLexeme, Positions, Modes
  <2> QED
    BY <2>2, <2>3, <2>4
<1>9. CASE Number
  <2>1. Peek \in Digits \/ Peek = "." => current < Len(source)
    BY <1>0 DEF Peek, Ahead, Digits
  <2> QED
    BY <1>0, <1>1, <1>2, <1>9, <2>1 DEF Number, InLexeme, Positions, Modes
<1>10. CASE Identifier
  <2>0. "end" \notin Letters \cup Digits
    BY LettersApart DEF Digits
  <2>1. Peek \in Letters \cup Digits => current < Len(source)
    BY <1>0, <2>0 DEF Peek, Ahead
  <2> QED
    BY <1>0, <1>1, <1>2, <1>10, <2>1 DEF Identifier, InLexeme, Positions, Modes
<1>11. CASE EndOfFile
  BY <1>0, <1>1, <1>11 DEF EndOfFile, Positions, Modes
<1> QED
  BY <1>5, <1>6, <1>7, <1>8, <1>9, <1>10, <1>11 DEF Next

LEMMA PositionsStart == Init => Positions /\ LinesCounted
<1> SUFFICES ASSUME Init PROVE Positions /\ LinesCounted
  OBVIOUS
<1>1. PICK n \in 0..MaxLength : source \in [1..n -> Chars]
  BY DEF Init
<1>2. n \in Nat /\ source \in Seq(Chars) /\ Len(source) \in Nat
  BY <1>1, LengthIsNatural, LenProperties, SeqDef
<1>3. {i \in 1..0 : source[i] = Newline} = {}
  OBVIOUS
<1>4. Cardinality({}) = 0
  BY FS_EmptySet
<1> QED
  BY <1>2, <1>3, <1>4 DEF Init, Positions, Modes, LinesCounted

(* The line that tokens and errors are given counts the newlines consumed, in a
   source of any length, whichever loop consumes them (scanner.cc:93-95, 114,
   168). *)
THEOREM CountsLines == Spec => []LinesCounted
<1>1. Positions /\ LinesCounted /\ UNCHANGED vars => (Positions /\ LinesCounted)'
  BY DEF vars, Positions, LinesCounted, Newline
<1>2. Positions /\ LinesCounted /\ [Next]_vars => (Positions /\ LinesCounted)'
  BY <1>1, PositionsStep
<1> QED
  BY PositionsStart, <1>2, PTL DEF Spec

-----------------------------------------------------------------------------
(* Lexemes, as what the source has between two positions. *)

DigitsTo(src, st, n) == \A i \in st + 1..n : src[i] \in Digits
FractionAt(src, st, n, d) ==
  src[d] = "." /\ \A i \in st + 1..n : i # d => src[i] \in Digits
NumberTo(src, st, n) ==
  DigitsTo(src, st, n) \/ \E d \in st + 2..n - 1 : FractionAt(src, st, n, d)

IdentifierTo(src, st, n) ==
  src[st + 1] \in Letters /\ \A i \in st + 1..n : src[i] \in Letters \cup Digits

StringTo(src, st, n, last) ==
  /\ src[st + 1] = "q" /\ \A i \in st + 2..n - 1 : src[i] # "q"
  /\ last \/ (n > st + 1 /\ src[n] = "q")

LineTo(src, st, n) ==
  /\ n > st + 1 /\ src[st + 1] = "/" /\ src[st + 2] = "/"
  /\ \A i \in st + 1..n : src[i] # Newline

Closes(src, i) == src[i] = "*" /\ src[i + 1] = "/"

BlockTo(src, st, n, last) ==
  /\ n > st + 1 /\ src[st + 1] = "/" /\ src[st + 2] = "*"
  /\ \A i \in st + 3..n - 2 : ~Closes(src, i)
  /\ last \/ \E i \in st + 3..n - 1 : Closes(src, i)

EqualsTo(src, st, n) == n = st + 2 /\ src[st + 1] = "=" /\ src[st + 2] = "="

LexemeTo(src, st, n, last) ==
  \/ n = st + 1 \/ EqualsTo(src, st, n)
  \/ NumberTo(src, st, n) \/ IdentifierTo(src, st, n) \/ StringTo(src, st, n, last)
  \/ LineTo(src, st, n) \/ BlockTo(src, st, n, last)

LEMMA Part ==
  ASSUME NEW src \in Seq(Chars), NEW st \in Nat, NEW n \in st + 1..Len(src)
  PROVE  /\ SubSeq(src, st + 1, n) \in Seq(Chars) /\ Len(SubSeq(src, st + 1, n)) = n - st
         /\ \A i \in 1..n - st : SubSeq(src, st + 1, n)[i] = src[st + i]
<1>1. Len(src) \in Nat /\ n \in Nat /\ st + 1 \in Nat
  BY LenProperties
<1>2. \A i \in st + 1..n : src[i] \in Chars
  BY <1>1, ElementOfSeq
<1>3. PICK m : m = st + 1
  OBVIOUS
<1>4. m \in 1..n + 1 /\ \A i \in m..n : src[i] \in Chars
  BY <1>1, <1>2, <1>3
<1>5. /\ SubSeq(src, m, n) \in Seq(Chars)
      /\ Len(SubSeq(src, m, n)) = IF m <= n THEN n - m + 1 ELSE 0
      /\ \A i \in 1..n - m + 1 : SubSeq(src, m, n)[i] = src[m + i - 1]
  BY <1>1, <1>4, SubSeqProperties
<1>6. \A i \in 1..n - st : m + i - 1 = st + i /\ i \in 1..n - m + 1
  BY <1>1, <1>3
<1> QED
  BY <1>1, <1>3, <1>5, <1>6

TextOf(a, b) == <<a, b>>

LEMMA Two ==
  ASSUME NEW t \in Seq(Chars), Len(t) = 2, NEW a, NEW b
  PROVE  t = TextOf(a, b) <=> t[1] = a /\ t[2] = b
  BY DEF TextOf

LEMMA Pair ==
  ASSUME NEW s \in Seq(Chars), NEW i \in 1..Len(s) - 1, NEW a, NEW b
  PROVE  SubSeq(s, i, i + 1) = TextOf(a, b) <=> s[i] = a /\ s[i + 1] = b
<1>1. Len(s) \in Nat /\ i \in Nat
  BY LenProperties
<1>2. PICK j \in Nat : i = j + 1
  BY <1>1
<1>3. PICK n \in j + 1..Len(s) : n = i + 1
  BY <1>1, <1>2
<1>4. PICK t : t = SubSeq(s, j + 1, n)
  OBVIOUS
<1>5. t \in Seq(Chars) /\ Len(t) = n - j /\ \A k \in 1..n - j : t[k] = s[j + k]
  BY <1>4, Part
<1>6. Len(t) = 2 /\ t[1] = s[i] /\ t[2] = s[i + 1]
  BY <1>1, <1>2, <1>3, <1>5
<1>7. t = TextOf(a, b) <=> t[1] = a /\ t[2] = b
  <2>1. t \in Seq(Chars) /\ Len(t) = 2
    BY <1>5, <1>6
  <2> QED
    BY <2>1, Two
<1> QED
  BY <1>2, <1>3, <1>4, <1>6, <1>7

IsPart(src, st, n, s) == s = SubSeq(src, st + 1, n)

LEMMA Between ==
  ASSUME NEW src \in Seq(Chars), NEW st \in Nat, NEW n \in st + 1..Len(src),
         NEW s, IsPart(src, st, n, s)
  PROVE  /\ n - st \in Nat \ {0} /\ s \in Seq(Chars) /\ Len(s) = n - st /\ DOMAIN s = 1..n - st
         /\ s[1] = src[st + 1] /\ s[Len(s)] = src[n]
         /\ \A i \in 1..n - st : s[i] = src[st + i] /\ st + i \in st + 1..n
         /\ \A j \in st + 1..n : src[j] = s[j - st] /\ j - st \in 1..n - st
<1>1. n \in Nat /\ n - st \in Nat \ {0} /\ Len(src) \in Nat
  BY LenProperties
<1>2. s \in Seq(Chars) /\ Len(s) = n - st /\ \A i \in 1..n - st : s[i] = src[st + i]
  BY Part DEF IsPart
<1>3. DOMAIN s = 1..n - st
  BY <1>2, LenProperties
<1> QED
  BY <1>1, <1>2, <1>3

LEMMA NumberBetween ==
  ASSUME NEW src \in Seq(Chars), NEW st \in Nat, NEW n \in st + 1..Len(src),
         NEW s, IsPart(src, st, n, s)
  PROVE  IsNumber(s) <=> NumberTo(src, st, n)
<1>1. /\ n - st \in Nat \ {0} /\ Len(s) = n - st /\ DOMAIN s = 1..n - st /\ n \in Nat
      /\ \A i \in 1..n - st : s[i] = src[st + i] /\ st + i \in st + 1..n
      /\ \A j \in st + 1..n : src[j] = s[j - st] /\ j - st \in 1..n - st
  BY Between
<1>2. In(Digits, s) <=> DigitsTo(src, st, n)
  BY <1>1 DEF In, DigitsTo
<1>3. ASSUME NEW i \in 2..Len(s) - 1, s[i] = ".", \A j \in DOMAIN s \ {i} : s[j] \in Digits
      PROVE  \E d \in st + 2..n - 1 : FractionAt(src, st, n, d)
  <2>1. st + i \in st + 2..n - 1 /\ src[st + i] = "."
    BY <1>1, <1>3
  <2>2. ASSUME NEW j \in st + 1..n, j # st + i PROVE src[j] \in Digits
    <3>1. PICK k : k = j - st
      OBVIOUS
    <3>2. k \in DOMAIN s \ {i} /\ src[j] = s[k]
      BY <1>1, <2>2, <3>1
    <3> QED
      BY <1>3, <3>2
  <2> QED
    BY <2>1, <2>2 DEF FractionAt
<1>4. ASSUME NEW d \in st + 2..n - 1, FractionAt(src, st, n, d)
      PROVE  \E i \in 2..Len(s) - 1 : s[i] = "." /\ \A j \in DOMAIN s \ {i} : s[j] \in Digits
  <2>1. d - st \in 2..Len(s) - 1 /\ s[d - st] = "."
    BY <1>1, <1>4 DEF FractionAt
  <2>2. ASSUME NEW j \in DOMAIN s \ {d - st} PROVE s[j] \in Digits
    <3>1. st + j \in st + 1..n /\ st + j # d /\ s[j] = src[st + j]
      BY <1>1
    <3> QED
      BY <1>4, <3>1 DEF FractionAt
  <2> QED
    BY <2>1, <2>2
<1> QED
  BY <1>2, <1>3, <1>4 DEF IsNumber, NumberTo

LEMMA IdentifierBetween ==
  ASSUME NEW src \in Seq(Chars), NEW st \in Nat, NEW n \in st + 1..Len(src),
         NEW s, IsPart(src, st, n, s)
  PROVE  IsIdentifier(s) <=> IdentifierTo(src, st, n)
<1>1. /\ DOMAIN s = 1..n - st /\ s[1] = src[st + 1]
      /\ \A i \in 1..n - st : s[i] = src[st + i] /\ st + i \in st + 1..n
      /\ \A j \in st + 1..n : src[j] = s[j - st] /\ j - st \in 1..n - st
  BY Between
<1>2. In(Letters \cup Digits, s) <=> \A i \in st + 1..n : src[i] \in Letters \cup Digits
  BY <1>1 DEF In
<1> QED
  BY <1>1, <1>2 DEF IsIdentifier, IdentifierTo

LEMMA StringBetween ==
  ASSUME NEW src \in Seq(Chars), NEW st \in Nat, NEW n \in st + 1..Len(src),
         NEW s, IsPart(src, st, n, s), NEW last \in BOOLEAN
  PROVE  IsString(s, last) <=> StringTo(src, st, n, last)
<1>1. /\ n - st \in Nat \ {0} /\ Len(s) = n - st /\ DOMAIN s = 1..n - st /\ n \in Nat
      /\ s[1] = src[st + 1] /\ s[Len(s)] = src[n]
      /\ \A i \in 1..n - st : s[i] = src[st + i] /\ st + i \in st + 1..n
      /\ \A j \in st + 1..n : src[j] = s[j - st] /\ j - st \in 1..n - st
  BY Between
<1>2. (\A i \in 2..Len(s) - 1 : s[i] # "q") <=> \A j \in st + 2..n - 1 : src[j] # "q"
  <2>1. ASSUME \A i \in 2..Len(s) - 1 : s[i] # "q", NEW j \in st + 2..n - 1
        PROVE  src[j] # "q"
    <3>1. j - st \in 2..Len(s) - 1 /\ src[j] = s[j - st]
      BY <1>1
    <3> QED
      BY <2>1, <3>1
  <2>2. ASSUME \A j \in st + 2..n - 1 : src[j] # "q", NEW i \in 2..Len(s) - 1
        PROVE  s[i] # "q"
    <3>1. st + i \in st + 2..n - 1 /\ s[i] = src[st + i]
      BY <1>1
    <3> QED
      BY <2>2, <3>1
  <2> QED
    BY <2>1, <2>2
<1>3. Len(s) > 1 <=> n > st + 1
  <2>1. Len(s) > 1 => n > st + 1
    BY <1>1
  <2>2. n > st + 1 => Len(s) > 1
    BY <1>1
  <2> QED
    BY <2>1, <2>2
<1> QED
  BY <1>1, <1>2, <1>3 DEF IsString, StringTo

LEMMA CommentBetween ==
  ASSUME NEW src \in Seq(Chars), NEW st \in Nat, NEW n \in st + 1..Len(src),
         NEW s, IsPart(src, st, n, s), NEW last \in BOOLEAN
  PROVE  IsComment(s, last) <=> LineTo(src, st, n) \/ BlockTo(src, st, n, last)
<1>0. n \in Nat
  BY LenProperties
<1>1. /\ n - st \in Nat \ {0} /\ Len(s) = n - st /\ DOMAIN s = 1..n - st /\ n \in Nat
      /\ s \in Seq(Chars) /\ s[1] = src[st + 1]
      /\ \A i \in 1..n - st : s[i] = src[st + i] /\ st + i \in st + 1..n
      /\ \A j \in st + 1..n : src[j] = s[j - st] /\ j - st \in 1..n - st
  BY <1>0, Between
<1> st \in Nat /\ s \in Seq(Chars) /\ Len(s) = n - st
  BY <1>1
<1>2. ASSUME NEW a, NEW b
      PROVE  Begins(<<a, b>>, s) <=> n > st + 1 /\ src[st + 1] = a /\ src[st + 2] = b
  <2>1. Len(<<a, b>>) = 2
    OBVIOUS
  <2>2. CASE n > st + 1
    <3>0. 2 \in 1..n - st
      BY <1>0, <2>2
    <3>1. Len(s) >= 2 /\ s[2] = src[st + 2]
      BY <1>1, <3>0
    <3>2. PICK k \in 1..Len(s) - 1 : k = 1 /\ k + 1 = 2
      BY <1>1, <2>2
    <3>3. SubSeq(s, k, k + 1) = TextOf(a, b) <=> s[k] = a /\ s[k + 1] = b
      BY Pair
    <3>4. SubSeq(s, 1, 2) = <<a, b>> <=> s[1] = a /\ s[2] = b
      BY <3>2, <3>3 DEF TextOf
    <3> QED
      BY <1>1, <2>1, <2>2, <3>1, <3>4 DEF Begins
  <2>3. CASE ~(n > st + 1)
    <3>1. ~(Len(s) >= 2)
      BY <1>1, <2>3
    <3> QED
      BY <2>1, <2>3, <3>1 DEF Begins
  <2> QED
    BY <2>2, <2>3
<1>3. ASSUME NEW m \in Nat, m <= Len(s)
      PROVE  HasBefore(<<"*", "/">>, s, m) <=> \E i \in st + 3..st + m - 1 : Closes(src, i)
  <2>1. \A i \in 3..m - 1 : SubSeq(s, i, i + 1) = <<"*", "/">> <=> Closes(src, st + i)
    <3> SUFFICES ASSUME NEW i \in 3..m - 1
                 PROVE  SubSeq(s, i, i + 1) = <<"*", "/">> <=> Closes(src, st + i)
      OBVIOUS
    <3>1. i \in 1..Len(s) - 1 /\ i \in 1..n - st /\ i + 1 \in 1..n - st /\ st + (i + 1) = (st + i) + 1
      BY <1>1, <1>3
    <3>2. s[i] = src[st + i] /\ s[i + 1] = src[(st + i) + 1]
      BY <1>1, <3>1
    <3>3. PICK a, b : a = "*" /\ b = "/"
      OBVIOUS
    <3>4. SubSeq(s, i, i + 1) = TextOf(a, b) <=> s[i] = a /\ s[i + 1] = b
      BY <3>1, Pair
    <3> QED
      BY <3>2, <3>3, <3>4 DEF Closes, TextOf
  <2>2. ASSUME NEW i \in 3..m - 1, Closes(src, st + i)
        PROVE  \E j \in st + 3..st + m - 1 : Closes(src, j)
    <3>1. st + i \in st + 3..st + m - 1
      BY <1>1, <1>3
    <3> QED
      BY <2>2, <3>1
  <2>3. ASSUME NEW j \in st + 3..st + m - 1, Closes(src, j)
        PROVE  \E i \in 3..m - 1 : Closes(src, st + i)
    <3>1. PICK i : i = j - st
      OBVIOUS
    <3>2. i \in 3..m - 1 /\ st + i = j
      BY <1>1, <1>3, <3>1
    <3> QED
      BY <2>3, <3>2
  <2> QED
    BY <2>1, <2>2, <2>3 DEF HasBefore
<1>4. Newline \notin {s[i] : i \in DOMAIN s} <=> \A i \in st + 1..n : src[i] # Newline
  <2>1. Newline \notin {s[i] : i \in DOMAIN s} <=> \A i \in 1..n - st : s[i] # Newline
    BY <1>1
  <2>2. (\A i \in 1..n - st : s[i] # Newline) <=> \A i \in st + 1..n : src[i] # Newline
    BY <1>1
  <2> QED
    BY <2>1, <2>2
<1>5. /\ HasBefore(<<"*", "/">>, s, Len(s)) <=> \E i \in st + 3..n - 1 : Closes(src, i)
      /\ HasBefore(<<"*", "/">>, s, Len(s) - 1) <=> \E i \in st + 3..n - 2 : Closes(src, i)
  <2>1. PICK m \in Nat : m = Len(s) /\ m - 1 \in Nat
    BY <1>1
  <2>2. PICK k \in Nat : k = Len(s) - 1
    BY <2>1
  <2>3. st + m - 1 = n - 1 /\ st + k - 1 = n - 2 /\ k <= Len(s) /\ m <= Len(s)
    BY <1>0, <2>1, <2>2
  <2> QED
    BY <1>3, <2>1, <2>2, <2>3
<1> QED
  BY <1>2, <1>4, <1>5 DEF IsComment, LineTo, BlockTo

LEMMA EqualsBetween ==
  ASSUME NEW src \in Seq(Chars), NEW st \in Nat, NEW n \in st + 1..Len(src),
         NEW s, IsPart(src, st, n, s)
  PROVE  s = TextOf("=", "=") <=> EqualsTo(src, st, n)
<1>1. /\ n - st \in Nat \ {0} /\ Len(s) = n - st /\ DOMAIN s = 1..n - st /\ n \in Nat
      /\ s \in Seq(Chars) /\ s[1] = src[st + 1]
      /\ \A i \in 1..n - st : s[i] = src[st + i]
  BY Between
<1>2. CASE n = st + 2
  <2>1. Len(s) = 2 /\ s[2] = src[st + 2]
    BY <1>1, <1>2
  <2>2. PICK a : a = "="
    OBVIOUS
  <2>3. s = TextOf(a, a) <=> s[1] = a /\ s[2] = a
    BY <1>1, <2>1, Two
  <2> QED
    BY <1>1, <1>2, <2>1, <2>2, <2>3 DEF EqualsTo
<1>3. CASE n # st + 2
  <2>1. Len(s) # 2
    BY <1>1, <1>3
  <2> QED
    BY <1>3, <2>1 DEF EqualsTo, TextOf
<1> QED
  BY <1>2, <1>3

LEMMA LexemeBetween ==
  ASSUME NEW src \in Seq(Chars), NEW st \in Nat, NEW n \in st + 1..Len(src),
         NEW s, IsPart(src, st, n, s), NEW last \in BOOLEAN
  PROVE  IsLexeme(s, last) <=> LexemeTo(src, st, n, last)
<1>0. n \in Nat /\ st \in Nat
  BY LenProperties
<1>1. Len(s) = n - st
  BY Between
<1>2. ASSUME Len(s) = 1 PROVE n = st + 1
  <2>1. n - st = 1
    BY <1>1, <1>2
  <2> QED
    BY <1>0, <2>1
<1>3. n = st + 1 => Len(s) = 1
  BY <1>0, <1>1
<1>4. IsNumber(s) <=> NumberTo(src, st, n)
  BY NumberBetween
<1>5. IsIdentifier(s) <=> IdentifierTo(src, st, n)
  BY IdentifierBetween
<1>6. IsString(s, last) <=> StringTo(src, st, n, last)
  BY StringBetween
<1>7. IsComment(s, last) <=> LineTo(src, st, n) \/ BlockTo(src, st, n, last)
  BY CommentBetween
<1>8. s = <<"=", "=">> <=> EqualsTo(src, st, n)
  BY EqualsBetween DEF TextOf
<1> QED
  BY <1>2, <1>3, <1>4, <1>5, <1>6, <1>7, <1>8 DEF IsLexeme, LexemeTo

-----------------------------------------------------------------------------
(* A lexeme is determined by its first character, a comment by its first two.  *)

LEMMA After ==
  ASSUME NEW src \in Seq(Chars), NEW st \in Nat, NEW n \in st + 2..Len(src),
         NEW last \in BOOLEAN, LexemeTo(src, st, n, last), NEW c, c = src[st + 1]
  PROVE  /\ c = "q" => StringTo(src, st, n, last)
         /\ c \in Digits => NumberTo(src, st, n)
         /\ c \in Letters => IdentifierTo(src, st, n)
         /\ c = "/" => \/ src[st + 2] = "/" /\ LineTo(src, st, n)
                       \/ src[st + 2] = "*" /\ BlockTo(src, st, n, last)
         /\ c = "=" => n = st + 2 /\ src[st + 2] = "="
         /\ c \in {"q", "/", "="} \cup Digits \cup Letters
<1>1. n \in Nat /\ n # st + 1 /\ st + 1 \in st + 1..n
  BY LenProperties
<1>2. NumberTo(src, st, n) => c \in Digits
  BY <1>1 DEF NumberTo, DigitsTo, FractionAt
<1>3. IdentifierTo(src, st, n) => c \in Letters
  BY DEF IdentifierTo
<1>4. StringTo(src, st, n, last) => c = "q"
  BY DEF StringTo
<1>5. LineTo(src, st, n) => c = "/" /\ src[st + 2] = "/"
  BY DEF LineTo
<1>6. BlockTo(src, st, n, last) => c = "/" /\ src[st + 2] = "*"
  BY DEF BlockTo
<1>7. EqualsTo(src, st, n) => c = "=" /\ n = st + 2 /\ src[st + 2] = "="
  BY DEF EqualsTo
<1>8. c \in Letters => c \notin {"1", "q", "/", "="}
  BY LettersApart
<1>9. \/ EqualsTo(src, st, n) \/ NumberTo(src, st, n) \/ IdentifierTo(src, st, n)
      \/ StringTo(src, st, n, last) \/ LineTo(src, st, n) \/ BlockTo(src, st, n, last)
  BY <1>1 DEF LexemeTo
<1> QED
  BY <1>2, <1>3, <1>4, <1>5, <1>6, <1>7, <1>8, <1>9 DEF Digits

Longest(src, st, cur) ==
  /\ LexemeTo(src, st, cur, cur = Len(src))
  /\ \A n \in cur + 1..Len(src) : ~LexemeTo(src, st, n, n = Len(src))

LEMMA OneLongest ==
  ASSUME NEW src \in Seq(Chars), NEW st \in Nat, NEW n \in st + 1..Len(src), n = st + 1,
         NEW c, c = src[st + 1], c \notin {"q"} \cup Digits \cup Letters,
         c = "/" /\ st + 2 <= Len(src) => src[st + 2] \notin {"/", "*"},
         c = "=" /\ st + 2 <= Len(src) => src[st + 2] # "="
  PROVE  Longest(src, st, n)
<1>1. Len(src) \in Nat
  BY LenProperties
<1>2. ASSUME NEW m \in st + 2..Len(src), LexemeTo(src, st, m, m = Len(src)) PROVE FALSE
  <2>1. st + 2 <= Len(src) /\ (m = Len(src)) \in BOOLEAN
    BY <1>1
  <2>2. /\ c = "/" => \/ src[st + 2] = "/" \/ src[st + 2] = "*"
        /\ c = "=" => src[st + 2] = "="
        /\ c \in {"q", "/", "="} \cup Digits \cup Letters
    BY <1>2, <2>1, After
  <2> QED
    BY <2>1, <2>2
<1>3. n + 1 = st + 2
  OBVIOUS
<1> QED
  BY <1>2, <1>3 DEF Longest, LexemeTo

LEMMA EqualsLongest ==
  ASSUME NEW src \in Seq(Chars), NEW st \in Nat, NEW n \in st + 1..Len(src), n = st + 2,
         src[st + 1] = "=", src[st + 2] = "="
  PROVE  Longest(src, st, n)
<1>1. Len(src) \in Nat
  BY LenProperties
<1>2. ASSUME NEW m \in n + 1..Len(src), LexemeTo(src, st, m, m = Len(src)) PROVE FALSE
  <2>1. m \in st + 2..Len(src) /\ (m = Len(src)) \in BOOLEAN /\ m # st + 2
    BY <1>1
  <2>2. m = st + 2
    BY <1>2, <2>1, After
  <2> QED
    BY <2>1, <2>2
<1> QED
  BY <1>2 DEF Longest, LexemeTo, EqualsTo

LEMMA LineLongest ==
  ASSUME NEW src \in Seq(Chars), NEW st \in Nat, NEW n \in st + 1..Len(src),
         LineTo(src, st, n), n < Len(src) => src[n + 1] = Newline
  PROVE  Longest(src, st, n)
<1>1. Len(src) \in Nat /\ n \in Nat
  BY LenProperties
<1>2. ASSUME NEW m \in n + 1..Len(src), LexemeTo(src, st, m, m = Len(src)) PROVE FALSE
  <2>1. m \in st + 2..Len(src) /\ (m = Len(src)) \in BOOLEAN /\ n < Len(src) /\ n + 1 \in st + 1..m
    BY <1>1
  <2>2. src[st + 1] = "/" /\ src[st + 2] = "/"
    BY DEF LineTo
  <2>3. LineTo(src, st, m)
    BY <1>2, <2>1, <2>2, After
  <2> QED
    BY <2>1, <2>3 DEF LineTo
<1> QED
  BY <1>2 DEF Longest, LexemeTo

LEMMA BlockLongest ==
  ASSUME NEW src \in Seq(Chars), NEW st \in Nat, NEW n \in st + 1..Len(src),
         BlockTo(src, st, n, n = Len(src)),
         n < Len(src) => n - 1 \in st + 3..Len(src) /\ Closes(src, n - 1)
  PROVE  Longest(src, st, n)
<1>1. Len(src) \in Nat /\ n \in Nat
  BY LenProperties
<1>2. ASSUME NEW m \in n + 1..Len(src), LexemeTo(src, st, m, m = Len(src)) PROVE FALSE
  <2>1. m \in st + 2..Len(src) /\ (m = Len(src)) \in BOOLEAN /\ n < Len(src)
    BY <1>1
  <2>2. src[st + 1] = "/" /\ src[st + 2] = "*"
    BY DEF BlockTo
  <2>3. BlockTo(src, st, m, m = Len(src))
    BY <1>2, <2>1, <2>2, After
  <2>4. n - 1 \in st + 3..m - 2 /\ Closes(src, n - 1)
    BY <1>1, <2>1
  <2> QED
    BY <2>3, <2>4 DEF BlockTo
<1> QED
  BY <1>2 DEF Longest, LexemeTo

LEMMA StringLongest ==
  ASSUME NEW src \in Seq(Chars), NEW st \in Nat, NEW n \in st + 1..Len(src),
         StringTo(src, st, n, n = Len(src)),
         n < Len(src) => n > st + 1 /\ src[n] = "q"
  PROVE  Longest(src, st, n)
<1>1. Len(src) \in Nat /\ n \in Nat
  BY LenProperties
<1>2. ASSUME NEW m \in n + 1..Len(src), LexemeTo(src, st, m, m = Len(src)) PROVE FALSE
  <2>1. m \in st + 2..Len(src) /\ (m = Len(src)) \in BOOLEAN /\ n < Len(src)
    BY <1>1
  <2>2. src[st + 1] = "q"
    BY DEF StringTo
  <2>3. StringTo(src, st, m, m = Len(src))
    BY <1>2, <2>1, <2>2, After
  <2>4. n \in st + 2..m - 1 /\ src[n] = "q"
    BY <1>1, <2>1
  <2> QED
    BY <2>3, <2>4 DEF StringTo
<1> QED
  BY <1>2 DEF Longest, LexemeTo

LEMMA IdentifierLongest ==
  ASSUME NEW src \in Seq(Chars), NEW st \in Nat, NEW n \in st + 1..Len(src),
         IdentifierTo(src, st, n),
         n < Len(src) => src[n + 1] \notin Letters \cup Digits
  PROVE  Longest(src, st, n)
<1>1. Len(src) \in Nat /\ n \in Nat
  BY LenProperties
<1>2. ASSUME NEW m \in n + 1..Len(src), LexemeTo(src, st, m, m = Len(src)) PROVE FALSE
  <2>1. m \in st + 2..Len(src) /\ (m = Len(src)) \in BOOLEAN /\ n < Len(src) /\ n + 1 \in st + 1..m
    BY <1>1
  <2>2. src[st + 1] \in Letters
    BY DEF IdentifierTo
  <2>3. IdentifierTo(src, st, m)
    BY <1>2, <2>1, <2>2, After
  <2> QED
    BY <2>1, <2>3 DEF IdentifierTo
<1> QED
  BY <1>2 DEF Longest, LexemeTo

LEMMA DigitsLongest ==
  ASSUME NEW src \in Seq(Chars), NEW st \in Nat, NEW n \in st + 1..Len(src),
         DigitsTo(src, st, n),
         n < Len(src) => src[n + 1] \notin Digits,
         n + 2 <= Len(src) => ~(src[n + 1] = "." /\ src[n + 2] \in Digits)
  PROVE  Longest(src, st, n)
<1>1. Len(src) \in Nat /\ n \in Nat
  BY LenProperties
<1>2. ASSUME NEW m \in n + 1..Len(src), LexemeTo(src, st, m, m = Len(src)) PROVE FALSE
  <2>1. /\ m \in st + 2..Len(src) /\ (m = Len(src)) \in BOOLEAN /\ n < Len(src)
        /\ n + 1 \in st + 1..m /\ st + 1 \in st + 1..n
    BY <1>1
  <2>2. src[st + 1] \in Digits /\ src[n + 1] \notin Digits
    BY <2>1 DEF DigitsTo
  <2>3. NumberTo(src, st, m)
    BY <1>2, <2>1, <2>2, After
  <2>4. PICK d \in st + 2..m - 1 : FractionAt(src, st, m, d)
    BY <2>1, <2>2, <2>3 DEF NumberTo, DigitsTo
  <2>5. d = n + 1
    BY <2>1, <2>2, <2>4 DEF FractionAt
  <2>6. n + 2 <= Len(src) /\ n + 2 \in st + 1..m /\ n + 2 # d
    BY <1>1, <2>5
  <2>7. src[n + 1] = "." /\ src[n + 2] \in Digits
    BY <2>4, <2>5, <2>6 DEF FractionAt
  <2> QED
    BY <2>6, <2>7
<1> QED
  BY <1>2 DEF Longest, LexemeTo, NumberTo

LEMMA FractionLongest ==
  ASSUME NEW src \in Seq(Chars), NEW st \in Nat, NEW n \in st + 1..Len(src),
         NEW d \in st + 2..n - 1, FractionAt(src, st, n, d),
         n < Len(src) => src[n + 1] \notin Digits
  PROVE  Longest(src, st, n)
<1>1. Len(src) \in Nat /\ n \in Nat
  BY LenProperties
<1>2. ASSUME NEW m \in n + 1..Len(src), LexemeTo(src, st, m, m = Len(src)) PROVE FALSE
  <2>1. /\ m \in st + 2..Len(src) /\ (m = Len(src)) \in BOOLEAN /\ n < Len(src)
        /\ n + 1 \in st + 1..m /\ st + 1 \in st + 1..n /\ d \in st + 1..m /\ d # st + 1 /\ d # n + 1
    BY <1>1
  <2>2. src[st + 1] \in Digits /\ src[d] = "." /\ src[d] \notin Digits /\ src[n + 1] \notin Digits
    BY <2>1 DEF FractionAt, Digits
  <2>3. NumberTo(src, st, m)
    BY <1>2, <2>1, <2>2, After
  <2>4. PICK e \in st + 2..m - 1 : FractionAt(src, st, m, e)
    BY <2>1, <2>2, <2>3 DEF NumberTo, DigitsTo
  <2>5. e = d
    BY <2>1, <2>2, <2>4 DEF FractionAt
  <2> QED
    BY <2>1, <2>2, <2>4, <2>5 DEF FractionAt
<1> QED
  BY <1>2 DEF Longest, LexemeTo, NumberTo

-----------------------------------------------------------------------------
(* The token that a lexeme is. *)

Firsts(s) ==
  /\ IsComment(s, TRUE) => s[1] = "/"
  /\ IsNumber(s) => s[1] = "1"
  /\ IsIdentifier(s) => s[1] \in Letters
  /\ s = <<"=", "=">> => s[1] = "="

LEMMA FirstsHold ==
  ASSUME NEW src \in Seq(Chars), NEW st \in Nat, NEW n \in st + 1..Len(src),
         NEW s, IsPart(src, st, n, s)
  PROVE  Firsts(s) /\ s[1] = src[st + 1]
<1>1. n \in Nat /\ st + 1 \in st + 1..n
  BY LenProperties
<1>2. s[1] = src[st + 1]
  BY Between
<1>3. IsComment(s, TRUE) => LineTo(src, st, n) \/ BlockTo(src, st, n, TRUE)
  BY CommentBetween
<1>4. IsNumber(s) => NumberTo(src, st, n)
  BY NumberBetween
<1>5. NumberTo(src, st, n) => src[st + 1] = "1"
  BY <1>1 DEF NumberTo, DigitsTo, FractionAt, Digits
<1>6. s = <<"=", "=">> => s[1] = "="
  OBVIOUS
<1> QED
  BY <1>2, <1>3, <1>4, <1>5, <1>6 DEF Firsts, IsIdentifier, LineTo, BlockTo

LEMMA TypeOfNone ==
  ASSUME NEW s, Firsts(s), IsComment(s, TRUE) \/ s[1] \in Blanks \cup {"@"}
  PROVE  TokenType(s) = "none"
<1>1. s[1] \in {"/", "@"} \cup Blanks
  BY DEF Firsts
<1>2. s[1] # "q" /\ s[1] # "1" /\ s[1] \notin Letters /\ s[1] # "="
  BY <1>1, LettersApart DEF Blanks, Newline
<1>3. ~IsNumber(s) /\ ~IsIdentifier(s) /\ s # <<"=", "=">>
  BY <1>2 DEF Firsts
<1> QED
  BY <1>2, <1>3, Zenon DEF TokenType

LEMMA TypeOfString ==
  ASSUME NEW s, Firsts(s), s[1] = "q"
  PROVE  TokenType(s) = IF Len(s) > 1 /\ s[Len(s)] = "q" THEN "STRING" ELSE "none"
<1>1. "q" \notin {"/", "@", "1", "="} \cup Blanks \cup Letters
  BY LettersApart DEF Blanks, Newline
<1>2. ~IsComment(s, TRUE) /\ s[1] \notin Blanks \cup {"@"}
  BY <1>1 DEF Firsts
<1>3. ~IsNumber(s) /\ ~IsIdentifier(s) /\ s # <<"=", "=">>
  BY <1>1 DEF Firsts
<1> QED
  BY <1>2, <1>3, Zenon DEF TokenType

LEMMA TypeOfNumber ==
  ASSUME NEW s, Firsts(s), IsNumber(s)
  PROVE  TokenType(s) = "NUMBER"
<1>1. s[1] = "1" /\ "1" \notin {"/", "@", "q", "="} \cup Blanks \cup Letters
  BY LettersApart DEF Blanks, Newline, Firsts
<1>2. ~IsComment(s, TRUE) /\ s[1] \notin Blanks \cup {"@"} /\ s[1] # "q"
  BY <1>1 DEF Firsts
<1>3. ~IsIdentifier(s) /\ s # <<"=", "=">>
  BY <1>1 DEF Firsts
<1> QED
  BY <1>2, <1>3, Zenon DEF TokenType

LEMMA TypeOfIdentifier ==
  ASSUME NEW s, Firsts(s), IsIdentifier(s)
  PROVE  TokenType(s) = IF s \in Keywords THEN "KEYWORD" ELSE "IDENTIFIER"
<1>1. s[1] \in Letters /\ Letters \cap ({"/", "@", "q", "=", "1"} \cup Blanks) = {}
  BY LettersApart DEF Blanks, Newline, Firsts
<1>2. ~IsComment(s, TRUE) /\ s[1] \notin Blanks \cup {"@"} /\ s[1] # "q"
  BY <1>1 DEF Firsts
<1>3. ~IsNumber(s) /\ s # <<"=", "=">>
  BY <1>1 DEF Firsts
<1> QED
  BY <1>2, <1>3, Zenon DEF TokenType

LEMMA TypeOfEquals ==
  ASSUME NEW s, Firsts(s), s = <<"=", "=">>
  PROVE  TokenType(s) = "EQUAL_EQUAL"
<1>1. s[1] = "=" /\ "=" \notin {"/", "@", "q", "1"} \cup Blanks \cup Letters
  BY LettersApart DEF Blanks, Newline, Firsts
<1>2. ~IsComment(s, TRUE) /\ s[1] \notin Blanks \cup {"@"} /\ s[1] # "q"
  BY <1>1 DEF Firsts
<1>3. ~IsNumber(s) /\ ~IsIdentifier(s)
  BY <1>1 DEF Firsts
<1>4. PICK e : e = <<"=", "=">>
  OBVIOUS
<1>5. s = e
  BY <1>4
<1> QED
  BY <1>2, <1>3, <1>4, <1>5, Zenon DEF TokenType

LEMMA TypeOfOther ==
  ASSUME NEW s, ~IsComment(s, TRUE), s[1] \notin {"@", "q"} \cup Blanks, ~IsNumber(s),
         ~IsIdentifier(s), s # <<"=", "=">>
  PROVE  TokenType(s) = s[1]
<1>1. s[1] \notin Blanks \cup {"@"} /\ s[1] # "q"
  OBVIOUS
<1> QED
  BY <1>1, Zenon DEF TokenType

-----------------------------------------------------------------------------
(* What the scanner's loops have consumed. *)

InBlock(src, st, n) ==
  /\ n > st + 1 /\ src[st + 1] = "/" /\ src[st + 2] = "*"
  /\ \A i \in st + 3..n : i < Len(src) => ~Closes(src, i)
InString(src, st, n) ==
  n > st /\ src[st + 1] = "q" /\ \A i \in st + 2..n : src[i] # "q"
InFraction(src, st, n) ==
  \E d \in st + 2..n :
    FractionAt(src, st, n, d) /\ (d = n => n < Len(src) /\ src[n + 1] \in Digits)

Matching ==
  /\ mode = "comment" => LineTo(source, start, current)
  /\ mode = "block" => InBlock(source, start, current)
  /\ mode = "string" => InString(source, start, current)
  /\ mode = "number" => current > start /\ DigitsTo(source, start, current)
  /\ mode = "fraction" => InFraction(source, start, current)
  /\ mode = "identifier" => current > start /\ IdentifierTo(source, start, current)

LEMMA TokenAdded ==
  ASSUME NEW t, IsList(t), NEW e, NEW u, u = Append(t, e)
  PROVE  IsList(u) /\ u # <<>> /\ u[Len(u)] = e
<1>1. IsList(u)
  BY Appended
<1>2. u # <<>> /\ u[Len(u)] = e
  BY Appended
<1> QED
  BY <1>1, <1>2

\* The scanner is back between lexemes.
LEMMA Accepted ==
  ASSUME Positions', start' < current', Longest(source', start', current'),
         NEW s, IsPart(source', start', current', s), NEW type, TokenType(s) = type,
         type # "none" => /\ tokens' # <<>>
                          /\ tokens'[Len(tokens')] = [type |-> type, text |-> s, line |-> line']
  PROVE  LongestMatch'
<1>1. PICK src, st, cur, toks, ln : /\ src = source' /\ st = start' /\ cur = current'
                                    /\ toks = tokens' /\ ln = line'
  OBVIOUS
<1>2. src \in Seq(Chars) /\ st \in Nat /\ cur \in st + 1..Len(src) /\ Len(src) \in Nat
  <2>1. source' \in Seq(Chars) /\ start' \in Nat /\ current' \in Nat /\ current' <= Len(source')
    BY DEF Positions
  <2>2. src \in Seq(Chars) /\ st \in Nat /\ cur \in Nat /\ cur <= Len(src) /\ st < cur
    BY <1>1, <2>1, Zenon
  <2>3. Len(src) \in Nat
    BY <2>2, LenProperties
  <2>4. cur \in st + 1..Len(src)
    BY <2>2, <2>3
  <2> QED
    BY <2>2, <2>3, <2>4
<1>3. s = SubSeq(src, st + 1, cur)
  BY <1>1 DEF IsPart
<1>4. IsLexeme(s, cur = Len(src))
  <2>1. (cur = Len(src)) \in BOOLEAN
    OBVIOUS
  <2> QED
    BY <1>1, <1>2, <2>1, LexemeBetween DEF Longest
<1>5. ASSUME NEW n \in cur + 1..Len(src) PROVE ~IsLexeme(SubSeq(src, st + 1, n), n = Len(src))
  <2>1. (n = Len(src)) \in BOOLEAN /\ n \in st + 1..Len(src)
    BY <1>2
  <2>2. PICK r : r = SubSeq(src, st + 1, n)
    OBVIOUS
  <2>3. IsPart(src, st, n, r)
    BY <2>2 DEF IsPart
  <2>4. ~LexemeTo(src, st, n, n = Len(src))
    BY <1>1 DEF Longest
  <2>5. ~IsLexeme(r, n = Len(src))
    BY <1>2, <2>1, <2>3, <2>4, LexemeBetween
  <2> QED
    BY <2>2, <2>5
<1>6. (cur >= Len(src)) = (cur = Len(src))
  BY <1>2
<1>7. LongestMatch' <=>
        (mode' = "scan" /\ cur > 0 =>
           /\ IsLexeme(SubSeq(src, st + 1, cur), cur >= Len(src))
           /\ \A n \in cur + 1..Len(src) : ~IsLexeme(SubSeq(src, st + 1, n), n = Len(src))
           /\ TokenType(SubSeq(src, st + 1, cur)) # "none" =>
                /\ toks # <<>>
                /\ toks[Len(toks)] = [type |-> TokenType(SubSeq(src, st + 1, cur)),
                                      text |-> SubSeq(src, st + 1, cur), line |-> ln])
  BY <1>1, Zenon DEF LongestMatch, Text, AtEnd
<1> QED
  BY <1>1, <1>3, <1>4, <1>5, <1>6, <1>7, Zenon

LEMMA LoopOf ==
  ASSUME NEW c
  PROVE  \/ Loop(c) = "comment" /\ c = "/" /\ Ahead(2) = "/"
         \/ Loop(c) = "block" /\ c = "/" /\ Ahead(2) = "*"
         \/ Loop(c) = "string" /\ c = "q"
         \/ Loop(c) = "number" /\ c \in Digits
         \/ Loop(c) = "identifier" /\ c \in Letters
         \/ /\ Loop(c) = "scan" /\ c \notin {"q"} \cup Digits \cup Letters
            /\ ~(c = "/" /\ (Ahead(2) = "/" \/ Ahead(2) = "*"))
<1>1. "/" \notin {"q"} \cup Digits \cup Letters /\ "q" \notin Digits \cup Letters
      /\ Digits \cap Letters = {} /\ "/" # "*"
  BY LettersApart DEF Digits
<1>2. CASE c = "/" /\ Ahead(2) = "/"
  BY <1>1, <1>2, Zenon DEF Loop
<1>3. CASE c = "/" /\ Ahead(2) = "*"
  <2>1. ~(c = "/" /\ Ahead(2) = "/") /\ c # "q" /\ c \notin Digits /\ c \notin Letters
    BY <1>1, <1>3
  <2> QED
    BY <1>3, <2>1, Zenon DEF Loop
<1>4. CASE c = "q"
  <2>1. c # "/" /\ c \notin Digits /\ c \notin Letters
    BY <1>1, <1>4
  <2> QED
    BY <1>4, <2>1, Zenon DEF Loop
<1>5. CASE c \in Digits
  <2>1. c # "/" /\ c # "q" /\ c \notin Letters
    BY <1>1, <1>5
  <2> QED
    BY <1>5, <2>1, Zenon DEF Loop
<1>6. CASE c \in Letters
  <2>1. c # "/" /\ c # "q" /\ c \notin Digits
    BY <1>1, <1>6
  <2> QED
    BY <1>6, <2>1, Zenon DEF Loop
<1>7. CASE ~(c = "/" /\ (Ahead(2) = "/" \/ Ahead(2) = "*")) /\ c \notin {"q"} \cup Digits \cup Letters
  <2>1. /\ ~(c = "/" /\ Ahead(2) = "/") /\ ~(c = "/" /\ Ahead(2) = "*")
        /\ c # "q" /\ c \notin Digits /\ c \notin Letters
    BY <1>7
  <2>2. Loop(c) = "scan"
    BY <2>1, Zenon DEF Loop
  <2> QED
    BY <1>7, <2>2
<1> QED
  BY <1>2, <1>3, <1>4, <1>5, <1>6, <1>7

-----------------------------------------------------------------------------
(* The steps. *)

Scanning == Positions /\ LinesCounted /\ Matching /\ IsList(tokens)

LEMMA Here ==
  ASSUME Scanning, Next
  PROVE  /\ Positions' /\ source' = source
         /\ source \in Seq(Chars) /\ Len(source) \in Nat /\ start \in Nat /\ current \in Nat
         /\ start <= current /\ current <= Len(source)
         /\ current < Len(source) <=> ~AtEnd
         /\ current < Len(source) => Peek = source[current + 1]
         /\ current + 2 <= Len(source) => Ahead(2) = source[current + 2]
  BY PositionsStep, LengthNatural DEF Scanning, Positions, AtEnd, Peek, Ahead

LEMMA TextHere ==
  ASSUME Positions', source' = source, start < current', start \in Nat, NEW n, n = current'
  PROVE  source \in Seq(Chars) /\ n \in start + 1..Len(source) /\ IsPart(source, start, n, Text(n))
<1>1. source' \in Seq(Chars) /\ current' \in Nat /\ current' <= Len(source')
  BY DEF Positions
<1>2. Len(source) \in Nat
  BY <1>1, LenProperties
<1> QED
  BY <1>1, <1>2 DEF IsPart, Text

LEMMA LineStep == ASSUME Scanning, LineComment PROVE Matching' /\ IsList(tokens') /\ LongestMatch'
<1>1. Next
  BY DEF Next
<1>2. /\ mode = "comment" /\ LineTo(source, start, current) /\ source' = source /\ start' = start
      /\ tokens' = tokens /\ start + 1 < current
  BY DEF LineComment, InLexeme, NoToken, Scanning, Matching, LineTo
<1>3. CASE Peek # Newline /\ ~AtEnd
  <2>1. current' = current + 1 /\ mode' = mode /\ source[current + 1] # Newline
    BY <1>1, <1>3, Here DEF LineComment, Advance
  <2>2. LineTo(source, start, current + 1)
    BY <1>1, <1>2, <2>1, Here DEF LineTo
  <2>3. Matching'
    BY <1>2, <2>1, <2>2 DEF Matching
  <2> QED
    BY <1>2, <2>1, <2>3 DEF Scanning, IsList, LongestMatch
<1>4. CASE ~(Peek # Newline /\ ~AtEnd)
  <2>1. current' = current /\ mode' = "scan"
    BY <1>4 DEF LineComment
  <2>2. current < Len(source) => source[current + 1] = Newline
    BY <1>1, <1>4, Here
  <2>3. Positions' /\ start \in Nat /\ current \in Nat
    BY <1>1, Here
  <2>4. /\ source \in Seq(Chars) /\ current \in start + 1..Len(source)
        /\ IsPart(source, start, current, Text(current))
    BY <1>2, <2>1, <2>3, TextHere
  <2>5. Longest(source, start, current)
    BY <1>2, <2>2, <2>3, <2>4, LineLongest
  <2>6. PICK s : s = Text(current)
    OBVIOUS
  <2>7. IsComment(s, TRUE) /\ Firsts(s) /\ IsPart(source, start, current, s)
    BY <1>2, <2>3, <2>4, <2>6, CommentBetween, FirstsHold
  <2>8. PICK type : type = "none" /\ TokenType(s) = type
    BY <2>7, TypeOfNone
  <2>9. LongestMatch'
    <3>1. /\ start' < current' /\ Longest(source', start', current')
          /\ IsPart(source', start', current', s)
      BY <1>2, <2>1, <2>3, <2>5, <2>7
    <3> QED
      BY <2>3, <2>8, <3>1, Accepted
  <2> QED
    BY <1>2, <2>1, <2>9 DEF Scanning, IsList, Matching
<1> QED
  BY <1>3, <1>4

LEMMA BlockStep == ASSUME Scanning, BlockComment PROVE Matching' /\ IsList(tokens') /\ LongestMatch'
<1>1. Next
  BY DEF Next
<1>2. /\ mode = "block" /\ InBlock(source, start, current) /\ source' = source /\ start' = start
      /\ tokens' = tokens /\ start + 1 < current
  BY DEF BlockComment, InLexeme, NoToken, Scanning, Matching, InBlock
<1>3. /\ Positions' /\ start \in Nat /\ current \in Nat /\ Len(source) \in Nat
      /\ current <= Len(source)
  BY <1>1, Here
<1>4. \/ ~AtEnd /\ ~(Peek = "*" /\ Ahead(2) = "/") /\ Advance(1) /\ mode' = "block"
      \/ AtEnd /\ mode' = "scan" /\ current' = current
      \/ ~AtEnd /\ Peek = "*" /\ Ahead(2) = "/" /\ Advance(2) /\ mode' = "scan"
  <2>1. Peek = "*" => ~AtEnd
    BY <1>3 DEF Peek, Ahead, AtEnd
  <2> QED
    BY <1>2, <2>1 DEF BlockComment
<1>5. CASE ~AtEnd /\ ~(Peek = "*" /\ Ahead(2) = "/") /\ Advance(1) /\ mode' = "block"
  <2>1. /\ current' = current + 1
        /\ current + 1 < Len(source) => ~Closes(source, current + 1)
    BY <1>1, <1>3, <1>5, Here DEF Advance, Closes
  <2>2. InBlock(source, start, current + 1)
    BY <1>2, <1>3, <2>1 DEF InBlock
  <2>3. Matching'
    BY <1>2, <1>5, <2>1, <2>2 DEF Matching
  <2> QED
    BY <1>2, <1>5, <2>3 DEF Scanning, IsList, LongestMatch
<1>6. CASE /\ mode' = "scan"
           /\ \/ AtEnd /\ current' = current
              \/ ~AtEnd /\ Peek = "*" /\ Ahead(2) = "/" /\ Advance(2)
  <2>0. PICK n : n = current'
    OBVIOUS
  <2>1. start < n /\ n \in Nat
    BY <1>2, <1>3, <1>6, <2>0 DEF Advance
  <2>2. /\ source \in Seq(Chars) /\ n \in start + 1..Len(source)
        /\ IsPart(source, start, n, Text(n))
    BY <1>2, <1>3, <2>0, <2>1, TextHere
  <2>3. \/ n = current /\ n = Len(source)
        \/ n = current + 2 /\ n - 1 \in start + 3..Len(source) /\ Closes(source, n - 1)
    <3>1. CASE AtEnd /\ current' = current
      BY <1>3, <2>0, <3>1 DEF AtEnd
    <3>2. CASE ~AtEnd /\ Peek = "*" /\ Ahead(2) = "/" /\ Advance(2)
      <4>1. n = current + 2 /\ current + 2 <= Len(source) /\ n - 1 = current + 1
        BY <1>3, <2>0, <2>2, <3>2 DEF Advance
      <4>2. source[current + 1] = "*" /\ source[current + 2] = "/" /\ (current + 1) + 1 = current + 2
        BY <1>1, <1>3, <3>2, <4>1, Here
      <4> QED
        BY <1>2, <1>3, <4>1, <4>2 DEF Closes
    <3> QED
      BY <1>6, <3>1, <3>2
  <2>4. BlockTo(source, start, n, n = Len(source)) /\ BlockTo(source, start, n, TRUE)
    <3>1. /\ n > start + 1 /\ source[start + 1] = "/" /\ source[start + 2] = "*"
      BY <1>2, <1>3, <2>1, <2>3 DEF InBlock
    <3>2. \A i \in start + 3..n - 2 : ~Closes(source, i)
      BY <1>2, <1>3, <2>1, <2>2, <2>3 DEF InBlock
    <3>3. n = Len(source) \/ \E i \in start + 3..n - 1 : Closes(source, i)
      BY <1>3, <2>1, <2>3
    <3> QED
      BY <3>1, <3>2, <3>3 DEF BlockTo
  <2>5. Longest(source, start, n)
    BY <1>3, <2>2, <2>3, <2>4, BlockLongest
  <2>6. PICK s : s = Text(n)
    OBVIOUS
  <2>7. IsComment(s, TRUE) /\ Firsts(s) /\ IsPart(source, start, n, s)
    BY <1>3, <2>2, <2>4, <2>6, CommentBetween, FirstsHold
  <2>8. PICK type : type = "none" /\ TokenType(s) = type
    BY <2>7, TypeOfNone
  <2>9. /\ start' < current' /\ Longest(source', start', current')
        /\ IsPart(source', start', current', s)
    BY <1>2, <2>0, <2>1, <2>5, <2>7
  <2>10. LongestMatch'
    BY <1>3, <2>8, <2>9, Accepted
  <2> QED
    BY <1>2, <1>6, <2>10 DEF Scanning, IsList, Matching
<1> QED
  BY <1>4, <1>5, <1>6

LEMMA StringStep == ASSUME Scanning, String PROVE Matching' /\ IsList(tokens') /\ LongestMatch'
<1>1. Next
  BY DEF Next
<1>2. /\ mode = "string" /\ InString(source, start, current) /\ source' = source /\ start' = start
      /\ start < current /\ IsList(tokens)
  BY DEF String, InLexeme, Scanning, Matching, InString
<1>3. /\ Positions' /\ start \in Nat /\ current \in Nat /\ Len(source) \in Nat
      /\ current <= Len(source)
  BY <1>1, Here
<1>4. \/ ~AtEnd /\ Peek # "q" /\ current' = current + 1 /\ mode' = "string" /\ tokens' = tokens
      \/ AtEnd /\ mode' = "scan" /\ current' = current /\ tokens' = tokens
      \/ ~AtEnd /\ Peek = "q" /\ current' = current + 1 /\ mode' = "scan" /\ Add("STRING")
  <2>1. Peek = "q" => ~AtEnd
    BY <1>3 DEF Peek, Ahead, AtEnd
  <2> QED
    BY <1>2, <2>1 DEF String, Advance, NoToken
<1>5. CASE ~AtEnd /\ Peek # "q" /\ current' = current + 1 /\ mode' = "string" /\ tokens' = tokens
  <2>1. source[current + 1] # "q"
    BY <1>1, <1>3, <1>5, Here
  <2>2. InString(source, start, current + 1)
    BY <1>2, <1>3, <2>1 DEF InString
  <2>3. Matching'
    BY <1>2, <1>5, <2>2 DEF Matching
  <2> QED
    BY <1>2, <1>5, <2>3 DEF LongestMatch
<1>6. CASE /\ mode' = "scan"
           /\ \/ AtEnd /\ current' = current /\ tokens' = tokens
              \/ ~AtEnd /\ Peek = "q" /\ current' = current + 1 /\ Add("STRING")
  <2>0. PICK n : n = current'
    OBVIOUS
  <2>1. start < n /\ n \in Nat
    BY <1>2, <1>3, <1>6, <2>0
  <2>2. /\ source \in Seq(Chars) /\ n \in start + 1..Len(source)
        /\ IsPart(source, start, n, Text(n))
    BY <1>2, <1>3, <2>0, <2>1, TextHere
  <2>3. PICK s : s = Text(n)
    OBVIOUS
  <2>4. \/ n = current /\ n = Len(source) /\ tokens' = tokens /\ (n > start + 1 => source[n] # "q")
        \/ /\ n = current + 1 /\ n > start + 1 /\ source[n] = "q"
           /\ tokens' = Append(tokens, [type |-> "STRING", text |-> s, line |-> line'])
    <3>1. CASE AtEnd /\ current' = current /\ tokens' = tokens
      BY <1>2, <1>3, <2>0, <3>1 DEF AtEnd, InString
    <3>2. CASE ~AtEnd /\ Peek = "q" /\ current' = current + 1 /\ Add("STRING")
      <4>1. source[current + 1] = "q"
        BY <1>1, <1>3, <3>2, Here
      <4>2. tokens' = Append(tokens, [type |-> "STRING", text |-> s, line |-> line'])
        BY <2>0, <2>3, <3>2 DEF Add
      <4> QED
        BY <1>2, <1>3, <2>0, <3>2, <4>1, <4>2
    <3> QED
      BY <1>6, <3>1, <3>2
  <2>5. StringTo(source, start, n, n = Len(source))
    BY <1>2, <1>3, <2>1, <2>4 DEF StringTo, InString
  <2>6. Longest(source, start, n)
    BY <1>3, <2>2, <2>4, <2>5, StringLongest
  <2>7. /\ Firsts(s) /\ IsPart(source, start, n, s) /\ s[1] = "q"
        /\ Len(s) = n - start /\ s[Len(s)] = source[n]
    <3>1. IsPart(source, start, n, s) /\ source[start + 1] = "q"
      BY <1>2, <2>2, <2>3 DEF InString
    <3>2. Len(s) = n - start /\ s[Len(s)] = source[n]
      BY <1>3, <2>2, <3>1, Between
    <3>3. Firsts(s) /\ s[1] = source[start + 1]
      BY <1>3, <2>2, <3>1, FirstsHold
    <3> QED
      BY <3>1, <3>2, <3>3
  <2>8. PICK type : type = TokenType(s)
    OBVIOUS
  <2>9. type = IF n > start + 1 /\ source[n] = "q" THEN "STRING" ELSE "none"
    <3>1. Len(s) > 1 => n > start + 1
      BY <1>3, <2>1, <2>7
    <3>2. n > start + 1 => Len(s) > 1
      BY <1>3, <2>1, <2>7
    <3>3. type = IF Len(s) > 1 /\ s[Len(s)] = "q" THEN "STRING" ELSE "none"
      BY <2>7, <2>8, TypeOfString
    <3> QED
      BY <2>7, <3>1, <3>2, <3>3
  <2>10. /\ IsList(tokens')
         /\ type # "none" => /\ tokens' # <<>>
                             /\ tokens'[Len(tokens')] = [type |-> type, text |-> s, line |-> line']
    <3>1. CASE tokens' = tokens /\ ~(n > start + 1 /\ source[n] = "q")
      BY <1>2, <2>9, <3>1
    <3>2. CASE /\ n > start + 1 /\ source[n] = "q"
               /\ tokens' = Append(tokens, [type |-> "STRING", text |-> s, line |-> line'])
      <4>1. PICK e : e = [type |-> type, text |-> s, line |-> line']
        OBVIOUS
      <4>2. type = "STRING" /\ tokens' = Append(tokens, e)
        BY <2>9, <3>2, <4>1
      <4>3. IsList(tokens') /\ tokens' # <<>> /\ tokens'[Len(tokens')] = e
        BY <1>2, <4>2, TokenAdded
      <4> QED
        BY <4>1, <4>3
    <3> QED
      BY <2>4, <3>1, <3>2
  <2>11. /\ start' < current' /\ Longest(source', start', current')
         /\ IsPart(source', start', current', s)
    BY <1>2, <2>0, <2>1, <2>6, <2>7
  <2>12. LongestMatch'
    BY <1>3, <2>8, <2>10, <2>11, Accepted
  <2> QED
    BY <1>6, <2>10, <2>12 DEF Matching
<1> QED
  BY <1>4, <1>5, <1>6

LEMMA NumberStep == ASSUME Scanning, Number PROVE Matching' /\ IsList(tokens') /\ LongestMatch'
<1>1. Next
  BY DEF Next
<1>2. /\ source' = source /\ start' = start /\ IsList(tokens)
      /\ \/ mode = "number" /\ current > start /\ DigitsTo(source, start, current)
         \/ mode = "fraction" /\ InFraction(source, start, current)
  BY DEF Number, InLexeme, Scanning, Matching
<1>3. /\ Positions' /\ start \in Nat /\ current \in Nat /\ Len(source) \in Nat
      /\ current <= Len(source)
  BY <1>1, Here
<1>4. /\ Peek \in Digits => current < Len(source)
      /\ Ahead(2) \in Digits => current + 2 <= Len(source)
      /\ current < Len(source) => Peek = source[current + 1]
      /\ current + 2 <= Len(source) => Ahead(2) = source[current + 2]
  BY <1>3 DEF Peek, Ahead, Digits
<1>5. start < current
  BY <1>2, <1>3 DEF InFraction
<1>6. \/ Peek \in Digits /\ current' = current + 1 /\ mode' = mode /\ tokens' = tokens
      \/ /\ Peek \notin Digits /\ mode = "number" /\ Peek = "." /\ Ahead(2) \in Digits
         /\ current' = current + 1 /\ mode' = "fraction" /\ tokens' = tokens
      \/ /\ Peek \notin Digits /\ ~(mode = "number" /\ Peek = "." /\ Ahead(2) \in Digits)
         /\ mode' = "scan" /\ current' = current /\ Add("NUMBER")
  <2>1. Peek \in Digits => ~(mode = "number" /\ Peek = "." /\ Ahead(2) \in Digits)
    BY DEF Digits
  <2> QED
    BY <2>1 DEF Number, Advance, NoToken
<1>7. CASE Peek \in Digits /\ current' = current + 1 /\ mode' = mode /\ tokens' = tokens
  <2>1. current < Len(source) /\ source[current + 1] \in Digits
    BY <1>4, <1>7
  <2>2. mode = "number" => DigitsTo(source, start, current + 1)
    BY <1>2, <1>3, <2>1 DEF DigitsTo
  <2>3. mode = "fraction" => InFraction(source, start, current + 1)
    <3> SUFFICES ASSUME mode = "fraction" PROVE InFraction(source, start, current + 1)
      OBVIOUS
    <3>1. PICK d \in start + 2..current : FractionAt(source, start, current, d)
      BY <1>2 DEF InFraction
    <3>2. FractionAt(source, start, current + 1, d)
      BY <1>3, <2>1, <3>1 DEF FractionAt
    <3>3. d \in start + 2..current + 1 /\ d # current + 1
      BY <1>3
    <3> QED
      BY <3>2, <3>3 DEF InFraction
  <2>4. Matching'
    BY <1>2, <1>3, <1>5, <1>7, <2>2, <2>3 DEF Matching
  <2> QED
    BY <1>2, <1>7, <2>4 DEF LongestMatch
<1>8. CASE /\ mode = "number" /\ Peek = "." /\ Ahead(2) \in Digits
           /\ current' = current + 1 /\ mode' = "fraction" /\ tokens' = tokens
  <2>1. /\ current + 1 < Len(source) /\ source[current + 1] = "." /\ (current + 1) + 1 = current + 2
        /\ source[current + 2] \in Digits
    BY <1>3, <1>4, <1>8
  <2>2. current + 1 \in start + 2..current + 1 /\ DigitsTo(source, start, current)
    BY <1>2, <1>3, <1>5, <1>8
  <2>3. FractionAt(source, start, current + 1, current + 1)
    BY <1>3, <2>1, <2>2 DEF FractionAt, DigitsTo
  <2>4. InFraction(source, start, current + 1)
    BY <2>1, <2>2, <2>3 DEF InFraction
  <2>5. Matching'
    BY <1>2, <1>8, <2>4 DEF Matching
  <2> QED
    BY <1>2, <1>8, <2>5 DEF LongestMatch
<1>9. CASE /\ Peek \notin Digits /\ ~(mode = "number" /\ Peek = "." /\ Ahead(2) \in Digits)
           /\ mode' = "scan" /\ current' = current /\ Add("NUMBER")
  <2>2. /\ source \in Seq(Chars) /\ current \in start + 1..Len(source)
        /\ IsPart(source, start, current, Text(current))
    BY <1>2, <1>3, <1>5, <1>9, TextHere
  <2>3. PICK s : s = Text(current)
    OBVIOUS
  <2>4. current < Len(source) => source[current + 1] \notin Digits
    BY <1>4, <1>9
  <2>5. NumberTo(source, start, current) /\ Longest(source, start, current)
    <3>1. CASE mode = "number"
      <4>1. DigitsTo(source, start, current)
        BY <1>2, <3>1
      <4>2. current + 2 <= Len(source) => ~(source[current + 1] = "." /\ source[current + 2] \in Digits)
        BY <1>3, <1>4, <1>9, <3>1
      <4> QED
        BY <1>3, <2>2, <2>4, <4>1, <4>2, DigitsLongest DEF NumberTo
    <3>2. CASE mode = "fraction"
      <4>1. PICK d \in start + 2..current :
              FractionAt(source, start, current, d) /\ (d = current => current < Len(source) /\ source[current + 1] \in Digits)
        BY <1>2, <3>2 DEF InFraction
      <4>2. d \in start + 2..current - 1
        BY <1>3, <2>4, <4>1
      <4> QED
        BY <1>3, <2>2, <2>4, <4>1, <4>2, FractionLongest DEF NumberTo
    <3> QED
      BY <1>2, <3>1, <3>2
  <2>6. IsPart(source, start, current, s) /\ Firsts(s) /\ IsNumber(s)
    BY <1>3, <2>2, <2>3, <2>5, NumberBetween, FirstsHold
  <2>7. TokenType(s) = "NUMBER"
    BY <2>6, TypeOfNumber
  <2>8. tokens' = Append(tokens, [type |-> "NUMBER", text |-> s, line |-> line'])
    BY <1>9, <2>3 DEF Add
  <2>9. /\ IsList(tokens') /\ tokens' # <<>>
        /\ tokens'[Len(tokens')] = [type |-> "NUMBER", text |-> s, line |-> line']
    <3>1. PICK e : e = [type |-> "NUMBER", text |-> s, line |-> line']
      OBVIOUS
    <3>2. tokens' = Append(tokens, e)
      BY <2>8, <3>1
    <3>3. IsList(tokens') /\ tokens' # <<>> /\ tokens'[Len(tokens')] = e
      BY <1>2, <3>2, TokenAdded
    <3> QED
      BY <3>1, <3>3
  <2>10. /\ start' < current' /\ Longest(source', start', current')
         /\ IsPart(source', start', current', s)
    BY <1>2, <1>5, <1>9, <2>5, <2>6
  <2>11. LongestMatch'
    BY <1>3, <2>7, <2>9, <2>10, Accepted
  <2> QED
    BY <1>9, <2>9, <2>11 DEF Matching
<1> QED
  BY <1>6, <1>7, <1>8, <1>9

LEMMA IdentifierStep ==
  ASSUME Scanning, Identifier PROVE Matching' /\ IsList(tokens') /\ LongestMatch'
<1>1. Next
  BY DEF Next
<1>2. /\ source' = source /\ start' = start /\ IsList(tokens) /\ mode = "identifier"
      /\ current > start /\ IdentifierTo(source, start, current)
  BY DEF Identifier, InLexeme, Scanning, Matching
<1>3. /\ Positions' /\ start \in Nat /\ current \in Nat /\ Len(source) \in Nat
      /\ current <= Len(source) /\ start < current
  BY <1>1, <1>2, Here
<1>4. /\ Peek \in Letters \cup Digits => current < Len(source)
      /\ current < Len(source) => Peek = source[current + 1]
  <2>1. "end" \notin Letters \cup Digits
    BY LettersApart DEF Digits
  <2> QED
    BY <1>3, <2>1 DEF Peek, Ahead
<1>5. CASE Peek \in Letters \cup Digits
  <2>1. current' = current + 1 /\ mode' = mode /\ tokens' = tokens
    BY <1>5 DEF Identifier, Advance, NoToken
  <2>2. current < Len(source) /\ source[current + 1] \in Letters \cup Digits
    BY <1>4, <1>5
  <2>3. IdentifierTo(source, start, current + 1) /\ current + 1 > start
    BY <1>2, <1>3, <2>2 DEF IdentifierTo
  <2>4. Matching'
    BY <1>2, <2>1, <2>3 DEF Matching
  <2> QED
    BY <1>2, <2>1, <2>4 DEF LongestMatch
<1>6. CASE Peek \notin Letters \cup Digits
  <2>1. current' = current /\ mode' = "scan"
    BY <1>6 DEF Identifier
  <2>2. /\ source \in Seq(Chars) /\ current \in start + 1..Len(source)
        /\ IsPart(source, start, current, Text(current))
    BY <1>2, <1>3, <2>1, TextHere
  <2>3. PICK s : s = Text(current)
    OBVIOUS
  <2>4. current < Len(source) => source[current + 1] \notin Letters \cup Digits
    BY <1>4, <1>6
  <2>5. Longest(source, start, current)
    BY <1>2, <1>3, <2>2, <2>4, IdentifierLongest
  <2>6. IsPart(source, start, current, s) /\ Firsts(s) /\ IsIdentifier(s)
    BY <1>2, <1>3, <2>2, <2>3, IdentifierBetween, FirstsHold
  <2>7. PICK type : type = IF s \in Keywords THEN "KEYWORD" ELSE "IDENTIFIER"
    OBVIOUS
  <2>8. TokenType(s) = type
    BY <2>6, <2>7, TypeOfIdentifier
  <2>9. tokens' = Append(tokens, [type |-> type, text |-> s, line |-> line'])
    BY <1>6, <2>1, <2>3, <2>7 DEF Identifier, Add
  <2>10. /\ IsList(tokens') /\ tokens' # <<>>
         /\ tokens'[Len(tokens')] = [type |-> type, text |-> s, line |-> line']
    <3>1. PICK e : e = [type |-> type, text |-> s, line |-> line']
      OBVIOUS
    <3>2. tokens' = Append(tokens, e)
      BY <2>9, <3>1
    <3>3. IsList(tokens') /\ tokens' # <<>> /\ tokens'[Len(tokens')] = e
      BY <1>2, <3>2, TokenAdded
    <3> QED
      BY <3>1, <3>3
  <2>11. /\ start' < current' /\ Longest(source', start', current')
         /\ IsPart(source', start', current', s)
    BY <1>2, <1>3, <2>1, <2>5, <2>6
  <2>12. LongestMatch'
    BY <1>3, <2>8, <2>10, <2>11, Accepted
  <2> QED
    BY <2>1, <2>10, <2>12 DEF Matching
<1> QED
  BY <1>5, <1>6

\* The two or the one characters of a first step are all of the lexeme.
LEMMA ScanTokenStep ==
  ASSUME Scanning, ScanToken PROVE Matching' /\ IsList(tokens') /\ LongestMatch'
<1>1. Next
  BY DEF Next
<1>2. PICK c : c = Peek
  OBVIOUS
<1>3. PICK k : k = current
  OBVIOUS
<1>4. /\ source' = source /\ start' = k /\ mode' = Loop(c) /\ current' = k + Length(c)
      /\ Positions' /\ k \in Nat /\ Len(source) \in Nat /\ k < Len(source) /\ IsList(tokens)
      /\ c = source[k + 1] /\ (k + 2 <= Len(source) => Ahead(2) = source[k + 2])
      /\ Ahead(2) \in {"/", "*", "="} => k + 2 <= Len(source)
  <2>1. ~AtEnd /\ source' = source /\ start' = k /\ mode' = Loop(c) /\ current' = k + Length(c)
    BY <1>2, <1>3 DEF ScanToken, Advance
  <2>2. Positions' /\ k \in Nat /\ Len(source) \in Nat /\ k < Len(source) /\ c = source[k + 1]
    BY <1>1, <1>2, <1>3, <2>1, Here
  <2>3. k + 2 <= Len(source) => Ahead(2) = source[k + 2]
    BY <1>1, <1>3, Here
  <2>4. Ahead(2) \in {"/", "*", "="} => k + 2 <= Len(source)
    BY <1>3, <2>2 DEF Ahead
  <2> QED
    BY <2>1, <2>2, <2>3, <2>4 DEF Scanning
<1>5. mode' = "scan" \/ tokens' = tokens
  BY DEF ScanToken
<1>6. CASE Loop(c) # "scan"
  <2>1. LongestMatch' /\ IsList(tokens')
    BY <1>4, <1>5, <1>6 DEF LongestMatch
  <2>2. CASE Loop(c) = "comment" \/ Loop(c) = "block"
    <3>1. Length(c) = 2 /\ current' = k + 2 /\ k + 2 > k + 1
      BY <1>4, <2>2 DEF Length
    <3>2. /\ c = "/" /\ Ahead(2) \in {"/", "*"}
          /\ Loop(c) = "comment" => Ahead(2) = "/"
          /\ Loop(c) = "block" => Ahead(2) = "*"
      BY <2>2, LoopOf
    <3>3. source[k + 1] = "/" /\ source[k + 2] = Ahead(2)
      BY <1>4, <3>2
    <3>4. Loop(c) = "comment" => LineTo(source, k, k + 2)
      <4> SUFFICES ASSUME Loop(c) = "comment" PROVE LineTo(source, k, k + 2)
        OBVIOUS
      <4>1. \A i \in k + 1..k + 2 : i = k + 1 \/ i = k + 2
        BY <1>4
      <4>2. source[k + 1] # Newline /\ source[k + 2] # Newline /\ source[k + 2] = "/"
        BY <3>2, <3>3 DEF Newline
      <4> QED
        BY <3>1, <3>3, <4>1, <4>2 DEF LineTo
    <3>5. Loop(c) = "block" => InBlock(source, k, k + 2)
      BY <1>4, <3>1, <3>2, <3>3 DEF InBlock
    <3>6. Matching'
      BY <1>4, <2>2, <3>1, <3>4, <3>5 DEF Matching
    <3> QED
      BY <2>1, <3>6
  <2>3. CASE Loop(c) \notin {"comment", "block"}
    <3>1. Loop(c) \in {"string", "number", "identifier"}
      BY <1>6, <2>3, LoopOf
    <3>2. c # "="
      BY <1>6, <2>3, LettersApart, LoopOf DEF Digits
    <3>3. Length(c) = 1 /\ current' = k + 1 /\ k + 1 > k
      BY <1>4, <2>3, <3>2 DEF Length
    <3>4. \A i \in k + 1..k + 1 : i = k + 1
      BY <1>4
    <3>5. Loop(c) = "string" => InString(source, k, k + 1)
      BY <1>4, <3>3, LoopOf DEF InString
    <3>6. Loop(c) = "number" => DigitsTo(source, k, k + 1)
      BY <1>4, <3>4, LoopOf DEF DigitsTo
    <3>7. Loop(c) = "identifier" => IdentifierTo(source, k, k + 1)
      BY <1>4, <3>4, LoopOf DEF IdentifierTo
    <3>8. Matching'
      BY <1>4, <3>1, <3>3, <3>5, <3>6, <3>7 DEF Matching
    <3> QED
      BY <2>1, <3>8
  <2> QED
    BY <2>2, <2>3
<1>7. CASE Loop(c) = "scan"
  <2>1. /\ c \notin {"q"} \cup Digits \cup Letters
        /\ ~(c = "/" /\ (Ahead(2) = "/" \/ Ahead(2) = "*"))
    BY <1>7, LoopOf
  <2>2. \/ Length(c) = 2 /\ c = "=" /\ Ahead(2) = "="
        \/ Length(c) = 1 /\ ~(c = "=" /\ Ahead(2) = "=")
    BY <1>7 DEF Length
  <2>3. PICK n : n = current'
    OBVIOUS
  <2>4. k < n /\ n = k + Length(c)
    BY <1>4, <2>2, <2>3
  <2>5. source \in Seq(Chars) /\ n \in k + 1..Len(source)
    <3>1. source' \in Seq(Chars) /\ current' \in Nat /\ current' <= Len(source')
      BY <1>4 DEF Positions
    <3> QED
      BY <1>4, <2>3, <2>4, <3>1
  <2>6. PICK s : s = SubSeq(source, k + 1, n)
    OBVIOUS
  <2>7. IsPart(source, k, n, s)
    BY <2>6 DEF IsPart
  <2>8. Firsts(s) /\ s[1] = c
    BY <1>4, <2>5, <2>7, FirstsHold
  <2>9. Longest(source, k, n)
    <3>1. CASE Length(c) = 2
      <4>1. n = k + 2 /\ source[k + 1] = "=" /\ source[k + 2] = "="
        BY <1>4, <2>2, <2>4, <3>1
      <4> QED
        BY <1>4, <2>5, <4>1, EqualsLongest
    <3>2. CASE Length(c) = 1
      <4>1. /\ n = k + 1
            /\ c = "/" /\ k + 2 <= Len(source) => source[k + 2] \notin {"/", "*"}
            /\ c = "=" /\ k + 2 <= Len(source) => source[k + 2] # "="
        BY <1>4, <2>1, <2>2, <2>4, <3>2
      <4> QED
        BY <1>4, <2>1, <2>5, <4>1, OneLongest
    <3> QED
      BY <2>2, <3>1, <3>2
  <2>10. PICK type : type = TokenType(s)
    OBVIOUS
  <2>11. \/ type = "none" /\ tokens' = tokens
         \/ tokens' = Append(tokens, [type |-> type, text |-> s, line |-> line'])
    <3>0. /\ c \notin Blanks \cup {"@"} =>
               tokens' = Append(tokens, [type |-> IF Length(c) = 2 THEN "EQUAL_EQUAL" ELSE c,
                                         text |-> s, line |-> line'])
          /\ c \in Blanks \cup {"@"} => tokens' = tokens
      BY <1>2, <1>3, <1>4, <1>7, <2>3, <2>6 DEF ScanToken
    <3>1. CASE c \in Blanks \cup {"@"}
      <4>1. type = "none"
        BY <2>8, <2>10, <3>1, TypeOfNone
      <4> QED
        BY <3>0, <3>1, <4>1
    <3>2. CASE c \notin Blanks \cup {"@"} /\ Length(c) = 2
      <4>1. n = k + 2 /\ source[k + 1] = "=" /\ source[k + 2] = "="
        BY <1>4, <2>2, <2>4, <3>2
      <4>2. s = TextOf("=", "=")
        BY <1>4, <2>5, <2>7, <4>1, EqualsBetween DEF EqualsTo
      <4>3. type = "EQUAL_EQUAL"
        BY <2>8, <2>10, <4>2, TypeOfEquals DEF TextOf
      <4> QED
        BY <3>0, <3>2, <4>3
    <3>3. CASE c \notin Blanks \cup {"@"} /\ Length(c) = 1
      <4>1. n = k + 1
        BY <2>4, <3>3
      <4>2. ~IsComment(s, TRUE)
        <5>1. ~LineTo(source, k, n) /\ ~BlockTo(source, k, n, TRUE)
          BY <1>4, <4>1 DEF LineTo, BlockTo
        <5> QED
          BY <1>4, <2>5, <2>7, <5>1, CommentBetween
      <4>3. ~IsNumber(s) /\ ~IsIdentifier(s)
        BY <2>1, <2>8 DEF Firsts, Digits
      <4>4. s # <<"=", "=">>
        <5>1. ~EqualsTo(source, k, n)
          BY <1>4, <4>1 DEF EqualsTo
        <5>2. s # TextOf("=", "=")
          BY <1>4, <2>5, <2>7, <5>1, EqualsBetween
        <5> QED
          BY <5>2 DEF TextOf
      <4>5. type = c
        BY <2>1, <2>8, <2>10, <3>3, <4>2, <4>3, <4>4, TypeOfOther
      <4> QED
        BY <3>0, <3>3, <4>5
    <3> QED
      BY <2>2, <3>1, <3>2, <3>3
  <2>12. /\ IsList(tokens')
         /\ type # "none" => /\ tokens' # <<>>
                             /\ tokens'[Len(tokens')] = [type |-> type, text |-> s, line |-> line']
    <3>1. PICK e : e = [type |-> type, text |-> s, line |-> line']
      OBVIOUS
    <3>2. CASE tokens' = Append(tokens, e)
      <4>1. IsList(tokens') /\ tokens' # <<>> /\ tokens'[Len(tokens')] = e
        BY <1>4, <3>2, TokenAdded
      <4> QED
        BY <3>1, <4>1
    <3> QED
      BY <1>4, <2>11, <3>1, <3>2
  <2>13. /\ start' < current' /\ Longest(source', start', current')
         /\ IsPart(source', start', current', s)
    BY <1>4, <2>3, <2>4, <2>7, <2>9
  <2>14. LongestMatch'
    BY <1>4, <2>10, <2>12, <2>13, Accepted
  <2>15. Matching'
    BY <1>4, <1>7 DEF Matching
  <2> QED
    BY <2>12, <2>14, <2>15
<1> QED
  BY <1>6, <1>7

LEMMA ScanningStep == ASSUME Scanning, Next PROVE Scanning' /\ LongestMatch'
<1>1. Positions' /\ LinesCounted'
  BY PositionsStep DEF Scanning
<1>2. CASE EndOfFile
  <2>1. mode' = "done" /\ IsList(tokens)
    BY <1>2 DEF EndOfFile, Scanning
  <2>2. IsList(tokens')
    <3>1. PICK e : tokens' = Append(tokens, e)
      BY <1>2 DEF EndOfFile
    <3> QED
      BY <2>1, <3>1, TokenAdded
  <2> QED
    BY <1>1, <2>1, <2>2 DEF Scanning, Matching, LongestMatch
<1> QED
  BY <1>1, <1>2, ScanTokenStep, LineStep, BlockStep, StringStep, NumberStep, IdentifierStep
  DEF Next, Scanning

(* What scan_token() consumes is the longest lexeme the rest of the source begins
   with, and the last token is the one that lexeme is: for every alphabet, every
   set of keywords and a source of any length (scanner.cc:30-31, 43-131). *)
THEOREM LongestMatches == Spec => []LongestMatch
<1>1. Init => Scanning /\ LongestMatch
  <2>1. Init => current = 0 /\ mode = "scan" /\ IsList(tokens)
    BY DEF Init, IsList
  <2> QED
    BY <2>1, PositionsStart DEF Scanning, Matching, LongestMatch
<1>2. ASSUME Scanning, LongestMatch, UNCHANGED vars PROVE (Scanning /\ LongestMatch)'
  BY <1>2 DEF vars, Scanning, Positions, LinesCounted, Newline, Matching, IsList, LongestMatch,
              Text, AtEnd
<1>3. Scanning /\ LongestMatch /\ [Next]_vars => (Scanning /\ LongestMatch)'
  BY <1>2, ScanningStep
<1> QED
  BY <1>1, <1>3, PTL DEF Spec
===============================================================================
