--------------------------- MODULE CommandLine_proof ---------------------------
(* The line the shell acts on is the line that was typed, and the command and *)
(* the names it runs are that line's words: for every alphabet, set of        *)
(* commands and length of the buffer.                                         *)
EXTENDS CommandLine, FiniteSetTheorems, TLAPS

\* The length is the line's and leaves room behind it.
LineFits == line \in Seq(Char) /\ Len(line) = i /\ i <= INPUT_SIZE - NAME_SIZE

LineInv == LineFits /\ BufferIsLine

LEMMA EmptyLine == Literal(<<>>) = Clean
  BY DEF Literal, Clean

LEMMA LineInit == Init => LineInv
<1> SUFFICES ASSUME Init PROVE LineInv
  OBVIOUS
<1>1. line = <<>> /\ i = 0 /\ input = Clean
  BY DEF Init
<1>2. LineFits
  BY <1>1, LineBound DEF LineFits
<1> QED
  BY <1>1, <1>2, EmptyLine DEF LineInv, BufferIsLine

LEMMA AppendKeeps ==
  ASSUME LineInv, NEW c \in Char, AppendChar(c)
  PROVE  LineInv'
<1>1. /\ line \in Seq(Char) /\ Len(line) = i /\ i < INPUT_SIZE - NAME_SIZE
      /\ input = Literal(line) /\ INPUT_SIZE \in Nat /\ NAME_SIZE \in Nat /\ NAME_SIZE > 0
      /\ i \in Nat
  BY LineBound DEF LineInv, LineFits, BufferIsLine, AppendChar
<1>2. line' = Append(line, c) /\ i' = i + 1 /\ input' = [input EXCEPT ![i] = c]
  BY DEF AppendChar
<1>3. line' \in Seq(Char) /\ Len(line') = i + 1
  BY <1>1, <1>2
<1>4. \A k \in 1 .. i : line'[k] = line[k]
  BY <1>1, <1>2
<1>5. line'[i + 1] = c
  BY <1>1, <1>2
<1>6. input' = Literal(line')
  <2>1. i \in 0 .. INPUT_SIZE - 1
    BY <1>1
  <2>2. ASSUME NEW k \in 0 .. INPUT_SIZE - 1 PROVE input'[k] = Literal(line')[k]
    <3>1. CASE k = i
      BY <1>1, <1>2, <1>3, <1>5, <3>1 DEF Literal
    <3>2. CASE k # i
      <4>1. input'[k] = input[k]
        BY <1>1, <1>2, <3>2 DEF Literal
      <4>2. CASE k < i
        <5>1. line'[k + 1] = line[k + 1]
          BY <1>1, <1>4, <4>2
        <5> QED
          BY <1>1, <1>3, <4>1, <4>2, <5>1 DEF Literal
      <4>3. CASE k > i
        BY <1>1, <1>3, <4>1, <4>3 DEF Literal
      <4> QED
        BY <1>1, <3>2, <4>2, <4>3
    <3> QED
      BY <3>1, <3>2
  <2> QED
    BY <1>1, <1>2, <2>2 DEF Literal
<1> QED
  BY <1>1, <1>2, <1>3, <1>6 DEF LineInv, LineFits, BufferIsLine

LEMMA EraseKeeps ==
  ASSUME LineInv, EraseLast
  PROVE  LineInv'
<1>1. /\ line \in Seq(Char) /\ Len(line) = i /\ i <= INPUT_SIZE - NAME_SIZE /\ i > 0
      /\ input = Literal(line) /\ INPUT_SIZE \in Nat /\ NAME_SIZE \in Nat /\ NAME_SIZE > 0
      /\ i \in Nat
  BY LineBound DEF LineInv, LineFits, BufferIsLine, EraseLast
<1>2. line' = SubSeq(line, 1, i - 1) /\ i' = i - 1 /\ input' = [input EXCEPT ![i - 1] = NUL]
  BY <1>1 DEF EraseLast, Front
<1>3. line' \in Seq(Char) /\ Len(line') = i - 1
  BY <1>1, <1>2
<1>4. \A k \in 1 .. i - 1 : line'[k] = line[k]
  BY <1>1, <1>2
<1>5. input' = Literal(line')
  <2>1. ASSUME NEW k \in 0 .. INPUT_SIZE - 1 PROVE input'[k] = Literal(line')[k]
    <3>1. CASE k < i - 1
      <4>1. line'[k + 1] = line[k + 1]
        BY <1>1, <1>4, <3>1
      <4> QED
        BY <1>1, <1>2, <1>3, <3>1, <4>1 DEF Literal
    <3>2. CASE k >= i - 1
      BY <1>1, <1>2, <1>3, <3>2 DEF Literal
    <3> QED
      BY <1>1, <3>1, <3>2
  <2> QED
    BY <1>1, <1>2, <2>1 DEF Literal
<1>6. i' <= INPUT_SIZE - NAME_SIZE
  BY <1>1, <1>2
<1>7. LineFits'
  BY <1>2, <1>3, <1>6 DEF LineFits
<1> QED
  BY <1>5, <1>7 DEF LineInv, BufferIsLine

LEMMA LineStep == LineInv /\ [Next]_vars => LineInv'
<1> SUFFICES ASSUME LineInv, [Next]_vars PROVE LineInv'
  OBVIOUS
<1>1. CASE \E c \in Char : AppendChar(c)
  BY <1>1, AppendKeeps
<1>2. CASE EraseLast
  BY <1>2, EraseKeeps
<1>3. CASE Dispatch \/ OneName \/ TwoNames \/ NoName
  BY <1>3 DEF LineInv, LineFits, BufferIsLine, Dispatch, OneName, TwoNames, NoName
<1>4. CASE EndOfLine
  <2>1. line' = <<>> /\ i' = 0 /\ input' = Clean
    BY <1>4 DEF EndOfLine
  <2> QED
    BY <2>1, EmptyLine, LineBound DEF LineInv, LineFits, BufferIsLine
<1>5. CASE UNCHANGED vars
  BY <1>5 DEF vars, LineInv, LineFits, BufferIsLine
<1> QED
  BY <1>1, <1>2, <1>3, <1>4, <1>5 DEF Next

\* Whenever the shell waits for a key its buffer holds the characters typed since the
\* last line, less those rubbed out, and NULs behind them: nothing of an earlier line
\* or of the words cut out of it is left, however long the lines were.
THEOREM LineIsTyped == Spec => []BufferIsLine
<1>1. LineInv => BufferIsLine
  BY DEF LineInv
<1> QED
  BY <1>1, LineInit, LineStep, PTL DEF Spec

-----------------------------------------------------------------------------
(* The ends of a line's words: its blanks and the places before and behind it. *)

Ends(s) == {0, Len(s) + 1} \cup Blanks(s)
Below(s, e) == {d \in Ends(s) : d < e}

\* The end e has k others before it; f is the next one behind e.
IsEnd(s, k, e) == e \in Ends(s) /\ Cardinality(Below(s, e)) = k
FollowsEnd(s, e, f) ==
    /\ f \in Ends(s) /\ e < f
    /\ \A d \in Ends(s) : e < d => f <= d

\* What LineBound allows of a line.
Fits(s) == s \in Seq(Char) /\ Len(s) <= INPUT_SIZE - NAME_SIZE

\* Number induction, in the form of a least element.
LEMMA LeastNumber ==
  ASSUME NEW T \in SUBSET Nat, T # {}
  PROVE  \E x \in T : \A y \in T : x <= y
<1> DEFINE R == OpToRel(<, Nat)
<1>1. IsWellFoundedOn(R, Nat)
  BY NatLessThanWellFounded
<1>2. ASSUME NEW x \in Nat, NEW y \in Nat, y < x
      PROVE  <<y, x>> \in R
  BY <1>2, Zenon DEF OpToRel
<1> HIDE DEF R
<1>3. PICK x \in T : \A y \in T : ~(<<y, x>> \in R)
  BY <1>1, WFMin
<1>4. \A y \in T : ~(y < x)
  BY <1>2, <1>3
<1> QED
  BY <1>4

LEMMA Sizes == INPUT_SIZE \in Nat /\ NAME_SIZE \in Nat /\ NAME_SIZE > 0 /\ NAME_SIZE < INPUT_SIZE
  BY LineBound

\* A search finds its place when it is the only one it can find.
LEMMA FirstIs ==
  ASSUME NEW b, NEW p \in Nat, NEW chars, NEW q \in p .. INPUT_SIZE - 1, b[q] \in chars,
         \A k \in p .. q - 1 : b[k] \notin chars
  PROVE  First(b, p, chars) = q
<1> DEFINE Found(x) == b[x] \in chars /\ \A k \in p .. x - 1 : b[k] \notin chars
<1>1. Found(q)
  OBVIOUS
<1>2. ASSUME NEW x \in p .. INPUT_SIZE - 1, Found(x) PROVE x = q
  <2>1. x \in Int /\ q \in Int /\ INPUT_SIZE \in Nat
    BY Sizes
  <2>2. CASE x < q
    BY <1>2, <2>1, <2>2
  <2>3. CASE q < x
    BY <1>2, <2>1, <2>3
  <2> QED
    BY <2>1, <2>2, <2>3
<1> HIDE DEF Found
<1>3. (CHOOSE x \in p .. INPUT_SIZE - 1 : Found(x)) = q
  BY <1>1, <1>2
<1> QED
  BY <1>3 DEF First, Found

\* A line in its buffer.
LEMMA LineInBuffer ==
  ASSUME NEW s, Fits(s)
  PROVE  /\ Len(s) \in Nat /\ Len(s) + NAME_SIZE <= INPUT_SIZE /\ Literal(s) \in Buffer
         /\ DOMAIN Literal(s) = 0 .. INPUT_SIZE - 1
         /\ \A q \in 0 .. INPUT_SIZE - 1 :
               /\ q < Len(s) => Literal(s)[q] = s[q + 1] /\ q + 1 \in 1 .. Len(s)
                                /\ s[q + 1] \in Char /\ Literal(s)[q] # NUL
               /\ q >= Len(s) => Literal(s)[q] = NUL
<1>1. /\ Len(s) \in Nat /\ Len(s) <= INPUT_SIZE - NAME_SIZE /\ s \in Seq(Char)
      /\ INPUT_SIZE \in Nat /\ NAME_SIZE \in Nat /\ NUL \notin Char
  BY Sizes, CharAssumption DEF Fits
<1>2. \A q \in 1 .. Len(s) : s[q] \in Char
  BY <1>1
<1>3. ASSUME NEW q \in 0 .. INPUT_SIZE - 1
      PROVE  /\ q < Len(s) => Literal(s)[q] = s[q + 1] /\ q + 1 \in 1 .. Len(s)
                              /\ s[q + 1] \in Char /\ Literal(s)[q] # NUL
             /\ q >= Len(s) => Literal(s)[q] = NUL
             /\ Literal(s)[q] \in Char \cup {NUL}
  <2>1. CASE q < Len(s)
    <3>1. q + 1 \in 1 .. Len(s)
      BY <1>1, <2>1
    <3>2. Literal(s)[q] = s[q + 1]
      BY <2>1 DEF Literal
    <3> QED
      BY <1>1, <1>2, <2>1, <3>1, <3>2
  <2>2. CASE ~ (q < Len(s))
    <3>1. Literal(s)[q] = NUL
      BY <2>2 DEF Literal
    <3> QED
      BY <2>2, <3>1
  <2> QED
    BY <2>1, <2>2
<1>4. DOMAIN Literal(s) = 0 .. INPUT_SIZE - 1 /\ Literal(s) \in Buffer
  BY <1>3 DEF Literal, Buffer
<1> QED
  BY <1>1, <1>3, <1>4

LEMMA EndsAre ==
  ASSUME NEW s, Fits(s)
  PROVE  /\ Ends(s) \subseteq 0 .. Len(s) + 1 /\ Ends(s) \subseteq Nat
         /\ 0 \in Ends(s) /\ Len(s) + 1 \in Ends(s) /\ Len(s) \in Nat
         /\ \A d \in 1 .. Len(s) : d \in Ends(s) <=> s[d] = BLANK
<1>1. Len(s) \in Nat /\ DOMAIN s = 1 .. Len(s)
  BY DEF Fits
<1>2. Blanks(s) \subseteq 1 .. Len(s) /\ \A d \in 1 .. Len(s) : d \in Blanks(s) <=> s[d] = BLANK
  BY <1>1 DEF Blanks
<1> QED
  BY <1>1, <1>2 DEF Ends

\* Behind every end but the last there is a next one, and the word between them ends
\* where get_string's search does.
LEMMA NextEnd ==
  ASSUME NEW s, Fits(s), NEW e \in Ends(s), e <= Len(s)
  PROVE  \E f \in Ends(s) : FollowsEnd(s, e, f)
<1> DEFINE T == {d \in Ends(s) : e < d}
<1>1. T \in SUBSET Nat /\ Len(s) + 1 \in T
  BY EndsAre
<1>2. PICK f \in T : \A d \in T : f <= d
  <2>1. T # {}
    BY <1>1
  <2> HIDE DEF T
  <2> QED
    BY <1>1, <2>1, LeastNumber
<1> QED
  BY <1>2 DEF FollowsEnd

LEMMA WordEnds ==
  ASSUME NEW s, Fits(s), NEW e, e \in Ends(s), e <= Len(s), NEW f, FollowsEnd(s, e, f)
  PROVE  /\ EndOfWord(Literal(s), e) = f - 1
         /\ Literal(s)[f - 1] = NUL <=> f = Len(s) + 1
         /\ e \in Nat /\ f \in Nat /\ e < f /\ f <= Len(s) + 1 /\ Len(s) \in Nat
<1>1. /\ f \in Ends(s) /\ e \in 0 .. Len(s) + 1 /\ f \in 0 .. Len(s) + 1 /\ e < f
      /\ Len(s) \in Nat /\ \A d \in Ends(s) : e < d => f <= d
  BY EndsAre DEF FollowsEnd
<1>2. /\ Len(s) + NAME_SIZE <= INPUT_SIZE /\ INPUT_SIZE \in Nat /\ NAME_SIZE \in Nat
      /\ NAME_SIZE > 0
  BY Sizes, LineInBuffer
<1>3. f - 1 \in e .. INPUT_SIZE - 1 /\ f - 1 \in 0 .. INPUT_SIZE - 1
  BY <1>1, <1>2
<1>4. Literal(s)[f - 1] \in {BLANK, NUL} /\ (Literal(s)[f - 1] = NUL <=> f = Len(s) + 1)
  <2>1. CASE f = Len(s) + 1
    <3>1. Literal(s)[f - 1] = NUL
      BY <1>1, <1>3, <2>1, LineInBuffer
    <3> QED
      BY <2>1, <3>1
  <2>2. CASE f # Len(s) + 1
    <3>1. f \in 1 .. Len(s) /\ f - 1 < Len(s) /\ f - 1 + 1 = f
      BY <1>1, <2>2
    <3>2. Literal(s)[f - 1] = s[f] /\ Literal(s)[f - 1] # NUL
      BY <1>3, <3>1, LineInBuffer
    <3>3. s[f] = BLANK
      BY <1>1, <3>1, EndsAre
    <3> QED
      BY <2>2, <3>2, <3>3
  <2> QED
    BY <2>1, <2>2
<1>5. ASSUME NEW k \in e .. f - 1 - 1 PROVE Literal(s)[k] \notin {BLANK, NUL}
  <2>1. /\ k \in 0 .. INPUT_SIZE - 1 /\ k < Len(s) /\ k + 1 \in 1 .. Len(s) /\ e < k + 1
        /\ ~ (f <= k + 1)
    BY <1>1, <1>2
  <2>2. k + 1 \notin Ends(s)
    BY <1>1, <2>1
  <2>3. s[k + 1] # BLANK
    BY <2>1, <2>2, EndsAre
  <2> QED
    BY <2>1, <2>3, LineInBuffer
<1>6. EndOfWord(Literal(s), e) = f - 1
  <2>1. e \in Nat
    BY <1>1
  <2> QED
    BY <1>3, <1>4, <1>5, <2>1, FirstIs DEF EndOfWord
<1> QED
  BY <1>1, <1>4, <1>6

-----------------------------------------------------------------------------
(* How many they are *)

LEMMA EndCount ==
  ASSUME NEW s, Fits(s)
  PROVE  /\ IsFiniteSet(Ends(s)) /\ IsFiniteSet(Blanks(s))
         /\ Cardinality(Blanks(s)) \in Nat
         /\ \A e \in Ends(s) : /\ IsFiniteSet(Below(s, e)) /\ Cardinality(Below(s, e)) \in Nat
                               /\ e \notin Below(s, e)
         /\ IsEnd(s, 0, 0)
         /\ IsEnd(s, Cardinality(Blanks(s)) + 1, Len(s) + 1)
<1>1. /\ Ends(s) \subseteq 0 .. Len(s) + 1 /\ Ends(s) \subseteq Nat /\ Len(s) \in Nat
      /\ 0 \in Ends(s) /\ Len(s) + 1 \in Ends(s)
  BY EndsAre
<1>2. Ends(s) \in SUBSET Nat /\ Len(s) + 1 \in Nat /\ \A d \in Ends(s) : d <= Len(s) + 1
  BY <1>1
<1>3. IsFiniteSet(Ends(s))
  BY <1>2, FS_BoundedSetOfNaturals
<1>4. IsFiniteSet(Blanks(s))
  <2>1. Blanks(s) \subseteq Ends(s)
    BY DEF Ends
  <2> QED
    BY <1>3, <2>1, FS_Subset
<1>5. ASSUME NEW e \in Ends(s)
      PROVE  IsFiniteSet(Below(s, e)) /\ Cardinality(Below(s, e)) \in Nat /\ e \notin Below(s, e)
  <2>1. Below(s, e) \subseteq Ends(s) /\ e \in Nat /\ e \notin Below(s, e)
    BY <1>1 DEF Below
  <2>2. IsFiniteSet(Below(s, e))
    BY <1>3, <2>1, FS_Subset
  <2> QED
    BY <2>1, <2>2, FS_CardinalityType
<1>6. IsEnd(s, 0, 0)
  <2>1. Below(s, 0) = {}
    BY <1>1 DEF Below
  <2> QED
    BY <1>1, <2>1, FS_EmptySet DEF IsEnd
<1>7. IsEnd(s, Cardinality(Blanks(s)) + 1, Len(s) + 1)
  <2>1. Blanks(s) \subseteq 1 .. Len(s)
    BY <1>1 DEF Blanks, Fits
  <2>2. Below(s, Len(s) + 1) = Blanks(s) \cup {0}
    BY <1>1, <2>1 DEF Below, Ends
  <2>3. 0 \notin Blanks(s)
    BY <1>1, <2>1
  <2>4. Cardinality(Blanks(s) \cup {0}) = Cardinality(Blanks(s)) + 1
    BY <1>4, <2>3, FS_AddElement
  <2> QED
    BY <1>1, <2>2, <2>4 DEF IsEnd
<1>8. Cardinality(Blanks(s)) \in Nat
  BY <1>4, FS_CardinalityType
<1> QED
  BY <1>3, <1>4, <1>5, <1>6, <1>7, <1>8

LEMMA CountFollows ==
  ASSUME NEW s, Fits(s), NEW k, NEW e, IsEnd(s, k, e), NEW f, FollowsEnd(s, e, f)
  PROVE  IsEnd(s, k + 1, f)
<1>1. e \in Ends(s) /\ f \in Ends(s) /\ e \in Nat /\ f \in Nat /\ e < f
  BY EndsAre DEF IsEnd, FollowsEnd
<1>2. Below(s, f) = Below(s, e) \cup {e}
  <2>1. \A d \in Ends(s) : d \in Nat
    BY EndsAre
  <2>2. \A d \in Ends(s) : d < f <=> d < e \/ d = e
    BY <1>1, <2>1 DEF FollowsEnd
  <2> QED
    BY <1>1, <2>2 DEF Below
<1>3. Cardinality(Below(s, e) \cup {e}) = k + 1
  BY <1>1, EndCount, FS_AddElement DEF IsEnd
<1> QED
  BY <1>1, <1>2, <1>3 DEF IsEnd

\* An end further on has more ends before it.
LEMMA CountGrows ==
  ASSUME NEW s, Fits(s), NEW k, NEW e, IsEnd(s, k, e), NEW j, NEW f, IsEnd(s, j, f), e < f
  PROVE  k < j
<1>1. e \in Ends(s) /\ f \in Ends(s) /\ e \in Nat /\ f \in Nat
  BY EndsAre DEF IsEnd
<1>2. Below(s, e) \cup {e} \subseteq Below(s, f)
  BY <1>1, EndsAre DEF Below
<1>3. /\ IsFiniteSet(Below(s, f)) /\ IsFiniteSet(Below(s, e)) /\ e \notin Below(s, e)
      /\ k \in Nat /\ j \in Nat /\ Cardinality(Below(s, e)) = k /\ Cardinality(Below(s, f)) = j
  BY <1>1, EndCount DEF IsEnd
<1>4. Cardinality(Below(s, e) \cup {e}) = k + 1
  BY <1>3, FS_AddElement
<1>5. Cardinality(Below(s, e) \cup {e}) <= j
  BY <1>2, <1>3, FS_Subset
<1> QED
  BY <1>3, <1>4, <1>5

LEMMA EndUnique ==
  ASSUME NEW s, Fits(s), NEW k, NEW e, IsEnd(s, k, e), NEW f, IsEnd(s, k, f)
  PROVE  e = f
<1>1. e \in Nat /\ f \in Nat /\ k \in Nat
  BY EndsAre, EndCount DEF IsEnd
<1>2. ~ (e < f)
  BY <1>1, CountGrows
<1>3. ~ (f < e)
  BY <1>1, CountGrows
<1> QED
  BY <1>1, <1>2, <1>3

\* Every end but the last comes before as many of the line's blanks.
LEMMA CountOfLast ==
  ASSUME NEW s, Fits(s), NEW k, NEW e, IsEnd(s, k, e)
  PROVE  /\ k \in Nat
         /\ e <= Len(s) => k <= Cardinality(Blanks(s))
         /\ e = Len(s) + 1 => k = Cardinality(Blanks(s)) + 1
<1>1. e \in Ends(s) /\ e \in 0 .. Len(s) + 1 /\ Len(s) \in Nat /\ k \in Nat
  BY EndsAre, EndCount DEF IsEnd
<1>2. IsEnd(s, Cardinality(Blanks(s)) + 1, Len(s) + 1) /\ Cardinality(Blanks(s)) \in Nat
  BY EndCount
<1>3. ASSUME e <= Len(s) PROVE k <= Cardinality(Blanks(s))
  <2>1. k < Cardinality(Blanks(s)) + 1
    BY <1>1, <1>2, <1>3, CountGrows
  <2> QED
    BY <1>1, <1>2, <2>1
<1>4. ASSUME e = Len(s) + 1 PROVE k = Cardinality(Blanks(s)) + 1
  BY <1>2, <1>4 DEF IsEnd
<1> QED
  BY <1>1, <1>3, <1>4

-----------------------------------------------------------------------------
(* get_string finds the words *)

LEMMA EndChosen ==
  ASSUME NEW s, Fits(s), NEW k, NEW e, IsEnd(s, k, e)
  PROVE  (CHOOSE x \in Ends(s) : Cardinality({d \in Ends(s) : d < x}) = k) = e
<1>1. \A x \in Ends(s) : Cardinality({d \in Ends(s) : d < x}) = k <=> IsEnd(s, k, x)
  BY DEF IsEnd, Below
<1>2. e \in Ends(s) /\ Cardinality({d \in Ends(s) : d < e}) = k
  BY DEF IsEnd, Below
<1> DEFINE c == CHOOSE x \in Ends(s) : Cardinality({d \in Ends(s) : d < x}) = k
<1>3. c \in Ends(s) /\ Cardinality({d \in Ends(s) : d < c}) = k
  BY <1>2
<1> HIDE DEF c
<1>4. IsEnd(s, k, c)
  BY <1>1, <1>3
<1>5. c = e
  BY <1>4, EndUnique
<1> QED
  BY <1>5 DEF c

LEMMA WordIs ==
  ASSUME NEW s, Fits(s), NEW n, NEW e, IsEnd(s, n, e), NEW f, IsEnd(s, n + 1, f)
  PROVE  WordOf(s, n) = SubSeq(s, e + 1, f - 1)
<1>1. /\ (CHOOSE x \in Ends(s) : Cardinality({d \in Ends(s) : d < x}) = n) = e
      /\ (CHOOSE x \in Ends(s) : Cardinality({d \in Ends(s) : d < x}) = n + 1) = f
  BY EndChosen
<1>2. WordOf(s, n) =
          SubSeq(s, (CHOOSE x \in Ends(s) : Cardinality({d \in Ends(s) : d < x}) = n) + 1,
                 (CHOOSE x \in Ends(s) : Cardinality({d \in Ends(s) : d < x}) = n + 1) - 1)
  BY Zenon DEF WordOf, Ends
<1> QED
  BY <1>1, <1>2

\* The characters between two ends.
Between(s, e, f, w) ==
    /\ w \in Seq(Char) /\ Len(w) = f - 1 - e /\ f - 1 - e \in Nat
    /\ \A k \in 0 .. f - 2 - e : w[k + 1] = s[e + k + 1]

LEMMA WordShape ==
  ASSUME NEW s, Fits(s), NEW e \in Ends(s), e <= Len(s), NEW f, FollowsEnd(s, e, f),
         NEW w, w = SubSeq(s, e + 1, f - 1)
  PROVE  Between(s, e, f, w)
<1>1. e \in Nat /\ f \in Nat /\ e < f /\ f <= Len(s) + 1 /\ Len(s) \in Nat /\ s \in Seq(Char)
  BY WordEnds DEF Fits
<1>2. e + 1 \in 1 .. Len(s) + 1 /\ f - 1 \in e .. Len(s)
  BY <1>1
<1>3. w \in Seq(Char)
  BY <1>1, <1>2
<1>4. Len(w) = f - 1 - e
  BY <1>1, <1>2
<1>5. ASSUME NEW k \in 0 .. f - 2 - e PROVE w[k + 1] = s[e + k + 1]
  BY <1>1, <1>2
<1>6. f - 1 - e \in Nat
  BY <1>1
<1> QED
  BY <1>3, <1>4, <1>5, <1>6 DEF Between

\* One step of get_string: from a word to the next.
NextWord(b, p) ==
    IF p = NULL \/ b[EndOfWord(b, p)] = NUL THEN NULL ELSE EndOfWord(b, p) + 1

LEMMA PointerSteps ==
  ASSUME NEW b
  PROVE  /\ Pointer(b, 0) = 0 /\ Pointer(b, 1) = NextWord(b, 0)
         /\ Pointer(b, 2) = NextWord(b, NextWord(b, 0))
<1> DEFINE F(at, n) == [k \in 0 .. n |->
               IF k = 0 THEN 0
               ELSE IF at[k - 1] = NULL \/ b[EndOfWord(b, at[k - 1])] = NUL THEN NULL
               ELSE EndOfWord(b, at[k - 1]) + 1]
<1> DEFINE at0 == [k \in 0 .. 0 |-> 0]
<1> DEFINE at1 == [k \in 0 .. 1 |-> IF k = 0 THEN 0 ELSE NextWord(b, 0)]
<1> DEFINE at2 == [k \in 0 .. 2 |-> IF k = 0 THEN 0 ELSE IF k = 1 THEN NextWord(b, 0)
                                    ELSE NextWord(b, NextWord(b, 0))]
<1>1. at0 = F(at0, 0)
  OBVIOUS
<1>2. at1 = F(at1, 1)
  BY DEF NextWord
<1>3. at2 = F(at2, 2)
  <2>1. \A k \in 0 .. 2 : at2[k] = F(at2, 2)[k]
    <3>1. at2[0] = F(at2, 2)[0]
      OBVIOUS
    <3>2. at2[1] = F(at2, 2)[1]
      BY DEF NextWord
    <3>3. at2[2] = F(at2, 2)[2]
      BY DEF NextWord
    <3> QED
      BY <3>1, <3>2, <3>3
  <2> QED
    BY <2>1
<1>4. /\ Pointer(b, 0) = (CHOOSE at : at = F(at, 0))[0]
      /\ Pointer(b, 1) = (CHOOSE at : at = F(at, 1))[1]
      /\ Pointer(b, 2) = (CHOOSE at : at = F(at, 2))[2]
  BY DEF Pointer
<1>5. (CHOOSE at : at = F(at, 0)) = F(CHOOSE at : at = F(at, 0), 0)
  BY <1>1
<1>6. (CHOOSE at : at = F(at, 1)) = F(CHOOSE at : at = F(at, 1), 1)
  BY <1>2
<1>7. (CHOOSE at : at = F(at, 2)) = F(CHOOSE at : at = F(at, 2), 2)
  BY <1>3
<1> DEFINE c0 == CHOOSE at : at = F(at, 0)
<1> DEFINE c1 == CHOOSE at : at = F(at, 1)
<1> DEFINE c2 == CHOOSE at : at = F(at, 2)
<1>8. c0 = F(c0, 0) /\ c1 = F(c1, 1) /\ c2 = F(c2, 2)
  BY <1>5, <1>6, <1>7
<1>9. Pointer(b, 0) = c0[0] /\ Pointer(b, 1) = c1[1] /\ Pointer(b, 2) = c2[2]
  BY <1>4
<1> HIDE DEF c0, c1, c2, at0, at1, at2
<1>10. c0[0] = 0
  BY <1>8
<1>11. c1[0] = 0 /\ c1[1] = NextWord(b, 0)
  <2>1. c1[0] = 0
    BY <1>8
  <2>2. c1[1] = NextWord(b, c1[0])
    BY <1>8 DEF NextWord
  <2> QED
    BY <2>1, <2>2
<1>12. c2[2] = NextWord(b, NextWord(b, 0))
  <2>1. c2[0] = 0
    BY <1>8
  <2>2. c2[1] = NextWord(b, c2[0])
    BY <1>8 DEF NextWord
  <2>3. c2[2] = NextWord(b, c2[1])
    BY <1>8 DEF NextWord
  <2> QED
    BY <2>1, <2>2, <2>3
<1> QED
  BY <1>9, <1>10, <1>11, <1>12

\* From one of a line's words get_string steps to the next, or says there is none.
LEMMA NextWordIs ==
  ASSUME NEW s, Fits(s), NEW k, NEW e, IsEnd(s, k, e), e <= Len(s)
  PROVE  \/ /\ NextWord(Literal(s), e) = NULL /\ k = Cardinality(Blanks(s))
         \/ /\ k < Cardinality(Blanks(s))
            /\ \E f \in Ends(s) : /\ NextWord(Literal(s), e) = f
                                  /\ IsEnd(s, k + 1, f) /\ f <= Len(s)
<1>1. e \in Ends(s) /\ e # NULL /\ e \in Nat
  BY EndsAre DEF IsEnd, NULL
<1>2. PICK f \in Ends(s) : FollowsEnd(s, e, f)
  BY <1>1, NextEnd
<1>3. /\ EndOfWord(Literal(s), e) = f - 1 /\ (Literal(s)[f - 1] = NUL <=> f = Len(s) + 1)
      /\ f \in Nat /\ f <= Len(s) + 1 /\ Len(s) \in Nat
  BY <1>1, <1>2, WordEnds
<1>4. IsEnd(s, k + 1, f)
  BY <1>2, CountFollows
<1>5. k \in Nat /\ Cardinality(Blanks(s)) \in Nat
  BY EndCount, CountOfLast
<1>6. CASE f = Len(s) + 1
  <2>1. NextWord(Literal(s), e) = NULL
    BY <1>3, <1>6 DEF NextWord
  <2>2. k + 1 = Cardinality(Blanks(s)) + 1
    BY <1>4, <1>6, CountOfLast
  <2> QED
    BY <1>5, <2>1, <2>2
<1>7. CASE f # Len(s) + 1
  <2>1. f <= Len(s)
    BY <1>3, <1>7
  <2>2. NextWord(Literal(s), e) = f
    BY <1>1, <1>3, <1>7 DEF NextWord
  <2>3. k + 1 <= Cardinality(Blanks(s))
    BY <1>4, <2>1, CountOfLast
  <2> QED
    BY <1>4, <1>5, <2>1, <2>2, <2>3
<1> QED
  BY <1>6, <1>7

\* get_string(b, n) points at the line's word n, or at nothing if it has none.
LEMMA PointerIs ==
  ASSUME NEW s, Fits(s), NEW n \in 0 .. 2
  PROVE  \/ /\ n > Cardinality(Blanks(s)) /\ Pointer(Literal(s), n) = NULL
         \/ /\ n <= Cardinality(Blanks(s))
            /\ \E e \in Ends(s) : /\ Pointer(Literal(s), n) = e
                                  /\ IsEnd(s, n, e) /\ e <= Len(s)
<1>1. IsEnd(s, 0, 0) /\ 0 <= Len(s) /\ 0 \in Ends(s) /\ Cardinality(Blanks(s)) \in Nat
  BY EndsAre, EndCount
<1>2. /\ Pointer(Literal(s), 0) = 0 /\ Pointer(Literal(s), 1) = NextWord(Literal(s), 0)
      /\ Pointer(Literal(s), 2) = NextWord(Literal(s), NextWord(Literal(s), 0))
  BY PointerSteps
<1>3. CASE n = 0
  BY <1>1, <1>2, <1>3
<1>4. \/ NextWord(Literal(s), 0) = NULL /\ 0 = Cardinality(Blanks(s))
      \/ /\ 0 < Cardinality(Blanks(s))
         /\ \E f \in Ends(s) : /\ NextWord(Literal(s), 0) = f /\ IsEnd(s, 0 + 1, f)
                               /\ f <= Len(s)
  BY <1>1, NextWordIs
<1>5. 0 + 1 = 1 /\ 1 + 1 = 2
  OBVIOUS
<1>6. CASE n = 1
  <2>1. CASE NextWord(Literal(s), 0) = NULL /\ 0 = Cardinality(Blanks(s))
    BY <1>2, <1>6, <2>1
  <2>2. ASSUME 0 < Cardinality(Blanks(s)),
               NEW f \in Ends(s), NextWord(Literal(s), 0) = f, IsEnd(s, 0 + 1, f), f <= Len(s)
        PROVE  /\ n <= Cardinality(Blanks(s))
               /\ Pointer(Literal(s), n) = f /\ IsEnd(s, n, f) /\ f <= Len(s)
    <3>1. IsEnd(s, 1, f)
      BY <1>5, <2>2
    <3> QED
      BY <1>1, <1>2, <1>6, <2>2, <3>1
  <2> QED
    BY <1>4, <2>1, <2>2
<1>7. CASE n = 2
  <2>1. CASE NextWord(Literal(s), 0) = NULL /\ 0 = Cardinality(Blanks(s))
    <3>1. NextWord(Literal(s), NULL) = NULL
      BY DEF NextWord
    <3> QED
      BY <1>2, <1>7, <2>1, <3>1
  <2>2. ASSUME 0 < Cardinality(Blanks(s)),
               NEW f \in Ends(s), NextWord(Literal(s), 0) = f, IsEnd(s, 0 + 1, f), f <= Len(s)
        PROVE  \/ /\ n > Cardinality(Blanks(s)) /\ Pointer(Literal(s), n) = NULL
               \/ /\ n <= Cardinality(Blanks(s))
                  /\ \E e \in Ends(s) : /\ Pointer(Literal(s), n) = e
                                        /\ IsEnd(s, n, e) /\ e <= Len(s)
    <3>1. IsEnd(s, 1, f)
      BY <1>5, <2>2
    <3>2. Pointer(Literal(s), 2) = NextWord(Literal(s), f)
      BY <1>2, <2>2
    <3>3. \/ NextWord(Literal(s), f) = NULL /\ 1 = Cardinality(Blanks(s))
          \/ /\ 1 < Cardinality(Blanks(s))
             /\ \E g \in Ends(s) : /\ NextWord(Literal(s), f) = g /\ IsEnd(s, 1 + 1, g)
                                   /\ g <= Len(s)
      BY <2>2, <3>1, NextWordIs
    <3>4. CASE NextWord(Literal(s), f) = NULL /\ 1 = Cardinality(Blanks(s))
      BY <1>7, <3>2, <3>4
    <3>5. ASSUME 1 < Cardinality(Blanks(s)),
                 NEW g \in Ends(s), NextWord(Literal(s), f) = g, IsEnd(s, 1 + 1, g), g <= Len(s)
          PROVE  /\ n <= Cardinality(Blanks(s))
                 /\ Pointer(Literal(s), n) = g /\ IsEnd(s, n, g) /\ g <= Len(s)
      <4>1. IsEnd(s, 2, g)
        BY <1>5, <3>5
      <4> QED
        BY <1>1, <1>7, <3>2, <3>5, <4>1
    <3> QED
      BY <3>3, <3>4, <3>5
  <2> QED
    BY <1>4, <2>1, <2>2
<1> QED
  BY <1>3, <1>6, <1>7

-----------------------------------------------------------------------------
(* What is cut out of a copy of the line *)

\* From the end of its word on the copy is clear.
LEMMA CutIs ==
  ASSUME NEW s, Fits(s), NEW e \in Ends(s), e <= Len(s), NEW f, FollowsEnd(s, e, f)
  PROVE  /\ Cut(Literal(s), e) =
               [q \in 0 .. INPUT_SIZE - 1 |-> IF q >= f - 1 THEN NUL ELSE Literal(s)[q]]
         /\ Cut(Literal(s), e) \in Buffer
<1>1. /\ EndOfWord(Literal(s), e) = f - 1 /\ e \in Nat /\ f \in Nat /\ e < f
      /\ f <= Len(s) + 1 /\ Len(s) \in Nat
  BY WordEnds
<1>2. /\ Len(s) + NAME_SIZE <= INPUT_SIZE /\ INPUT_SIZE \in Nat /\ NAME_SIZE \in Nat
      /\ NAME_SIZE > 0 /\ DOMAIN Literal(s) = 0 .. INPUT_SIZE - 1 /\ Literal(s) \in Buffer
  BY Sizes, LineInBuffer
<1>3. First(Literal(s), f - 1, {NUL}) = Len(s)
  <2>1. f - 1 \in Nat /\ Len(s) \in f - 1 .. INPUT_SIZE - 1 /\ Len(s) \in 0 .. INPUT_SIZE - 1
    BY <1>1, <1>2
  <2>2. Literal(s)[Len(s)] \in {NUL}
    BY <2>1, LineInBuffer
  <2>3. ASSUME NEW k \in f - 1 .. Len(s) - 1 PROVE Literal(s)[k] \notin {NUL}
    <3>1. k \in 0 .. INPUT_SIZE - 1 /\ k < Len(s)
      BY <1>1, <1>2, <2>1
    <3> QED
      BY <3>1, LineInBuffer
  <2> QED
    BY <2>1, <2>2, <2>3, FirstIs
<1>4. Cut(Literal(s), e) =
          [q \in 0 .. INPUT_SIZE - 1 |->
              IF q \in f - 1 .. Len(s) THEN NUL ELSE Literal(s)[q]]
  <2>1. e # NULL
    BY <1>1 DEF NULL
  <2> QED
    BY <1>1, <1>2, <1>3, <2>1 DEF Cut
<1>5. ASSUME NEW q \in 0 .. INPUT_SIZE - 1
      PROVE  (IF q \in f - 1 .. Len(s) THEN NUL ELSE Literal(s)[q])
                 = (IF q >= f - 1 THEN NUL ELSE Literal(s)[q])
  <2>1. q > Len(s) => Literal(s)[q] = NUL
    BY <1>1, LineInBuffer
  <2> QED
    BY <1>1, <2>1
<1>6. Cut(Literal(s), e) \in Buffer
  BY <1>2, <1>4 DEF Buffer
<1> QED
  BY <1>4, <1>5, <1>6

\* A name copied from a word's place is that word, cut off or filled up.
LEMMA NameIs ==
  ASSUME NEW s, Fits(s), NEW n, NEW e, IsEnd(s, n, e), e <= Len(s)
  PROVE  /\ [k \in 0 .. NAME_SIZE - 1 |-> Cut(Literal(s), e)[e + k]] = AsName(WordOf(s, n))
         /\ AsName(WordOf(s, n)) \in FileName /\ Cut(Literal(s), e) \in Buffer
<1>1. e \in Ends(s)
  BY DEF IsEnd
<1>2. PICK f \in Ends(s) : FollowsEnd(s, e, f)
  BY <1>1, NextEnd
<1>3. e \in Nat /\ f \in Nat /\ e < f /\ f <= Len(s) + 1 /\ Len(s) \in Nat
  BY <1>1, <1>2, WordEnds
<1>4. /\ Len(s) + NAME_SIZE <= INPUT_SIZE /\ INPUT_SIZE \in Nat /\ NAME_SIZE \in Nat
      /\ NAME_SIZE > 0
  BY Sizes, LineInBuffer
<1>5. WordOf(s, n) = SubSeq(s, e + 1, f - 1)
  BY <1>2, CountFollows, WordIs
<1>6. PICK w : w = SubSeq(s, e + 1, f - 1)
  OBVIOUS
<1>7. /\ Len(w) = f - 1 - e /\ f - 1 - e \in Nat
      /\ \A k \in 0 .. f - 2 - e : w[k + 1] = s[e + k + 1]
  <2>1. Between(s, e, f, w)
    BY <1>1, <1>2, <1>6, WordShape, Zenon
  <2> QED
    BY <2>1 DEF Between
<1>8. /\ Cut(Literal(s), e) =
             [q \in 0 .. INPUT_SIZE - 1 |-> IF q >= f - 1 THEN NUL ELSE Literal(s)[q]]
      /\ Cut(Literal(s), e) \in Buffer
  BY <1>1, <1>2, CutIs
<1>9. ASSUME NEW k \in 0 .. NAME_SIZE - 1
      PROVE  /\ Cut(Literal(s), e)[e + k] = IF k < Len(w) THEN w[k + 1] ELSE NUL
             /\ Cut(Literal(s), e)[e + k] \in Char \cup {NUL}
  <2>1. e + k \in 0 .. INPUT_SIZE - 1
    BY <1>3, <1>4
  <2>2. Cut(Literal(s), e)[e + k] \in Char \cup {NUL}
    BY <1>8, <2>1 DEF Buffer
  <2>3. CASE k < f - 1 - e
    <3>1. k \in 0 .. f - 2 - e /\ e + k < Len(s) /\ ~ (e + k >= f - 1)
      BY <1>3, <1>4, <2>3
    <3>2. Literal(s)[e + k] = s[e + k + 1]
      BY <2>1, <3>1, LineInBuffer
    <3>3. Cut(Literal(s), e)[e + k] = Literal(s)[e + k]
      BY <1>8, <2>1, <3>1
    <3> QED
      BY <1>7, <2>2, <2>3, <3>1, <3>2, <3>3
  <2>4. CASE ~ (k < f - 1 - e)
    <3>1. e + k >= f - 1
      BY <1>3, <1>4, <2>4
    <3>2. Cut(Literal(s), e)[e + k] = NUL
      BY <1>8, <2>1, <3>1
    <3> QED
      BY <1>7, <2>2, <2>4, <3>2
  <2> QED
    BY <2>3, <2>4
<1>10. [k \in 0 .. NAME_SIZE - 1 |-> Cut(Literal(s), e)[e + k]] = AsName(w)
  BY <1>9 DEF AsName
<1>11. AsName(w) \in FileName
  BY <1>9 DEF AsName, FileName
<1>12. WordOf(s, n) = w
  BY <1>5, <1>6
<1> QED
  BY <1>8, <1>10, <1>11, <1>12

\* What a command finds where get_string(b, n) points: the line's word n, or what lies
\* at address 0 if the line has no such word.
LEMMA NamesFound ==
  ASSUME NEW s, Fits(s), NEW n \in 1 .. 2
  PROVE  /\ NamesAt(Cut(Literal(s), Pointer(Literal(s), n)), Pointer(Literal(s), n)) =
               IF n > Cardinality(Blanks(s)) THEN AtAddress0 ELSE {AsName(WordOf(s, n))}
         /\ NamesAt(Cut(Literal(s), Pointer(Literal(s), n)), Pointer(Literal(s), n))
               \subseteq FileName
         /\ Cut(Literal(s), Pointer(Literal(s), n)) \in Buffer
<1>1. AtAddress0 \subseteq FileName /\ n \in 0 .. 2 /\ n \in Int
      /\ Cardinality(Blanks(s)) \in Nat /\ Literal(s) \in Buffer
  BY CommandAssumption, EndCount, LineInBuffer
<1>2. CASE n > Cardinality(Blanks(s)) /\ Pointer(Literal(s), n) = NULL
  BY <1>1, <1>2 DEF NamesAt, Cut
<1>3. ASSUME n <= Cardinality(Blanks(s)), NEW e \in Ends(s), Pointer(Literal(s), n) = e,
             IsEnd(s, n, e), e <= Len(s)
      PROVE  /\ NamesAt(Cut(Literal(s), e), e) = {AsName(WordOf(s, n))}
             /\ ~ (n > Cardinality(Blanks(s)))
             /\ AsName(WordOf(s, n)) \in FileName /\ Cut(Literal(s), e) \in Buffer
  <2>1. /\ [k \in 0 .. NAME_SIZE - 1 |-> Cut(Literal(s), e)[e + k]] = AsName(WordOf(s, n))
        /\ AsName(WordOf(s, n)) \in FileName /\ Cut(Literal(s), e) \in Buffer
    BY <1>3, NameIs
  <2>2. e # NULL
    BY EndsAre DEF NULL
  <2>3. NamesAt(Cut(Literal(s), e), e) = {AsName(WordOf(s, n))}
    BY <2>1, <2>2, Zenon DEF NamesAt
  <2>4. ~ (n > Cardinality(Blanks(s)))
    BY <1>1, <1>3
  <2> QED
    BY <2>1, <2>3, <2>4
<1>4. \/ /\ n > Cardinality(Blanks(s)) /\ Pointer(Literal(s), n) = NULL
      \/ /\ n <= Cardinality(Blanks(s))
         /\ \E e \in Ends(s) : /\ Pointer(Literal(s), n) = e
                               /\ IsEnd(s, n, e) /\ e <= Len(s)
  BY <1>1, PointerIs
<1> QED
  BY <1>2, <1>3, <1>4

\* The line itself is cut down to its first word.
LEMMA FirstWord ==
  ASSUME NEW s, Fits(s)
  PROVE  /\ Cut(Literal(s), Pointer(Literal(s), 0)) = Literal(WordOf(s, 0))
         /\ Fits(WordOf(s, 0))
<1>1. IsEnd(s, 0, 0) /\ 0 \in Ends(s) /\ 0 <= Len(s) /\ Pointer(Literal(s), 0) = 0
  BY EndsAre, EndCount, PointerSteps
<1>2. PICK f \in Ends(s) : FollowsEnd(s, 0, f)
  BY <1>1, NextEnd
<1>3. f \in Nat /\ 0 < f /\ f <= Len(s) + 1 /\ Len(s) \in Nat
  BY <1>1, <1>2, WordEnds
<1>4. /\ Len(s) + NAME_SIZE <= INPUT_SIZE /\ INPUT_SIZE \in Nat /\ NAME_SIZE \in Nat
      /\ NAME_SIZE > 0
  BY Sizes, LineInBuffer
<1>5. IsEnd(s, 0 + 1, f)
  BY <1>1, <1>2, CountFollows
<1>6. WordOf(s, 0) = SubSeq(s, 0 + 1, f - 1)
  BY <1>1, <1>5, WordIs
<1>7. PICK w : w = SubSeq(s, 0 + 1, f - 1)
  OBVIOUS
<1>8. /\ w \in Seq(Char) /\ Len(w) = f - 1 - 0
      /\ \A k \in 0 .. f - 2 - 0 : w[k + 1] = s[0 + k + 1]
  <2>1. Between(s, 0, f, w)
    BY <1>1, <1>2, <1>7, WordShape, Zenon
  <2> QED
    BY <2>1 DEF Between
<1>9. Cut(Literal(s), 0) =
          [q \in 0 .. INPUT_SIZE - 1 |-> IF q >= f - 1 THEN NUL ELSE Literal(s)[q]]
  BY <1>1, <1>2, CutIs
<1>10. ASSUME NEW q \in 0 .. INPUT_SIZE - 1
      PROVE  Cut(Literal(s), 0)[q] = Literal(w)[q]
  <2>1. CASE q >= f - 1
    <3>1. Len(w) = f - 1 /\ ~ (q < Len(w))
      BY <1>3, <1>8, <2>1
    <3>2. Literal(w)[q] = NUL
      BY <3>1 DEF Literal
    <3> QED
      BY <1>9, <2>1, <3>2
  <2>2. CASE ~ (q >= f - 1)
    <3>1. q < Len(s) /\ q \in 0 .. f - 2 - 0 /\ q < Len(w) /\ 0 + q + 1 = q + 1
      BY <1>3, <1>8, <2>2
    <3>2. Literal(s)[q] = s[q + 1] /\ w[q + 1] = s[q + 1]
      BY <1>8, <3>1, LineInBuffer
    <3> QED
      BY <1>9, <2>2, <3>1, <3>2 DEF Literal
  <2> QED
    BY <2>1, <2>2
<1>11. Cut(Literal(s), 0) = Literal(w)
  BY <1>9, <1>10 DEF Literal
<1>12. Fits(w)
  BY <1>3, <1>4, <1>8 DEF Fits
<1>13. WordOf(s, 0) = w
  BY <1>6, <1>7
<1> QED
  BY <1>1, <1>11, <1>12, <1>13

\* strcmp of two words in their buffers tells whether they are the same word.
LEMMA StrcmpTells ==
  ASSUME NEW s, NEW w, s \in Seq(Char), w \in Seq(Char), Len(s) < INPUT_SIZE,
         Len(w) < INPUT_SIZE
  PROVE  strcmp(Literal(s), Literal(w)) <=> s = w
<1>1. /\ Len(s) \in Nat /\ Len(w) \in Nat /\ INPUT_SIZE \in Nat /\ NUL \notin Char
      /\ \A q \in 1 .. Len(s) : s[q] \in Char
      /\ \A q \in 1 .. Len(w) : w[q] \in Char
  BY Sizes, CharAssumption
<1> DEFINE a == Literal(s)
<1> DEFINE b == Literal(w)
<1>2. /\ DOMAIN a = 0 .. INPUT_SIZE - 1
      /\ \A q \in 0 .. INPUT_SIZE - 1 : a[q] = (IF q < Len(s) THEN s[q + 1] ELSE NUL)
      /\ \A q \in 0 .. INPUT_SIZE - 1 : b[q] = (IF q < Len(w) THEN w[q + 1] ELSE NUL)
  BY DEF Literal
<1> DEFINE Stop(q) == (a[q] = NUL \/ a[q] # b[q])
                      /\ \A r \in 0 .. q - 1 : a[r] # NUL /\ a[r] = b[r]
<1> DEFINE k == CHOOSE q \in DOMAIN a : Stop(q)
<1>3. strcmp(a, b) <=> a[k] = NUL /\ b[k] = NUL
  BY DEF strcmp
<1> HIDE DEF a, b
<1>4. k \in 0 .. INPUT_SIZE - 1 /\ Stop(k)
  <2> DEFINE T == {q \in 0 .. INPUT_SIZE - 1 : a[q] = NUL \/ a[q] # b[q]}
  <2>1. Len(s) \in T /\ T \in SUBSET Nat
    BY <1>1, <1>2
  <2>2. PICK q \in T : \A r \in T : q <= r
    <3>1. T # {}
      BY <2>1
    <3> HIDE DEF T
    <3> QED
      BY <2>1, <3>1, LeastNumber
  <2>3. ASSUME NEW r \in 0 .. q - 1 PROVE a[r] # NUL /\ a[r] = b[r]
    <3>1. r \in 0 .. INPUT_SIZE - 1 /\ ~ (q <= r)
      BY <1>1, <2>2
    <3> QED
      BY <2>2, <3>1
  <2>4. q \in DOMAIN a /\ Stop(q)
    BY <1>2, <2>2, <2>3
  <2> HIDE DEF Stop
  <2>5. k \in DOMAIN a /\ Stop(k)
    BY <2>4
  <2> QED
    BY <1>2, <2>5
<1> HIDE DEF k
<1>5. ASSUME a[k] = NUL, b[k] = NUL PROVE s = w
  <2>1. k = Len(s)
    <3>1. ~ (k < Len(s))
      <4>1. CASE k < Len(s)
        <5>1. a[k] = s[k + 1] /\ k + 1 \in 1 .. Len(s)
          BY <1>1, <1>2, <1>4, <4>1
        <5> QED
          BY <1>1, <1>5, <5>1
      <4> QED
        BY <4>1
    <3>2. ~ (Len(s) < k)
      <4>1. CASE Len(s) < k
        <5>1. Len(s) \in 0 .. k - 1 /\ a[Len(s)] = NUL
          BY <1>1, <1>2, <1>4, <4>1
        <5> QED
          BY <1>4, <5>1
      <4> QED
        BY <4>1
    <3> QED
      BY <1>1, <1>4, <3>1, <3>2
  <2>2. k = Len(w)
    <3>1. ~ (k < Len(w))
      <4>1. CASE k < Len(w)
        <5>1. b[k] = w[k + 1] /\ k + 1 \in 1 .. Len(w)
          BY <1>1, <1>2, <1>4, <4>1
        <5> QED
          BY <1>1, <1>5, <5>1
      <4> QED
        BY <4>1
    <3>2. ~ (Len(w) < k)
      <4>1. CASE Len(w) < k
        <5>1. Len(w) \in 0 .. k - 1 /\ b[Len(w)] = NUL
          BY <1>1, <1>2, <1>4, <4>1
        <5> QED
          BY <1>4, <5>1
      <4> QED
        BY <4>1
    <3> QED
      BY <1>1, <1>4, <3>1, <3>2
  <2>3. ASSUME NEW r \in 1 .. Len(s) PROVE s[r] = w[r]
    <3>1. r - 1 \in 0 .. k - 1 /\ r - 1 \in 0 .. INPUT_SIZE - 1 /\ r - 1 < Len(s)
          /\ r - 1 < Len(w) /\ r - 1 + 1 = r
      BY <1>1, <2>1, <2>2
    <3>2. a[r - 1] = b[r - 1]
      BY <1>4, <3>1
    <3>3. a[r - 1] = s[r - 1 + 1] /\ b[r - 1] = w[r - 1 + 1]
      BY <1>2, <3>1
    <3> QED
      BY <3>1, <3>2, <3>3
  <2>4. s \in [1 .. Len(s) -> Char] /\ w \in [1 .. Len(s) -> Char]
    <3>1. \A t \in Seq(Char) : t \in [1 .. Len(t) -> Char]
      OBVIOUS
    <3>2. Len(s) = Len(w)
      BY <2>1, <2>2
    <3>3. s \in [1 .. Len(s) -> Char] /\ w \in [1 .. Len(w) -> Char]
      BY <3>1
    <3> QED
      BY <3>2, <3>3
  <2> QED
    BY <2>3, <2>4
<1>6. ASSUME s = w PROVE a[k] = NUL /\ b[k] = NUL
  <2>1. a[k] = b[k]
    BY <1>6 DEF a, b
  <2> QED
    BY <1>4, <2>1
<1>7. strcmp(a, b) <=> s = w
  BY <1>3, <1>5, <1>6
<1> QED
  BY <1>7 DEF a, b

-----------------------------------------------------------------------------
(* The invariant: the copy is of the line until a word is cut out of it. *)

CopyIsLine == pc = "words" => temp = Literal(line)

Inv == TypeOK /\ LineInv /\ CopyIsLine /\ CommandIsFirstWord /\ NamesAreWords

LEMMA LineIsFit == ASSUME LineInv PROVE Fits(line) /\ Len(line) = i /\ i \in Nat
<1>1. line \in Seq(Char) /\ Len(line) = i /\ i <= INPUT_SIZE - NAME_SIZE
  BY DEF LineInv, LineFits
<1> QED
  BY <1>1 DEF Fits

LEMMA CleanIsBuffer == Clean \in Buffer
  BY Sizes DEF Clean, Buffer

LEMMA InvInit == Init => Inv
<1> SUFFICES ASSUME Init PROVE Inv
  OBVIOUS
<1>1. /\ input = Clean /\ i = 0 /\ temp = Clean /\ temp2 = Clean /\ command = NotFound
      /\ passed = <<>> /\ pc = "prompt" /\ line = <<>>
  BY DEF Init
<1>2. TypeOK
  <2>1. 0 \in 0 .. INPUT_SIZE - NAME_SIZE
    BY Sizes
  <2> QED
    BY <1>1, <2>1, CleanIsBuffer DEF TypeOK
<1> QED
  BY <1>1, <1>2, LineInit DEF Inv, CopyIsLine, CommandIsFirstWord, NamesAreWords

\* At the prompt there is only the line.
LEMMA PromptKeeps ==
  ASSUME LineInv', pc' = "prompt", {temp', temp2'} \subseteq Buffer,
         command' \in Command \cup {NotFound}, passed' \in Seq(FileName)
  PROVE  Inv'
<1>1. input' \in Buffer /\ i' \in 0 .. INPUT_SIZE - NAME_SIZE
  <2>1. /\ input' = Literal(line') /\ line' \in Seq(Char) /\ Len(line') = i'
        /\ i' <= INPUT_SIZE - NAME_SIZE
    BY DEF LineInv, LineFits, BufferIsLine
  <2>2. Fits(line')
    BY <2>1 DEF Fits
  <2>3. Literal(line') \in Buffer
    BY <2>2, LineInBuffer
  <2>4. i' \in Nat
    BY <2>1
  <2> QED
    BY <2>1, <2>3, <2>4, Sizes
<1>2. TypeOK'
  BY <1>1 DEF TypeOK, LineInv, LineFits
<1> QED
  BY <1>2 DEF Inv, CopyIsLine, CommandIsFirstWord, NamesAreWords

\* The words of the commands, as lines.
LEMMA CommandsAre ==
  ASSUME NEW w \in Command PROVE w \in Seq(Char) /\ Len(w) < INPUT_SIZE
<1>1. w \in Seq(Letter) /\ Len(w) \in 1 .. INPUT_SIZE - 1
  BY CommandAssumption
<1> QED
  BY <1>1, Sizes DEF Char

\* handle_command's comparisons choose the command by the line and its first word.
LEMMA DispatchKeeps == ASSUME Inv, Dispatch PROVE Inv'
<1>1. /\ pc = "prompt" /\ temp' = input /\ input' = Cut(input, Pointer(input, 0))
      /\ pc' = "words" /\ UNCHANGED <<i, temp2, passed, line>>
      /\ command' = IF \E w \in WholeLine : strcmp(temp', Literal(w))
                    THEN CHOOSE w \in WholeLine : strcmp(temp', Literal(w))
                    ELSE IF \E w \in OneWord \cup TwoWords : strcmp(input', Literal(w))
                    THEN CHOOSE w \in OneWord \cup TwoWords : strcmp(input', Literal(w))
                    ELSE NotFound
  BY DEF Dispatch
<1>2. Fits(line) /\ input = Literal(line)
  BY <1>1, LineIsFit DEF Inv, LineInv, BufferIsLine
<1>3. PICK c : c = WordOf(line, 0)
  OBVIOUS
<1>4. temp' = Literal(line) /\ input' = Literal(c) /\ Fits(c)
  <2>1. Cut(Literal(line), Pointer(Literal(line), 0)) = Literal(WordOf(line, 0))
        /\ Fits(WordOf(line, 0))
    BY <1>2, FirstWord
  <2> QED
    BY <1>1, <1>2, <1>3, <2>1
<1>5. /\ line \in Seq(Char) /\ c \in Seq(Char) /\ Len(line) < INPUT_SIZE /\ Len(c) < INPUT_SIZE
  BY <1>2, <1>4, Sizes DEF Fits
<1>6. ASSUME NEW w \in WholeLine PROVE strcmp(temp', Literal(w)) <=> w = line
  BY <1>4, <1>5, CommandsAre, StrcmpTells DEF Command
<1>7. ASSUME NEW w \in OneWord \cup TwoWords PROVE strcmp(input', Literal(w)) <=> w = c
  BY <1>4, <1>5, CommandsAre, StrcmpTells DEF Command
<1>8. command' = IF line \in WholeLine THEN line
                 ELSE IF c \in OneWord \cup TwoWords THEN c ELSE NotFound
  <2>1. (\E w \in WholeLine : strcmp(temp', Literal(w))) <=> line \in WholeLine
    BY <1>6
  <2>2. (\E w \in OneWord \cup TwoWords : strcmp(input', Literal(w)))
            <=> c \in OneWord \cup TwoWords
    BY <1>7
  <2>3. ASSUME line \in WholeLine
        PROVE  (CHOOSE w \in WholeLine : strcmp(temp', Literal(w))) = line
    BY <1>6, <2>3
  <2>4. ASSUME c \in OneWord \cup TwoWords
        PROVE  (CHOOSE w \in OneWord \cup TwoWords : strcmp(input', Literal(w))) = c
    BY <1>7, <2>4
  <2> QED
    BY <1>1, <2>1, <2>2, <2>3, <2>4
<1>9. CommandIsFirstWord'
  BY <1>1, <1>3, <1>8 DEF CommandIsFirstWord
<1>10. TypeOK'
  <2>1. temp' \in Buffer /\ input' \in Buffer
    BY <1>2, <1>4, LineInBuffer
  <2>2. command' \in Command \cup {NotFound}
    BY <1>8 DEF Command
  <2> QED
    BY <1>1, <2>1, <2>2 DEF Inv, TypeOK
<1>11. LineInv'
  BY <1>1 DEF Inv, LineInv, LineFits, BufferIsLine
<1> QED
  BY <1>1, <1>4, <1>9, <1>10, <1>11 DEF Inv, CopyIsLine, NamesAreWords

\* What a command that has its names leaves as it is.
LEMMA NamesKeep ==
  ASSUME Inv, pc = "words", pc' = "run", UNCHANGED <<input, i, command, line>>,
         {temp', temp2'} \subseteq Buffer, passed' \in Seq(FileName), NamesAreWords'
  PROVE  Inv'
<1>1. TypeOK'
  BY DEF Inv, TypeOK
<1>2. LineInv'
  BY DEF Inv, LineInv, LineFits, BufferIsLine
<1>3. CommandIsFirstWord'
  BY DEF Inv, CommandIsFirstWord
<1> QED
  BY <1>1, <1>2, <1>3 DEF Inv, CopyIsLine

LEMMA OneNameKeeps == ASSUME Inv, OneName PROVE Inv'
<1>1. /\ pc = "words" /\ command \in OneWord /\ temp' = Cut(temp, Pointer(temp, 1))
      /\ pc' = "run" /\ UNCHANGED <<input, i, temp2, command, line>>
  BY DEF OneName
<1>2. PICK x \in NamesAt(temp', Pointer(temp, 1)) : passed' = <<x>>
  BY DEF OneName
<1>3. Fits(line) /\ temp = Literal(line) /\ temp2 \in Buffer
  BY <1>1, LineIsFit DEF Inv, CopyIsLine, TypeOK
<1>4. /\ NamesAt(temp', Pointer(temp, 1)) =
             IF 1 > Cardinality(Blanks(line)) THEN AtAddress0 ELSE {AsName(WordOf(line, 1))}
      /\ NamesAt(temp', Pointer(temp, 1)) \subseteq FileName /\ temp' \in Buffer
  BY <1>1, <1>3, NamesFound
<1>5. passed' \in Seq(FileName) /\ Len(passed') = 1 /\ passed'[1] = x
  BY <1>2, <1>4
<1>6. NamesAreWords'
  <2>1. Takes(command) = 1 /\ Takes(command)' = 1
    BY <1>1 DEF Takes
  <2>2. passed'[1] \in IF 1 > Cardinality(Blanks(line)) THEN AtAddress0
                       ELSE {AsName(WordOf(line, 1))}
    BY <1>2, <1>4, <1>5
  <2>3. ASSUME NEW n \in 1 .. Takes(command)'
        PROVE  passed'[n] \in IF n > Cardinality(Blanks(line')) THEN AtAddress0
                              ELSE {AsName(WordOf(line', n))}
    <3>1. n = 1 /\ line' = line
      BY <1>1, <2>1
    <3> QED
      BY <2>2, <3>1
  <2> QED
    BY <1>5, <2>1, <2>3 DEF NamesAreWords
<1> QED
  BY <1>1, <1>3, <1>4, <1>5, <1>6, NamesKeep

LEMMA TwoNamesKeep == ASSUME Inv, TwoNames PROVE Inv'
<1>1. /\ pc = "words" /\ command \in TwoWords
      /\ temp' = Cut(temp, Pointer(temp, 1)) /\ temp2' = Cut(temp, Pointer(temp, 2))
      /\ pc' = "run" /\ UNCHANGED <<input, i, command, line>>
  BY DEF TwoNames
<1>2. PICK x \in NamesAt(temp', Pointer(temp, 1)), y \in NamesAt(temp2', Pointer(temp, 2)) :
          passed' = <<x, y>>
  BY DEF TwoNames
<1>3. Fits(line) /\ temp = Literal(line)
  BY <1>1, LineIsFit DEF Inv, CopyIsLine
<1>4. /\ NamesAt(temp', Pointer(temp, 1)) =
             IF 1 > Cardinality(Blanks(line)) THEN AtAddress0 ELSE {AsName(WordOf(line, 1))}
      /\ NamesAt(temp', Pointer(temp, 1)) \subseteq FileName /\ temp' \in Buffer
  BY <1>1, <1>3, NamesFound
<1>5. /\ NamesAt(temp2', Pointer(temp, 2)) =
             IF 2 > Cardinality(Blanks(line)) THEN AtAddress0 ELSE {AsName(WordOf(line, 2))}
      /\ NamesAt(temp2', Pointer(temp, 2)) \subseteq FileName /\ temp2' \in Buffer
  BY <1>1, <1>3, NamesFound
<1>6. /\ passed' \in Seq(FileName) /\ Len(passed') = 2
      /\ passed'[1] = x /\ passed'[2] = y
  BY <1>2, <1>4, <1>5
<1>7. NamesAreWords'
  <2>1. Takes(command) = 2 /\ Takes(command)' = 2
    BY <1>1, CommandAssumption DEF Takes
  <2>2. /\ passed'[1] \in IF 1 > Cardinality(Blanks(line)) THEN AtAddress0
                          ELSE {AsName(WordOf(line, 1))}
        /\ passed'[2] \in IF 2 > Cardinality(Blanks(line)) THEN AtAddress0
                          ELSE {AsName(WordOf(line, 2))}
    BY <1>2, <1>4, <1>5, <1>6
  <2>3. ASSUME NEW n \in 1 .. Takes(command)'
        PROVE  passed'[n] \in IF n > Cardinality(Blanks(line')) THEN AtAddress0
                              ELSE {AsName(WordOf(line', n))}
    <3>1. (n = 1 \/ n = 2) /\ line' = line
      BY <1>1, <2>1
    <3> QED
      BY <2>2, <3>1
  <2> QED
    BY <1>6, <2>1, <2>3 DEF NamesAreWords
<1> QED
  BY <1>1, <1>4, <1>5, <1>6, <1>7, NamesKeep

LEMMA NoNameKeeps == ASSUME Inv, NoName PROVE Inv'
<1>1. /\ pc = "words" /\ command \notin OneWord \cup TwoWords /\ passed' = <<>>
      /\ pc' = "run" /\ UNCHANGED <<input, i, temp, temp2, command, line>>
  BY DEF NoName
<1>2. {temp', temp2'} \subseteq Buffer /\ passed' \in Seq(FileName)
  BY <1>1 DEF Inv, TypeOK
<1>3. NamesAreWords'
  BY <1>1 DEF NamesAreWords, Takes
<1> QED
  BY <1>1, <1>2, <1>3, NamesKeep

LEMMA InvStep == Inv /\ [Next]_vars => Inv'
<1> SUFFICES ASSUME Inv, [Next]_vars PROVE Inv'
  OBVIOUS
<1>1. LineInv'
  BY LineStep DEF Inv
<1>2. CASE (\E c \in Char : AppendChar(c)) \/ EraseLast
  <2>1. pc' = "prompt" /\ UNCHANGED <<temp, temp2, command, passed>>
    BY <1>2 DEF AppendChar, EraseLast
  <2> QED
    BY <1>1, <2>1, PromptKeeps DEF Inv, TypeOK
<1>3. CASE Dispatch \/ OneName \/ TwoNames \/ NoName
  BY <1>3, DispatchKeeps, OneNameKeeps, TwoNamesKeep, NoNameKeeps
<1>4. CASE EndOfLine
  <2>1. /\ pc' = "prompt" /\ temp' = Clean /\ temp2' = Clean /\ command' = NotFound
        /\ passed' = <<>>
    BY <1>4 DEF EndOfLine, LocalsGone
  <2> QED
    BY <1>1, <2>1, CleanIsBuffer, PromptKeeps
<1>5. CASE UNCHANGED vars
  <2>1. UNCHANGED <<input, i, temp, temp2, command, passed, pc, line>>
    BY <1>5 DEF vars
  <2>2. TypeOK'
    BY <2>1 DEF Inv, TypeOK
  <2>3. CommandIsFirstWord'
    BY <2>1 DEF Inv, CommandIsFirstWord
  <2>4. NamesAreWords'
    BY <2>1 DEF Inv, NamesAreWords, Takes
  <2> QED
    BY <1>1, <2>1, <2>2, <2>3, <2>4 DEF Inv, CopyIsLine
<1> QED
  BY <1>2, <1>3, <1>4, <1>5 DEF Next

LEMMA InvHolds == Spec => []Inv
  BY InvInit, InvStep, PTL DEF Spec

\* The line and its copies stay within their buffers, and every name in a request is
\* one of the request's NAME_SIZE bytes: no word is read or copied from behind a buffer.
THEOREM WordsTyped == Spec => []TypeOK
<1>1. Inv => TypeOK
  BY DEF Inv
<1> QED
  BY <1>1, InvHolds, PTL

\* The command run is the one whose name is the typed line's first word (its whole line
\* for ls and clear) and no other, for every set of commands: a longer word, or a word
\* one of them begins with, is not taken for it.
THEOREM RightCommand == Spec => []CommandIsFirstWord
<1>1. Inv => CommandIsFirstWord
  BY DEF Inv
<1> QED
  BY <1>1, InvHolds, PTL

\* What a command puts in its requests are the words behind its name, though every
\* get_string clears part of the buffer it looks at, and the bytes at address 0 for a
\* word the line does not have.
THEOREM RightNames == Spec => []NamesAreWords
<1>1. Inv => NamesAreWords
  BY DEF Inv
<1> QED
  BY <1>1, InvHolds, PTL
=============================================================================
