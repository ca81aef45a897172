-------------------------- MODULE CodeTokensProofs --------------------------
(***************************************************************************)
(* Every line is read, whatever its length: the tokens of CodeTokens cover *)
(* it once and respect strings, words and comments.                        *)
(*                                                                         *)
(* StringEnd and Tokens are recursive functions.  They recurse to greater  *)
(* places in the line, so what holds of them is proved by going down from  *)
(* the end of the line (Downward): a set of places that holds a place      *)
(* whenever it holds all later ones holds them all.  That they are         *)
(* functions at all, and obey their equations, is proved in the same way.  *)
(***************************************************************************)
EXTENDS CodeTokens, TLAPS, SequenceTheorems, WellFoundedInduction

-----------------------------------------------------------------------------
(* Induction *)

\* A set of naturals that is not empty has a least element.
LEMMA Least ==
  ASSUME NEW T \in SUBSET Nat, T # {}
  PROVE  \E m \in T : \A k \in T : m <= k
<1> DEFINE R == OpToRel(<, Nat)
<1>1. IsWellFoundedOn(R, Nat)
  BY NatLessThanWellFounded
<1>2. ASSUME NEW x \in Nat, NEW y \in Nat, ~(<<y, x>> \in R) PROVE x <= y
  BY <1>2 DEF OpToRel
<1> HIDE DEF R
<1>3. PICK m \in T : \A k \in T : ~(<<k, m>> \in R)
  BY <1>1, WFMin
<1>4. \A k \in T : m <= k
  BY <1>2, <1>3
<1> QED BY <1>3, <1>4

\* From the end of a line to its beginning.
LEMMA Downward ==
  ASSUME NEW m \in Nat, NEW T,
         \A n \in 0..m : (\A k \in n + 1..m : k \in T) => n \in T
  PROVE  \A n \in 0..m : n \in T
<1> DEFINE B == {d \in 0..m : m - d \notin T}
<1>1. SUFFICES ASSUME B # {} PROVE FALSE
  <2> SUFFICES ASSUME NEW n \in 0..m, n \notin T PROVE B # {}
    BY <1>1
  <2>1. m - n \in 0..m /\ m - (m - n) = n
    OBVIOUS
  <2> QED BY <2>1
<1>2. PICK d \in B : \A e \in B : d <= e
  <2>1. B \in SUBSET Nat
    OBVIOUS
  <2> HIDE DEF B
  <2> QED BY <1>1, <2>1, Least
<1>3. d \in 0..m /\ m - d \notin T
  BY <1>2
<1>4. ASSUME NEW k \in (m - d) + 1..m PROVE k \in T
  <2>1. m - k \in 0..m /\ ~(d <= m - k) /\ m - (m - k) = k
    BY <1>3
  <2>2. m - k \notin B
    BY <1>2, <2>1
  <2> QED BY <2>1, <2>2
<1>5. m - d \in 0..m
  BY <1>3
<1> HIDE DEF B
<1> QED BY <1>3, <1>4, <1>5

-----------------------------------------------------------------------------
(* The first place with one of some characters *)

\* No character before it is one of those, and it is one unless it is past the end.
LEMMA FirstFromIsFirst ==
  ASSUME NEW line \in Seq(Characters), NEW i \in 0..Len(line) + 1, NEW cs
  PROVE  /\ FirstFrom(line, i, cs) \in i..Len(line) + 1
         /\ \A k \in i..FirstFrom(line, i, cs) - 1 : line[k] \notin cs
         /\ FirstFrom(line, i, cs) <= Len(line) => line[FirstFrom(line, i, cs)] \in cs
<1> DEFINE stops == {j \in i..Len(line) : line[j] \in cs}
           first == CHOOSE j \in stops : \A k \in stops : j <= k
<1>0. Len(line) \in Nat
  BY LenProperties
<1>1. CASE stops = {}
  <2>1. FirstFrom(line, i, cs) = Len(line) + 1
    BY <1>1 DEF FirstFrom
  <2> QED BY <1>0, <1>1, <2>1
<1>2. CASE stops # {}
  <2>1. FirstFrom(line, i, cs) = first
    BY <1>2 DEF FirstFrom
  <2>2. \E j \in stops : \A k \in stops : j <= k
    <3>1. stops \in SUBSET Nat
      BY <1>0
    <3> HIDE DEF stops
    <3> QED BY <1>2, <3>1, Least
  <2>3. first \in stops /\ \A k \in stops : first <= k
    BY <2>2
  <2>4. first \in i..Len(line) /\ line[first] \in cs
    BY <2>3
  <2> HIDE DEF first
  <2>5. \A k \in i..first - 1 : line[k] \notin cs
    BY <1>0, <2>3, <2>4
  <2> QED BY <1>0, <2>1, <2>4, <2>5
<1> QED BY <1>1, <1>2

-----------------------------------------------------------------------------
(* Escaped characters *)

\* The n characters before k are backslashes, and there are no more of them.
Backslashes(line, k, n) ==
    /\ n \in 0..k - 1
    /\ \A j \in k - n..k - 1 : line[j] = "backslash"
    /\ k - n = 1 \/ line[k - n - 1] # "backslash"

\* The backslashes before a place can be counted,
LEMMA BackslashesCounted ==
  ASSUME NEW line, NEW k \in Nat \ {0}
  PROVE  \E n : Backslashes(line, k, n)
<1> DEFINE T == {n \in 0..k - 1 : k - n = 1 \/ line[k - n - 1] # "backslash"}
<1>1. k - 1 \in T /\ T \in SUBSET Nat
  OBVIOUS
<1>2. PICK m \in T : \A n \in T : m <= n
  BY <1>1, Least
<1>3. ASSUME NEW j \in k - m..k - 1 PROVE line[j] = "backslash"
  <2> DEFINE n == k - j - 1
  <2>1. n \in 0..k - 1 /\ ~(m <= n) /\ k - n - 1 = j
    BY <1>2
  <2> HIDE DEF n
  <2>2. n \notin T
    BY <1>2, <2>1
  <2> QED BY <2>1, <2>2
<1> QED BY <1>2, <1>3 DEF Backslashes

\* and in one way only.
LEMMA OneCount ==
  ASSUME NEW line, NEW k \in Nat \ {0}, NEW n, NEW m,
         Backslashes(line, k, n), Backslashes(line, k, m)
  PROVE  n = m
<1>1. ASSUME NEW a \in 0..k - 1, NEW b \in 0..k - 1, a < b,
             Backslashes(line, k, a), Backslashes(line, k, b)
      PROVE  FALSE
  <2>1. k - a - 1 \in k - b..k - 1 /\ k - a # 1
    BY <1>1
  <2> QED BY <1>1, <2>1 DEF Backslashes
<1>2. n \in 0..k - 1 /\ m \in 0..k - 1
  BY DEF Backslashes
<1> QED BY <1>1, <1>2

\* A character is escaped by a backslash that is not.
LEMMA EscapedNext ==
  ASSUME NEW line, NEW k \in Nat \ {0}
  PROVE  Escaped(line, k + 1) <=> line[k] = "backslash" /\ ~Escaped(line, k)
<1>1. \A j \in Nat \ {0} :
          Escaped(line, j) <=> \E n \in Nat : n % 2 = 1 /\ Backslashes(line, j, n)
  BY DEF Escaped, Backslashes
<1>2. PICK n : Backslashes(line, k, n)
  BY BackslashesCounted
<1>3. n \in Nat /\ n <= k - 1
  BY <1>2 DEF Backslashes
<1>4. Escaped(line, k) <=> n % 2 = 1
  BY <1>1, <1>2, <1>3, OneCount
<1>5. k + 1 \in Nat \ {0}
  OBVIOUS
<1>6. CASE line[k] = "backslash"
  <2>1. Backslashes(line, k + 1, n + 1)
    <3>1. n + 1 \in 0..(k + 1) - 1 /\ (k + 1) - (n + 1) = k - n
      BY <1>3
    <3>2. \A j \in k - n..(k + 1) - 1 : line[j] = "backslash"
      BY <1>2, <1>3, <1>6 DEF Backslashes
    <3> QED BY <1>2, <3>1, <3>2 DEF Backslashes
  <2>2. Escaped(line, k + 1) <=> (n + 1) % 2 = 1
    BY <1>1, <1>3, <1>5, <2>1, OneCount
  <2>3. (n + 1) % 2 = 1 <=> ~(n % 2 = 1)
    BY <1>3
  <2> QED BY <1>4, <1>6, <2>2, <2>3
<1>7. CASE line[k] # "backslash"
  <2>1. Backslashes(line, k + 1, 0)
    BY <1>7 DEF Backslashes
  <2>2. Escaped(line, k + 1) <=> 0 % 2 = 1
    BY <1>1, <1>5, <2>1, OneCount
  <2> QED BY <1>7, <2>2
<1> QED BY <1>6, <1>7

-----------------------------------------------------------------------------
(* Strings *)

\* One step of StringEnd.
CloseStep(line, i, close, j) ==
    IF j > Len(line) THEN Len(line) + 1
    ELSE IF line[j] = line[i] THEN j + 1
    ELSE IF line[j] = "backslash" /\ j < Len(line) THEN close[j + 2]
    ELSE close[j + 1]

\* There is a function that obeys the equation of StringEnd.
LEMMA StringEndExists ==
  ASSUME NEW line \in Seq(Characters), NEW i
  PROVE  \E close \in [Nat -> Nat] : \A j \in Nat : close[j] = CloseStep(line, i, close, j)
<1> DEFINE Follows(close, n) == \A j \in Nat : j >= n => close[j] = CloseStep(line, i, close, j)
           T == {n \in Nat : \E close \in [Nat -> Nat] : Follows(close, n)}
           m == Len(line) + 1
<1>0. Len(line) \in Nat /\ m \in Nat
  BY LenProperties
<1>1. \A n \in Nat : n \in T <=> \E close \in [Nat -> Nat] : Follows(close, n)
  OBVIOUS
<1> HIDE DEF T
<1>2. ASSUME NEW n \in 0..m, \A k \in n + 1..m : k \in T PROVE n \in T
  <2>0. n \in Nat
    BY <1>0
  <2>1. CASE n = m
    <3> DEFINE close == [j \in Nat |-> Len(line) + 1]
    <3>1. close \in [Nat -> Nat]
      BY <1>0
    <3>2. ASSUME NEW j \in Nat, j >= n PROVE close[j] = CloseStep(line, i, close, j)
      <4>1. j > Len(line)
        BY <1>0, <2>1, <3>2
      <4> QED BY <4>1 DEF CloseStep
    <3>3. Follows(close, n)
      BY <3>2
    <3> HIDE DEF close, Follows
    <3> QED BY <1>1, <2>0, <3>1, <3>3
  <2>2. CASE n < m
    <3>1. n + 1 \in n + 1..m /\ n + 1 \in Nat
      BY <1>0, <2>2
    <3>2. PICK close \in [Nat -> Nat] : Follows(close, n + 1)
      BY <1>1, <1>2, <3>1
    <3> DEFINE next == [close EXCEPT ![n] = CloseStep(line, i, close, n)]
    <3>3. CloseStep(line, i, close, n) \in Nat
      <4>1. \A k \in Nat : close[k] \in Nat
        OBVIOUS
      <4>2. n + 1 \in Nat /\ n + 2 \in Nat /\ Len(line) + 1 \in Nat
        BY <1>0
      <4> HIDE DEF Follows, m
      <4> QED BY <4>1, <4>2 DEF CloseStep
    <3>4. next \in [Nat -> Nat]
      BY <3>3
    <3>5. \A j \in Nat : j >= n => CloseStep(line, i, next, j) = CloseStep(line, i, close, j)
      <4> SUFFICES ASSUME NEW j \in Nat, j >= n
                   PROVE  CloseStep(line, i, next, j) = CloseStep(line, i, close, j)
        OBVIOUS
      <4>1. j + 1 \in Nat /\ j + 1 # n /\ j + 2 \in Nat /\ j + 2 # n
        BY <2>0
      <4>2. next[j + 1] = close[j + 1] /\ next[j + 2] = close[j + 2]
        BY <4>1
      <4> HIDE DEF next, Follows, m
      <4> QED BY <4>2 DEF CloseStep
    <3>6. Follows(next, n)
      <4> SUFFICES ASSUME NEW j \in Nat, j >= n
                   PROVE  next[j] = CloseStep(line, i, next, j)
        OBVIOUS
      <4>1. CASE j = n
        BY <1>0, <3>5, <4>1
      <4>2. CASE j # n
        <5>1. j >= n + 1
          BY <1>0, <4>2
        <5> QED BY <3>2, <3>5, <4>2, <5>1
      <4> QED BY <4>1, <4>2
    <3> HIDE DEF next, Follows
    <3> QED BY <1>1, <2>0, <3>4, <3>6
  <2> HIDE DEF Follows
  <2> QED BY <1>0, <2>1, <2>2
<1>3. 0 \in T
  <2>1. \A n \in 0..m : (\A k \in n + 1..m : k \in T) => n \in T
    BY <1>2
  <2>2. 0 \in 0..m
    BY <1>0
  <2> HIDE DEF m
  <2> QED BY <1>0, <2>1, <2>2, Downward
<1>4. PICK close \in [Nat -> Nat] : Follows(close, 0)
  BY <1>1, <1>3
<1> QED BY <1>4

Closes(line, i, close) ==
    close = [j \in Nat |->
                IF j > Len(line) THEN Len(line) + 1
                ELSE IF line[j] = line[i] THEN j + 1
                ELSE IF line[j] = "backslash" /\ j < Len(line) THEN close[j + 2]
                ELSE close[j + 1]]

\* StringEnd is the value of such a function.
LEMMA StringEndFollows ==
  ASSUME NEW line \in Seq(Characters), NEW i
  PROVE  \E close :
            /\ \A j \in Nat : close[j] = CloseStep(line, i, close, j)
            /\ StringEnd(line, i) = close[i + 1]
<1>1. PICK f \in [Nat -> Nat] : \A j \in Nat : f[j] = CloseStep(line, i, f, j)
  BY StringEndExists
<1>2. f = [j \in Nat |-> CloseStep(line, i, f, j)]
  BY <1>1
<1>3. Closes(line, i, f)
  BY <1>2 DEF Closes, CloseStep
<1>4. \E g : Closes(line, i, g) /\ StringEnd(line, i) = g[i + 1]
  BY <1>3 DEF StringEnd, Closes
<1>5. PICK g : Closes(line, i, g) /\ StringEnd(line, i) = g[i + 1]
  BY <1>4
<1>6. \A j \in Nat : g[j] = CloseStep(line, i, g, j)
  BY <1>5 DEF Closes, CloseStep
<1> QED BY <1>5, <1>6

\* Whatever is compared, the search goes forward and stays in the line.
LEMMA CloseForward ==
  ASSUME NEW line \in Seq(Characters), NEW i, NEW close,
         \A j \in Nat : close[j] = CloseStep(line, i, close, j)
  PROVE  \A j \in 0..Len(line) + 1 : close[j] \in Nat /\ j <= close[j] /\ close[j] <= Len(line) + 1
<1> DEFINE m == Len(line) + 1
           Within(j) == close[j] \in Nat /\ j <= close[j] /\ close[j] <= m
           T == {j \in Nat : Within(j)}
<1>0. Len(line) \in Nat /\ m \in Nat
  BY LenProperties
<1>1. \A j \in Nat : j \in T <=> Within(j)
  OBVIOUS
<1> HIDE DEF T
<1>2. ASSUME NEW j \in 0..m, \A k \in j + 1..m : k \in T PROVE j \in T
  <2>1. close[j] = CloseStep(line, i, close, j) /\ j \in Nat
    BY <1>0
  <2>2. CASE j = m
    BY <1>0, <1>1, <2>1, <2>2 DEF CloseStep
  <2>3. CASE j < m
    <3>1. Within(j + 1)
      BY <1>0, <1>1, <1>2, <2>1, <2>3
    <3>2. j < Len(line) => Within(j + 2)
      BY <1>0, <1>1, <1>2, <2>1, <2>3
    <3>3. Within(j)
      BY <1>0, <2>1, <2>3, <3>1, <3>2 DEF CloseStep
    <3> QED BY <1>1, <2>1, <3>3
  <2> HIDE DEF Within
  <2> QED BY <1>0, <2>2, <2>3
<1>3. \A j \in 0..m : (\A k \in j + 1..m : k \in T) => j \in T
  BY <1>2
<1> HIDE DEF m, Within
<1>4. \A j \in 0..m : j \in T
  BY <1>0, <1>3, Downward
<1>5. \A j \in 0..m : Within(j)
  BY <1>0, <1>1, <1>4
<1> QED BY <1>5 DEF Within, m

\* Where a string ends that is known to go on to place j: q closes it.
Ends(line, q, j, end) ==
    /\ \A k \in j..end - 2 : line[k] = q => Escaped(line, k)
    /\ end = Len(line) + 1 \/ (line[end - 1] = q /\ ~Escaped(line, end - 1))

\* From every place that is not escaped it finds the end of the string.
LEMMA CloseEnds ==
  ASSUME NEW line \in Seq(Characters), NEW i \in 1..Len(line), line[i] \in Quotes, NEW close,
         \A j \in Nat : close[j] = CloseStep(line, i, close, j)
  PROVE  \A j \in 1..Len(line) + 1 :
             (j <= Len(line) => ~Escaped(line, j)) => Ends(line, line[i], j, close[j])
<1> DEFINE m == Len(line) + 1
           Open(j) == j <= Len(line) => ~Escaped(line, j)
           T == {j \in Nat : j > 0 /\ Open(j) => Ends(line, line[i], j, close[j])}
<1>0. Len(line) \in Nat /\ m \in Nat
  BY LenProperties
<1>1. line[i] # "backslash"
  BY DEF Quotes, Single, Double
<1>2. \A j \in Nat : j \in T <=> (j > 0 /\ Open(j) => Ends(line, line[i], j, close[j]))
  OBVIOUS
<1> HIDE DEF T
<1>3. ASSUME NEW j \in 0..m, \A k \in j + 1..m : k \in T PROVE j \in T
  <2>0. j \in Nat
    BY <1>0
  <2> SUFFICES ASSUME j > 0, Open(j) PROVE Ends(line, line[i], j, close[j])
    BY <1>2, <2>0
  <2>1. close[j] = CloseStep(line, i, close, j)
    BY <2>0
  <2>2. \A k \in 0..m : close[k] \in Nat /\ k <= close[k] /\ close[k] <= m
    BY CloseForward
  <2>3. CASE j = m
    <3>1. close[j] = m
      BY <1>0, <2>1, <2>3 DEF CloseStep
    <3>2. j..m - 2 = {}
      BY <1>0, <2>3
    <3> QED BY <3>1, <3>2 DEF Ends
  <2>4. CASE j < m /\ line[j] = line[i]
    <3>1. close[j] = j + 1
      BY <1>0, <2>0, <2>1, <2>4 DEF CloseStep
    <3>2. ~Escaped(line, j) /\ (j + 1) - 1 = j /\ (j + 1) - 2 < j
      BY <1>0, <2>0, <2>4
    <3> QED BY <2>4, <3>1, <3>2 DEF Ends
  <2>5. CASE j < Len(line) /\ line[j] # line[i] /\ line[j] = "backslash"
    <3>1. close[j] = close[j + 2]
      BY <1>0, <2>0, <2>1, <2>5 DEF CloseStep
    <3>2. Escaped(line, j + 1) /\ ~Escaped(line, j + 2)
      <4>1. j \in Nat \ {0} /\ j + 1 \in Nat \ {0} /\ (j + 1) + 1 = j + 2
        BY <2>0
      <4>2. Escaped(line, j + 1)
        BY <1>0, <1>1, <2>0, <2>5, <4>1, EscapedNext
      <4>3. Escaped(line, (j + 1) + 1) <=> line[j + 1] = "backslash" /\ ~Escaped(line, j + 1)
        BY <4>1, EscapedNext
      <4> QED BY <4>1, <4>2, <4>3
    <3>3. j + 2 \in j + 1..m /\ j + 2 \in Nat /\ j + 2 > 0
      BY <1>0, <2>0, <2>5
    <3>4. Ends(line, line[i], j + 2, close[j + 2])
      BY <1>2, <1>3, <3>2, <3>3
    <3>5. close[j + 2] \in Nat
      BY <2>2, <3>3
    <3> DEFINE end == close[j + 2]
    <3>6. \A k \in j..end - 2 : k \in j + 2..end - 2 \/ k = j \/ k = j + 1
      BY <2>0, <3>5
    <3>7. \A k \in j..end - 2 : line[k] = line[i] => Escaped(line, k)
      BY <2>5, <3>2, <3>4, <3>6 DEF Ends
    <3> QED BY <3>1, <3>4, <3>7 DEF Ends
  <2>6. CASE j < m /\ line[j] # line[i] /\ ~(line[j] = "backslash" /\ j < Len(line))
    <3>1. close[j] = close[j + 1]
      BY <1>0, <2>0, <2>1, <2>6 DEF CloseStep
    <3>2. Open(j + 1)
      <4>1. CASE j + 1 <= Len(line)
        <5>1. line[j] # "backslash" /\ j \in Nat \ {0}
          BY <1>0, <2>0, <2>6, <4>1
        <5> QED BY <5>1, EscapedNext
      <4> QED BY <4>1
    <3>3. j + 1 \in j + 1..m /\ j + 1 \in Nat /\ j + 1 > 0
      BY <1>0, <2>0, <2>6
    <3>4. Ends(line, line[i], j + 1, close[j + 1])
      BY <1>2, <1>3, <3>2, <3>3
    <3>5. close[j + 1] \in Nat
      BY <2>2, <3>3
    <3> DEFINE end == close[j + 1]
    <3>6. \A k \in j..end - 2 : k \in j + 1..end - 2 \/ k = j
      BY <2>0, <3>5
    <3>7. \A k \in j..end - 2 : line[k] = line[i] => Escaped(line, k)
      BY <2>6, <3>4, <3>6 DEF Ends
    <3> QED BY <3>1, <3>4, <3>7 DEF Ends
  <2> HIDE DEF Open
  <2> QED BY <1>0, <2>0, <2>3, <2>4, <2>5, <2>6
<1>4. \A j \in 0..m : (\A k \in j + 1..m : k \in T) => j \in T
  BY <1>3
<1>5. \A j \in 1..m : j \in 0..m /\ j \in Nat /\ j > 0
  BY <1>0
<1> HIDE DEF m
<1>6. \A j \in 0..m : j \in T
  BY <1>0, <1>4, Downward
<1> QED BY <1>2, <1>5, <1>6 DEF m

\* A string begins at a quote and ends at the next that is not escaped.
LEMMA StringIsRead ==
  ASSUME NEW line \in Seq(Characters), NEW i \in 0..Len(line)
  PROVE  /\ StringEnd(line, i) \in i + 1..Len(line) + 1
         /\ i > 0 /\ line[i] \in Quotes => Ends(line, line[i], i + 1, StringEnd(line, i))
<1>0. Len(line) \in Nat /\ i \in Nat /\ i + 1 \in 0..Len(line) + 1
  BY LenProperties
<1>1. PICK close : /\ \A j \in Nat : close[j] = CloseStep(line, i, close, j)
                   /\ StringEnd(line, i) = close[i + 1]
  BY StringEndFollows
<1>2. close[i + 1] \in Nat /\ i + 1 <= close[i + 1] /\ close[i + 1] <= Len(line) + 1
  BY <1>0, <1>1, CloseForward
<1>3. ASSUME i > 0, line[i] \in Quotes PROVE Ends(line, line[i], i + 1, close[i + 1])
  <2>1. i \in 1..Len(line) /\ i + 1 \in 1..Len(line) + 1 /\ i \in Nat \ {0}
    BY <1>0, <1>3
  <2>2. line[i] # "backslash"
    BY <1>3 DEF Quotes, Single, Double
  <2>3. ~Escaped(line, i + 1)
    BY <2>1, <2>2, EscapedNext
  <2> QED BY <1>1, <1>3, <2>1, <2>3, CloseEnds
<1> QED BY <1>0, <1>1, <1>2, <1>3

-----------------------------------------------------------------------------
(* Tokens *)

\* What LineIsRead says of a token from i up to end, but for the word to its
\* left; and that the token does not end within a word.
Reads(line, i, end) ==
    /\ line[i] \in Quotes => Ends(line, line[i], i + 1, end)
    /\ line[i] = "word" => (end <= Len(line) => line[end] # "word")
    /\ \/ line[i] \in Quotes \cup {"word"}
       \/ IsComment(line, i)
       \/ \A k \in i..end - 1 : line[k] \notin Quotes \cup {"word"}
    /\ end <= Len(line) => line[end - 1] # "word" \/ line[end] # "word"

\* A token has a character at least and ends in the line.
LEMMA TokenEndForward ==
  ASSUME NEW line \in Seq(Characters), NEW i \in 0..Len(line)
  PROVE  TokenEnd(line, i) \in i + 1..Len(line) + 1
<1>0. Len(line) \in Nat /\ i \in 0..Len(line) + 1
  BY LenProperties
<1>1. ASSUME NEW cs, line[i] \notin cs PROVE FirstFrom(line, i, cs) \in i + 1..Len(line) + 1
  BY <1>0, <1>1, FirstFromIsFirst
<1>2. CASE line[i] = "blank"
  <2>1. TokenEnd(line, i) = FirstFrom(line, i, Characters \ {"blank"})
    BY <1>2 DEF TokenEnd, Quotes, Single, Double, IsComment
  <2> QED BY <1>1, <1>2, <2>1
<1>3. CASE line[i] \in Quotes
  <2>1. TokenEnd(line, i) = StringEnd(line, i)
    BY <1>3 DEF TokenEnd, Quotes, Single, Double, IsComment
  <2> QED BY <2>1, StringIsRead
<1>4. CASE IsComment(line, i)
  <2>1. TokenEnd(line, i) = Len(line) + 1
    BY <1>4 DEF TokenEnd, Quotes, Single, Double, IsComment
  <2> QED BY <1>0, <2>1
<1>5. CASE line[i] = "word"
  <2>1. TokenEnd(line, i) = FirstFrom(line, i, Characters \ {"word"})
    BY <1>5 DEF TokenEnd, Quotes, Single, Double, IsComment
  <2> QED BY <1>1, <1>5, <2>1
<1>6. CASE /\ line[i] \notin Quotes \cup {"blank", "word"}
           /\ ~IsComment(line, i)
  <2>1. TokenEnd(line, i) = FirstFrom(line, i, Quotes \cup {"blank", "word"})
    BY <1>6 DEF TokenEnd
  <2> QED BY <1>1, <1>6, <2>1
<1> QED BY <1>2, <1>3, <1>4, <1>5, <1>6

\* Every token ends where what it begins with ends.
LEMMA TokenIsRead ==
  ASSUME NEW line \in Seq(Characters), NEW i \in 1..Len(line)
  PROVE  Reads(line, i, TokenEnd(line, i))
<1>0. Len(line) \in Nat /\ i \in 0..Len(line) /\ i \in 0..Len(line) + 1 /\ i > 0
  BY LenProperties
<1> PICK end : end = TokenEnd(line, i)
  OBVIOUS
<1>1. end \in i + 1..Len(line) + 1
  BY <1>0, TokenEndForward
<1> SUFFICES Reads(line, i, end)
  OBVIOUS
<1>2. /\ end \in Nat /\ i < end /\ end <= Len(line) + 1
      /\ end - 1 \in i..end - 1 /\ end - 1 \in 1..Len(line)
  BY <1>0, <1>1
<1>3. \A k \in i..end - 1 : line[k] \in Characters
  <2>1. \A k \in i..end - 1 : k \in 1..Len(line)
    BY <1>0, <1>2
  <2> QED BY <2>1, ElementOfSeq
<1>4. end <= Len(line) => line[end] \in Characters
  <2>1. end <= Len(line) => end \in 1..Len(line)
    BY <1>0, <1>2
  <2> QED BY <2>1, ElementOfSeq
<1>5. CASE line[i] = "blank"
  <2>1. end = FirstFrom(line, i, Characters \ {"blank"})
    BY <1>5 DEF TokenEnd, Quotes, Single, Double, IsComment
  <2>2. \A k \in i..end - 1 : line[k] \notin Characters \ {"blank"}
    BY <1>0, <2>1, FirstFromIsFirst
  <2>3. \A k \in i..end - 1 : line[k] = "blank"
    BY <1>3, <2>2
  <2>4. \A k \in i..end - 1 : line[k] \notin Quotes \cup {"word"}
    BY <2>3 DEF Quotes, Single, Double
  <2>5. line[end - 1] # "word"
    BY <1>2, <2>3
  <2>6. line[i] \notin Quotes /\ line[i] # "word"
    BY <1>5 DEF Quotes, Single, Double
  <2> QED BY <2>4, <2>5, <2>6 DEF Reads
<1>6. CASE line[i] \in Quotes
  <2>1. end = StringEnd(line, i)
    BY <1>6 DEF TokenEnd, Quotes, Single, Double, IsComment
  <2>2. Ends(line, line[i], i + 1, end)
    BY <1>0, <1>6, <2>1, StringIsRead
  <2>3. line[i] # "word"
    BY <1>6 DEF Quotes, Single, Double
  <2>4. end <= Len(line) => line[end - 1] # "word"
    BY <1>0, <1>2, <2>2, <2>3 DEF Ends
  <2>5. line[i] \in Quotes \cup {"word"}
    BY <1>6
  <2> QED BY <2>2, <2>3, <2>4, <2>5 DEF Reads
<1>7. CASE IsComment(line, i)
  <2>1. end = Len(line) + 1
    BY <1>7 DEF TokenEnd, Quotes, Single, Double, IsComment
  <2>2. line[i] \notin Quotes \cup {"word"}
    BY <1>7 DEF IsComment, Quotes, Single, Double
  <2> QED BY <1>0, <1>7, <2>1, <2>2 DEF Reads
<1>8. CASE line[i] = "word"
  <2>1. end = FirstFrom(line, i, Characters \ {"word"})
    BY <1>8 DEF TokenEnd, Quotes, Single, Double, IsComment
  <2>2. end <= Len(line) => line[end] # "word"
    BY <1>0, <2>1, FirstFromIsFirst
  <2>3. line[i] \notin Quotes
    BY <1>8 DEF Quotes, Single, Double
  <2>4. line[i] \in Quotes \cup {"word"}
    BY <1>8
  <2> QED BY <2>2, <2>3, <2>4 DEF Reads
<1>9. CASE /\ line[i] \notin Quotes \cup {"blank", "word"}
           /\ ~IsComment(line, i)
  <2>1. end = FirstFrom(line, i, Quotes \cup {"blank", "word"})
    BY <1>9 DEF TokenEnd
  <2>2. \A k \in i..end - 1 : line[k] \notin Quotes \cup {"blank", "word"}
    BY <1>0, <2>1, FirstFromIsFirst
  <2>3. \A k \in i..end - 1 : line[k] \notin Quotes \cup {"word"}
    BY <2>2
  <2>4. line[end - 1] # "word"
    BY <1>2, <2>3
  <2>5. line[i] \notin Quotes /\ line[i] # "word"
    BY <1>9
  <2> QED BY <2>3, <2>4, <2>5 DEF Reads
<1> QED BY <1>5, <1>6, <1>7, <1>8, <1>9

-----------------------------------------------------------------------------
(* The tokens of a line *)

Token == [first : Nat, next : Nat]

\* One step of Tokens.
TokenStep(line, from, i) ==
    IF i > Len(line) THEN {}
    ELSE {[first |-> i, next |-> TokenEnd(line, i)]} \cup from[TokenEnd(line, i)]

\* There is a function that obeys the equation of Tokens.
LEMMA TokensExist ==
  ASSUME NEW line \in Seq(Characters)
  PROVE  \E from \in [Nat -> SUBSET Token] : \A j \in Nat : from[j] = TokenStep(line, from, j)
<1> DEFINE Follows(from, n) == \A j \in Nat : j >= n => from[j] = TokenStep(line, from, j)
           T == {n \in Nat : \E from \in [Nat -> SUBSET Token] : Follows(from, n)}
           m == Len(line) + 1
<1>0. Len(line) \in Nat /\ m \in Nat
  BY LenProperties
<1>1. \A n \in Nat : n \in T <=> \E from \in [Nat -> SUBSET Token] : Follows(from, n)
  OBVIOUS
<1> HIDE DEF T
<1>2. ASSUME NEW n \in 0..m, \A k \in n + 1..m : k \in T PROVE n \in T
  <2>0. n \in Nat
    BY <1>0
  <2>1. CASE n = m
    <3> DEFINE from == [j \in Nat |-> {}]
    <3>1. from \in [Nat -> SUBSET Token]
      OBVIOUS
    <3>2. ASSUME NEW j \in Nat, j >= n PROVE from[j] = TokenStep(line, from, j)
      <4>1. j > Len(line)
        BY <1>0, <2>1, <3>2
      <4> QED BY <4>1 DEF TokenStep
    <3>3. Follows(from, n)
      BY <3>2
    <3> HIDE DEF from, Follows
    <3> QED BY <1>1, <2>0, <3>1, <3>3
  <2>2. CASE n < m
    <3>1. n + 1 \in n + 1..m /\ n + 1 \in Nat /\ n \in 0..Len(line) /\ ~(n > Len(line))
      BY <1>0, <2>2
    <3>2. PICK from \in [Nat -> SUBSET Token] : Follows(from, n + 1)
      BY <1>1, <1>2, <3>1
    <3> DEFINE next == [from EXCEPT ![n] = TokenStep(line, from, n)]
    <3>3. TokenStep(line, from, n) \in SUBSET Token
      <4>1. TokenEnd(line, n) \in Nat
        BY <1>0, <3>1, TokenEndForward
      <4>2. from[TokenEnd(line, n)] \in SUBSET Token
        BY <4>1
      <4>3. [first |-> n, next |-> TokenEnd(line, n)] \in Token
        BY <2>0, <4>1 DEF Token
      <4> HIDE DEF Follows, m
      <4> QED BY <3>1, <4>2, <4>3 DEF TokenStep
    <3>4. next \in [Nat -> SUBSET Token]
      BY <3>3
    <3>5. \A j \in Nat : j >= n => TokenStep(line, next, j) = TokenStep(line, from, j)
      <4> SUFFICES ASSUME NEW j \in Nat, j >= n
                   PROVE  TokenStep(line, next, j) = TokenStep(line, from, j)
        OBVIOUS
      <4>1. CASE j > Len(line)
        BY <4>1 DEF TokenStep
      <4>2. CASE ~(j > Len(line))
        <5>1. TokenEnd(line, j) \in Nat /\ TokenEnd(line, j) # n
          <6>1. j \in 0..Len(line)
            BY <1>0, <4>2
          <6>2. TokenEnd(line, j) \in j + 1..Len(line) + 1
            BY <6>1, TokenEndForward
          <6> QED BY <1>0, <2>0, <6>2
        <5>2. next[TokenEnd(line, j)] = from[TokenEnd(line, j)]
          BY <5>1
        <5> QED BY <5>2 DEF TokenStep
      <4> QED BY <4>1, <4>2
    <3>6. Follows(next, n)
      <4> SUFFICES ASSUME NEW j \in Nat, j >= n
                   PROVE  next[j] = TokenStep(line, next, j)
        OBVIOUS
      <4>1. CASE j = n
        BY <1>0, <3>5, <4>1
      <4>2. CASE j # n
        <5>1. j >= n + 1
          BY <1>0, <4>2
        <5> QED BY <3>2, <3>5, <4>2, <5>1
      <4> QED BY <4>1, <4>2
    <3> HIDE DEF next, Follows
    <3> QED BY <1>1, <2>0, <3>4, <3>6
  <2> HIDE DEF Follows
  <2> QED BY <1>0, <2>1, <2>2
<1>3. 0 \in T
  <2>1. \A n \in 0..m : (\A k \in n + 1..m : k \in T) => n \in T
    BY <1>2
  <2>2. 0 \in 0..m
    BY <1>0
  <2> HIDE DEF m
  <2> QED BY <1>0, <2>1, <2>2, Downward
<1>4. PICK from \in [Nat -> SUBSET Token] : Follows(from, 0)
  BY <1>1, <1>3
<1> QED BY <1>4

Divides(line, from) ==
    from = [i \in Nat |->
               IF i > Len(line) THEN {}
               ELSE {[first |-> i, next |-> TokenEnd(line, i)]} \cup from[TokenEnd(line, i)]]

\* Tokens is the value of such a function.
LEMMA TokensFollow ==
  ASSUME NEW line \in Seq(Characters)
  PROVE  \E from :
            /\ \A j \in Nat : from[j] = TokenStep(line, from, j)
            /\ Tokens(line) = from[1]
<1>1. PICK f \in [Nat -> SUBSET Token] : \A j \in Nat : f[j] = TokenStep(line, f, j)
  BY TokensExist
<1>2. f = [j \in Nat |-> TokenStep(line, f, j)]
  BY <1>1
<1>3. Divides(line, f)
  BY <1>2 DEF Divides, TokenStep
<1>4. \E g : Divides(line, g) /\ Tokens(line) = g[1]
  BY <1>3 DEF Tokens, Divides
<1>5. PICK g : Divides(line, g) /\ Tokens(line) = g[1]
  BY <1>4
<1>6. \A j \in Nat : g[j] = TokenStep(line, g, j)
  BY <1>5 DEF Divides, TokenStep
<1> QED BY <1>5, <1>6

\* The tokens of the line from place i on.
Division(line, i, tokens) ==
    /\ \A t \in tokens : t.first \in i..Len(line) /\ t.next = TokenEnd(line, t.first)
    /\ \A k \in i..Len(line) : \E t \in tokens : k \in t.first..t.next - 1
    /\ \A t, u \in tokens : t # u => t.next <= u.first \/ u.next <= t.first
    /\ \A t \in tokens : t.first = i \/ line[t.first - 1] # "word" \/ line[t.first] # "word"

\* So the tokens divide the line.
LEMMA TokensDivide ==
  ASSUME NEW line \in Seq(Characters)
  PROVE  Division(line, 1, Tokens(line))
<1>1. PICK from : /\ \A j \in Nat : from[j] = TokenStep(line, from, j)
                  /\ Tokens(line) = from[1]
  BY TokensFollow
<1> DEFINE m == Len(line) + 1
           T == {i \in Nat : i > 0 => Division(line, i, from[i])}
<1>0. Len(line) \in Nat /\ m \in Nat /\ 1 \in 0..m
  BY LenProperties
<1>2. \A i \in Nat : i \in T <=> (i > 0 => Division(line, i, from[i]))
  OBVIOUS
<1> HIDE DEF T
<1>3. ASSUME NEW i \in 0..m, \A k \in i + 1..m : k \in T PROVE i \in T
  <2>0. i \in Nat /\ from[i] = TokenStep(line, from, i)
    BY <1>0, <1>1
  <2> SUFFICES ASSUME i > 0 PROVE Division(line, i, from[i])
    BY <1>2, <2>0
  <2>1. CASE i = m
    <3>1. from[i] = {} /\ i..Len(line) = {}
      BY <1>0, <2>0, <2>1 DEF TokenStep
    <3> QED BY <3>1 DEF Division
  <2>2. CASE i < m
    <3> PICK end : end = TokenEnd(line, i)
      OBVIOUS
    <3> DEFINE t1 == [first |-> i, next |-> end]
    <3>1. i \in 0..Len(line) /\ i \in 1..Len(line) /\ ~(i > Len(line))
      BY <1>0, <2>0, <2>2
    <3>2. end \in i + 1..m
      BY <3>1, TokenEndForward
    <3>3. end \in Nat /\ end > 0 /\ i < end /\ end <= m
      BY <1>0, <2>0, <3>2
    <3>4. from[i] = {t1} \cup from[end]
      BY <2>0, <3>1 DEF TokenStep
    <3>5. Division(line, end, from[end])
      BY <1>2, <1>3, <3>2, <3>3
    <3>6. Reads(line, i, end)
      BY <3>1, TokenIsRead
    <3>7. t1.first = i /\ t1.next = end
      OBVIOUS
    <3> HIDE DEF t1
    <3>8. ASSUME NEW t \in from[end]
          PROVE  /\ t.first \in Nat /\ t.first \in i..Len(line) /\ t.next = TokenEnd(line, t.first)
                 /\ end <= t.first
      BY <1>0, <2>0, <3>3, <3>5 DEF Division
    <3>9. \A t \in from[i] : t.first \in i..Len(line) /\ t.next = TokenEnd(line, t.first)
      BY <1>0, <2>0, <3>1, <3>4, <3>7, <3>8
    <3>10. ASSUME NEW k \in i..Len(line) PROVE \E t \in from[i] : k \in t.first..t.next - 1
      <4>1. CASE k < end
        <5>1. k \in i..end - 1
          BY <1>0, <2>0, <3>3, <4>1
        <5> QED BY <3>4, <3>7, <5>1
      <4>2. CASE ~(k < end)
        <5>1. k \in end..Len(line)
          BY <1>0, <2>0, <3>3, <4>2
        <5> QED BY <3>4, <3>5, <5>1 DEF Division
      <4> QED BY <4>1, <4>2
    <3>11. ASSUME NEW t \in from[i], NEW u \in from[i], t # u
           PROVE  t.next <= u.first \/ u.next <= t.first
      <4>1. CASE t = t1
        BY <3>4, <3>7, <3>8, <3>11, <4>1
      <4>2. CASE u = t1
        BY <3>4, <3>7, <3>8, <3>11, <4>2
      <4>3. CASE t # t1 /\ u # t1
        BY <3>4, <3>5, <3>11, <4>3 DEF Division
      <4> QED BY <4>1, <4>2, <4>3
    <3>12. ASSUME NEW t \in from[i]
           PROVE  t.first = i \/ line[t.first - 1] # "word" \/ line[t.first] # "word"
      <4>1. CASE t = t1
        BY <3>7, <4>1
      <4>2. CASE t # t1 /\ t.first = end
        <5>1. end <= Len(line)
          BY <1>0, <3>3, <3>4, <3>8, <4>2
        <5> QED BY <3>6, <4>2, <5>1 DEF Reads
      <4>3. CASE t # t1 /\ t.first # end
        BY <3>4, <3>5, <4>3 DEF Division
      <4> QED BY <4>1, <4>2, <4>3
    <3> QED BY <3>9, <3>10, <3>11, <3>12 DEF Division
  <2> QED BY <1>0, <2>1, <2>2
<1>4. \A i \in 0..m : (\A k \in i + 1..m : k \in T) => i \in T
  BY <1>3
<1> HIDE DEF m
<1>5. \A i \in 0..m : i \in T
  BY <1>0, <1>4, Downward
<1>6. 1 \in T
  BY <1>0, <1>5
<1> QED BY <1>1, <1>2, <1>6

\* A line of any length is read as its characters say.
LEMMA TypedLineIsRead == win \in Seq(Characters) => LineIsRead
<1> SUFFICES ASSUME win \in Seq(Characters) PROVE LineIsRead
  OBVIOUS
<1> PICK tokens : tokens = Tokens(win)
  OBVIOUS
<1>0. Len(win) \in Nat /\ DOMAIN win = 1..Len(win)
  BY LenProperties
<1>1. Division(win, 1, tokens)
  BY TokensDivide
<1>2. ASSUME NEW t \in tokens
      PROVE  /\ t.first \in 1..Len(win) /\ t.next \in t.first + 1..Len(win) + 1
             /\ t.first \in Nat /\ t.next \in Nat
             /\ Reads(win, t.first, t.next)
  <2>1. t.first \in 1..Len(win) /\ t.first \in 0..Len(win) /\ t.next = TokenEnd(win, t.first)
    BY <1>0, <1>1 DEF Division
  <2>2. t.next \in t.first + 1..Len(win) + 1
    BY <2>1, TokenEndForward
  <2> QED BY <1>0, <2>1, <2>2, TokenIsRead
<1>3. \A i \in DOMAIN win : \E t \in tokens : i \in t.first..t.next - 1
  BY <1>0, <1>1 DEF Division
<1>4. ASSUME NEW t \in tokens, NEW u \in tokens, t # u
      PROVE  (t.first..t.next - 1) \cap (u.first..u.next - 1) = {}
  <2>1. t.next <= u.first \/ u.next <= t.first
    BY <1>1, <1>4 DEF Division
  <2> QED BY <1>2, <2>1
<1>5. ASSUME NEW t \in tokens, win[t.first] \in Quotes
      PROVE  /\ \A k \in t.first + 1..t.next - 2 :
                    win[k] = win[t.first] => Escaped(win, k)
             /\ \/ t.next = Len(win) + 1
                \/ win[t.next - 1] = win[t.first] /\ ~Escaped(win, t.next - 1)
  BY <1>2, <1>5 DEF Reads, Ends
<1>6. ASSUME NEW t \in tokens, win[t.first] = "word"
      PROVE  \A k \in {t.first - 1, t.next} \cap DOMAIN win : win[k] # "word"
  <2>1. t.next \in DOMAIN win => win[t.next] # "word"
    BY <1>0, <1>2, <1>6 DEF Reads
  <2>2. t.first - 1 \in DOMAIN win => win[t.first - 1] # "word"
    <3>1. CASE t.first = 1
      BY <1>0, <3>1
    <3>2. CASE t.first # 1
      BY <1>1, <1>6, <3>2 DEF Division
    <3> QED BY <3>1, <3>2
  <2> QED BY <2>1, <2>2
<1>7. ASSUME NEW t \in tokens, win[t.first] \notin Quotes, win[t.first] # "word",
             ~IsComment(win, t.first)
      PROVE  \A k \in t.first..t.next - 1 : win[k] \notin Quotes \cup {"word"}
  BY <1>2, <1>7 DEF Reads
<1>8. ASSUME NEW t \in tokens
      PROVE  ~(win[t.first] \in Quotes /\ win[t.first] = "word")
  BY DEF Quotes, Single, Double
<1> QED BY <1>3, <1>4, <1>5, <1>6, <1>7, <1>8 DEF LineIsRead
=============================================================================
