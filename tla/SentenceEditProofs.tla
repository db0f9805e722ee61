------------------------- MODULE SentenceEditProofs -------------------------
(***************************************************************************)
(* Proofs about commit_changes for texts of any length: the sentence that  *)
(* get_nth_sentence finds is the one that counting terminators finds, and  *)
(* the text that is written agrees with the old one outside of it.         *)
(*                                                                         *)
(* The loops of the code are recursive functions over an initial segment   *)
(* of the naturals.  What they compute is shown by induction over a set of *)
(* numbers, which follows from the least element of its complement.        *)
(***************************************************************************)
EXTENDS SentenceEdit, FiniteSetTheorems, TLAPS

-----------------------------------------------------------------------------
(* Least elements, induction and recursion *)

\* Every set of naturals that is not empty has a least element.
LEMMA LeastElement ==
    ASSUME NEW T, T \subseteq Nat, T # {}
    PROVE  \E x \in T : \A y \in T : x <= y
<1> DEFINE R == OpToRel(<, Nat)
<1>1. IsWellFoundedOn(R, Nat)
  BY NatLessThanWellFounded, Zenon
<1>2. \A x, y \in Nat : x < y => <<x, y>> \in R
  BY DEF OpToRel
<1> HIDE DEF R
<1>3. PICK x \in T : \A y \in T : ~(<<y, x>> \in R)
  BY <1>1, WFMin
<1>4. ASSUME NEW y \in T PROVE x <= y
  <2>1. x \in Nat /\ y \in Nat
    OBVIOUS
  <2>2. ~(y < x)
    BY <1>2, <1>3, <2>1
  <2> QED BY <2>1, <2>2
<1> QED BY <1>4

\* Min of FiniteSetsExt returns it.
LEMMA MinProperty ==
    ASSUME NEW T, T \subseteq Nat, T # {}
    PROVE  Min(T) \in T /\ \A y \in T : Min(T) <= y
BY LeastElement DEF Min

\* Induction over 0..n.
LEMMA Induction ==
    ASSUME NEW n \in Nat, NEW T, 0 \in T,
           \A i \in 0..n : i # n /\ i \in T => i + 1 \in T
    PROVE  0..n \subseteq T
<1> DEFINE U == (0..n) \ T
<1> SUFFICES ASSUME U # {} PROVE FALSE
  OBVIOUS
<1>1. U \subseteq Nat
  OBVIOUS
<1>2. PICK x \in U : \A y \in U : x <= y
  BY <1>1, LeastElement
<1>3. x \in 0..n /\ x # 0 /\ x \notin T
  OBVIOUS
<1>4. x - 1 \in 0..n /\ x - 1 # n /\ (x - 1) + 1 = x /\ ~(x <= x - 1)
  BY <1>3
<1>5. x - 1 \in T
  BY <1>2, <1>4
<1> QED BY <1>3, <1>4, <1>5

\* There is a function with value a at 0 and step g.
HasSolution(n, S, a, g) ==
    \E f \in [0..n -> S] : f[0] = a /\ \A i \in 1..n : f[i] = g[i][f[i - 1]]

\* A function that is given by its value at 0 and by a step exists.
LEMMA Recursion ==
    ASSUME NEW n \in Nat, NEW S, NEW a \in S, NEW g \in [1..n -> [S -> S]]
    PROVE  HasSolution(n, S, a, g)
<1> USE DEF HasSolution
<1> DEFINE Good(m, f) == f[0] = a /\ \A i \in 1..m : f[i] = g[i][f[i - 1]]
           T == {m \in 0..n : \E f \in [0..m -> S] : Good(m, f)}
<1>1. 0 \in T
  <2>1. [i \in 0..0 |-> a] \in [0..0 -> S] /\ Good(0, [i \in 0..0 |-> a])
    OBVIOUS
  <2> HIDE DEF Good
  <2>2. \E f \in [0..0 -> S] : Good(0, f)
    BY <2>1
  <2> QED BY <2>2
<1>2. ASSUME NEW m \in 0..n, m # n, m \in T PROVE m + 1 \in T
  <2>1. PICK f \in [0..m -> S] : Good(m, f)
    BY <1>2
  <2> DEFINE h == [i \in 0..(m + 1) |-> IF i = m + 1 THEN g[m + 1][f[m]] ELSE f[i]]
  <2>2. m + 1 \in 1..n /\ m \in 0..m
    BY <1>2
  <2>3. f[m] \in S
    BY <2>2
  <2>4. g[m + 1][f[m]] \in S
    BY <2>2, <2>3
  <2>5. \A i \in 0..(m + 1) : i = m + 1 \/ i \in 0..m
    OBVIOUS
  <2>6. h \in [0..(m + 1) -> S]
    BY <2>4, <2>5
  <2>7. h[0] = a
    BY <2>1
  <2>8. ASSUME NEW i \in 1..(m + 1) PROVE h[i] = g[i][h[i - 1]]
    <3>1. CASE i = m + 1
      <4>1. h[i] = g[m + 1][f[m]] /\ i - 1 = m /\ h[m] = f[m]
        BY <3>1
      <4> QED BY <3>1, <4>1
    <3>2. CASE i # m + 1
      <4>1. i \in 1..m /\ h[i] = f[i] /\ h[i - 1] = f[i - 1]
        BY <3>2
      <4> QED BY <2>1, <4>1
    <3> QED BY <3>1, <3>2
  <2> HIDE DEF h
  <2>9. Good(m + 1, h)
    BY <2>7, <2>8
  <2> QED BY <2>2, <2>6, <2>9
<1>3. n \in T
  <2> HIDE DEF T
  <2>1. 0..n \subseteq T
    BY <1>1, <1>2, Induction
  <2> QED BY <2>1
<1> QED BY <1>3

-----------------------------------------------------------------------------
(* The searches *)

\* A text is a sequence; its length is a natural number.
LEMMA TextLength ==
    ASSUME NEW t \in Text
    PROVE  Len(t) \in Nat /\ t \in Seq(Char) /\ \A i \in 1..Len(t) : t[i] \in Char
BY DEF Text

\* strpbrk finds the first terminator from i on, if there is one.
LEMMA NextStopFinds ==
    ASSUME NEW t \in Text, NEW i \in 1..(Len(t) + 1)
    PROVE  \/ NextStop(t, i) = 0 /\ \A j \in i..Len(t) : t[j] # Stop
           \/ /\ NextStop(t, i) \in i..Len(t) /\ NextStop(t, i) # 0
              /\ t[NextStop(t, i)] = Stop
              /\ \A j \in i..Len(t) : t[j] = Stop => NextStop(t, i) <= j
<1> DEFINE stops == {j \in i..Len(t) : t[j] = Stop}
<1>1. Len(t) \in Nat /\ i \in Nat /\ i >= 1
  BY TextLength
<1>2. stops \subseteq Nat
  BY <1>1
<1>3. CASE stops = {}
  BY <1>3 DEF NextStop
<1>4. CASE stops # {}
  <2>1. Min(stops) \in stops /\ \A y \in stops : Min(stops) <= y
    BY <1>2, <1>4, MinProperty
  <2>2. NextStop(t, i) = Min(stops)
    BY <1>4 DEF NextStop
  <2>3. Min(stops) # 0
    BY <1>1, <2>1
  <2> HIDE DEF stops
  <2>4. /\ NextStop(t, i) \in stops /\ NextStop(t, i) # 0
        /\ \A y \in stops : NextStop(t, i) <= y
    BY <2>1, <2>2, <2>3
  <2> QED BY <2>4 DEF stops
<1> QED BY <1>3, <1>4

\* The loop over blanks stops at the first other character, or at the end.
LEMMA SkipBlanksFinds ==
    ASSUME NEW t \in Text, NEW i \in 1..(Len(t) + 1)
    PROVE  /\ SkipBlanks(t, i) \in i..(Len(t) + 1)
           /\ \A j \in i..(SkipBlanks(t, i) - 1) : t[j] = Space
           /\ SkipBlanks(t, i) <= Len(t) => t[SkipBlanks(t, i)] # Space
<1> DEFINE others == {j \in i..Len(t) : t[j] # Space} \cup {Len(t) + 1}
<1>1. Len(t) \in Nat /\ i \in Nat /\ i >= 1 /\ i <= Len(t) + 1
  BY TextLength
<1>2. others \subseteq Nat /\ others # {}
  BY <1>1
<1>3. Min(others) \in others /\ \A y \in others : Min(others) <= y
  BY <1>2, MinProperty
<1> DEFINE r == SkipBlanks(t, i)
<1>4. r = Min(others)
  BY DEF SkipBlanks
<1>5. r \in i..(Len(t) + 1) /\ (r <= Len(t) => t[r] # Space)
  BY <1>1, <1>3, <1>4
<1>6. ASSUME NEW j \in i..(r - 1) PROVE t[j] = Space
  <2>1. j \in i..Len(t) /\ ~(r <= j)
    BY <1>1, <1>5
  <2> QED BY <1>3, <1>4, <2>1
<1> QED BY <1>5, <1>6

\* One round of get_nth_sentence's loop.
Round(t, p) == IF p = 0 \/ NextStop(t, p) = 0 THEN 0 ELSE SkipBlanks(t, NextStop(t, p) + 1)

\* It stays within the text.
LEMMA RoundType ==
    ASSUME NEW t \in Text, NEW p \in 0..(Len(t) + 1)
    PROVE  Round(t, p) \in 0..(Len(t) + 1)
<1>1. Len(t) \in Nat
  BY TextLength
<1>2. CASE p = 0 \/ NextStop(t, p) = 0
  BY <1>1, <1>2 DEF Round
<1>3. CASE p # 0 /\ NextStop(t, p) # 0
  <2>1. NextStop(t, p) \in p..Len(t)
    BY <1>1, <1>3, NextStopFinds
  <2>2. NextStop(t, p) + 1 \in 1..(Len(t) + 1)
    BY <1>1, <1>3, <2>1
  <2>3. SkipBlanks(t, NextStop(t, p) + 1) \in (NextStop(t, p) + 1)..(Len(t) + 1)
    BY <2>2, SkipBlanksFinds
  <2>4. Round(t, p) = SkipBlanks(t, NextStop(t, p) + 1)
    BY <1>3 DEF Round
  <2> QED BY <1>1, <2>2, <2>3, <2>4
<1> QED BY <1>2, <1>3

\* The loop of get_nth_sentence: where it is after every round.
Starts(t, m) ==
    CHOOSE f : f = [i \in 0..m |->
                      IF i = 0 THEN 1
                      ELSE IF f[i - 1] = 0 \/ NextStop(t, f[i - 1]) = 0 THEN 0
                      ELSE SkipBlanks(t, NextStop(t, f[i - 1]) + 1)]

\* Its rounds are those of the code.
LEMMA StartsRounds ==
    ASSUME NEW t \in Text, NEW m \in Nat
    PROVE  /\ Starts(t, m) \in [0..m -> 0..(Len(t) + 1)]
           /\ Starts(t, m)[0] = 1
           /\ \A i \in 1..m : Starts(t, m)[i] = Round(t, Starts(t, m)[i - 1])
<1> DEFINE P == 0..(Len(t) + 1)
           g == [i \in 1..m |-> [x \in P |-> Round(t, x)]]
           Body(f) == [i \in 0..m |->
                         IF i = 0 THEN 1
                         ELSE IF f[i - 1] = 0 \/ NextStop(t, f[i - 1]) = 0 THEN 0
                         ELSE SkipBlanks(t, NextStop(t, f[i - 1]) + 1)]
           start == Starts(t, m)
<1>1. Len(t) \in Nat
  BY TextLength
<1>2. g \in [1..m -> [P -> P]]
  BY <1>1, RoundType
<1>3. PICK f \in [0..m -> P] : f[0] = 1 /\ \A i \in 1..m : f[i] = g[i][f[i - 1]]
  <2>1. 1 \in P
    BY <1>1
  <2> HIDE DEF g, P
  <2>2. HasSolution(m, P, 1, g)
    BY <1>2, <2>1, Recursion
  <2> QED BY <2>2 DEF HasSolution
<1>4. \A i \in 1..m : f[i] = Round(t, f[i - 1])
  <2> SUFFICES ASSUME NEW i \in 1..m PROVE f[i] = Round(t, f[i - 1])
    OBVIOUS
  <2>1. i - 1 \in 0..m
    OBVIOUS
  <2>2. f[i - 1] \in P
    BY <2>1
  <2>3. g[i][f[i - 1]] = Round(t, f[i - 1])
    BY <2>2
  <2> QED BY <1>3, <2>3
<1>5. f = Body(f)
  <2>1. ASSUME NEW i \in 0..m PROVE f[i] = Body(f)[i]
    <3>1. CASE i = 0
      BY <1>3, <3>1
    <3>2. CASE i # 0
      <4>1. i \in 1..m
        BY <3>2
      <4> QED BY <1>4, <3>2, <4>1 DEF Round
    <3> QED BY <3>1, <3>2
  <2> QED BY <2>1
<1>6. start = Body(start)
  BY <1>5 DEF Starts
<1> HIDE DEF start
<1>8. start[0] = 1 /\ \A i \in 1..m : start[i] = Round(t, start[i - 1])
  BY <1>6 DEF Round
<1>9. \A i \in 0..m : start[i] \in P
  <2> DEFINE T == {i \in 0..m : start[i] \in P}
  <2>1. 0 \in T
    BY <1>1, <1>8
  <2>2. ASSUME NEW i \in 0..m, i # m, i \in T PROVE i + 1 \in T
    <3>1. i + 1 \in 1..m /\ (i + 1) - 1 = i
      BY <2>2
    <3>2. start[i + 1] = Round(t, start[i]) /\ start[i] \in P
      BY <1>8, <2>2, <3>1
    <3>3. Round(t, start[i]) \in P
      BY <3>2, RoundType
    <3> QED BY <3>1, <3>2, <3>3
  <2> HIDE DEF T
  <2>3. 0..m \subseteq T
    BY <2>1, <2>2, Induction
  <2> QED BY <2>3 DEF T
<1>10. start \in [0..m -> P]
  BY <1>6, <1>9
<1> QED BY <1>8, <1>10 DEF start

\* get_nth_sentence's pointer is the one after the last round.
LEMMA SentenceStartIs ==
    ASSUME NEW t, NEW n
    PROVE  SentenceStart(t, n) = Starts(t, IF n < 0 THEN 0 ELSE n)[IF n < 0 THEN 0 ELSE n]
BY DEF SentenceStart, Starts


-----------------------------------------------------------------------------
(* Counting terminators *)

\* The count starts at 0 and grows by one at every terminator.
LEMMA StopsBeforeStep ==
    ASSUME NEW t \in Text
    PROVE  /\ StopsBefore(t, 1) = 0
           /\ \A i \in 1..(Len(t) + 1) : StopsBefore(t, i) \in Nat
           /\ \A i \in 1..Len(t) :
                StopsBefore(t, i + 1) = StopsBefore(t, i) + IF t[i] = Stop THEN 1 ELSE 0
<1> DEFINE S(i) == {j \in 1..(i - 1) : t[j] = Stop}
<1>1. Len(t) \in Nat
  BY TextLength
<1>2. ASSUME NEW i \in 1..(Len(t) + 1) PROVE IsFiniteSet(S(i)) /\ Cardinality(S(i)) \in Nat
  <2>1. i - 1 \in Int /\ IsFiniteSet(1..(i - 1))
    BY FS_Interval
  <2>2. IsFiniteSet(S(i))
    BY <2>1, FS_Subset
  <2> QED BY <2>2, FS_CardinalityType
<1>3. StopsBefore(t, 1) = 0
  <2>1. S(1) = {}
    OBVIOUS
  <2> QED BY <2>1, FS_EmptySet DEF StopsBefore
<1>4. ASSUME NEW i \in 1..Len(t)
      PROVE  StopsBefore(t, i + 1) = StopsBefore(t, i) + IF t[i] = Stop THEN 1 ELSE 0
  <2>1. i \in 1..(Len(t) + 1) /\ i \notin S(i) /\ (i + 1) - 1 = i
    BY <1>1
  <2>2. \A j : j \in 1..i <=> j \in 1..(i - 1) \/ j = i
    BY <1>1
  <2>3. CASE t[i] = Stop
    <3>1. S(i + 1) = S(i) \cup {i}
      BY <2>1, <2>2, <2>3
    <3>2. Cardinality(S(i) \cup {i}) = Cardinality(S(i)) + 1
      BY <1>2, <2>1, FS_AddElement
    <3> QED BY <2>3, <3>1, <3>2 DEF StopsBefore
  <2>4. CASE t[i] # Stop
    <3>1. S(i + 1) = S(i)
      BY <2>1, <2>2, <2>4
    <3>2. StopsBefore(t, i) \in Nat
      BY <1>2, <2>1 DEF StopsBefore
    <3>3. StopsBefore(t, i + 1) = StopsBefore(t, i)
      BY <3>1 DEF StopsBefore
    <3> QED BY <2>4, <3>2, <3>3
  <2> QED BY <2>3, <2>4
<1> QED BY <1>2, <1>3, <1>4 DEF StopsBefore

\* So is the count of all of them a number.
LEMMA StopsType ==
    ASSUME NEW t \in Text
    PROVE  Stops(t) \in Nat
<1>1. Len(t) \in Nat
  BY TextLength
<1>2. Len(t) + 1 \in 1..(Len(t) + 1)
  BY <1>1
<1> QED BY <1>2, StopsBeforeStep DEF Stops

\* It never falls, and stays where there is no terminator.
LEMMA StopsBeforeMonotone ==
    ASSUME NEW t \in Text, NEW i \in 1..(Len(t) + 1), NEW k \in 1..(Len(t) + 1), i <= k
    PROVE  /\ StopsBefore(t, i) <= StopsBefore(t, k)
           /\ (\A j \in i..(k - 1) : t[j] # Stop) => StopsBefore(t, i) = StopsBefore(t, k)
<1> DEFINE S(x) == {j \in 1..(x - 1) : t[j] = Stop}
<1>1. Len(t) \in Nat
  BY TextLength
<1>2. IsFiniteSet(S(k))
  <2>1. k - 1 \in Int /\ IsFiniteSet(1..(k - 1))
    BY FS_Interval
  <2> QED BY <2>1, FS_Subset
<1>3. S(i) \in SUBSET S(k)
  BY <1>1
<1>4. StopsBefore(t, i) <= StopsBefore(t, k)
  BY <1>2, <1>3, FS_Subset DEF StopsBefore
<1>5. ASSUME \A j \in i..(k - 1) : t[j] # Stop PROVE S(i) = S(k)
  <2>1. \A j \in 1..(k - 1) : j \in 1..(i - 1) \/ j \in i..(k - 1)
    BY <1>1
  <2> QED BY <1>3, <1>5, <2>1
<1> QED BY <1>4, <1>5 DEF StopsBefore

\* It differs before and after a terminator.
LEMMA StopsBeforeStrict ==
    ASSUME NEW t \in Text, NEW i \in 1..Len(t), t[i] = Stop,
           NEW k \in 1..(Len(t) + 1), i < k
    PROVE  StopsBefore(t, i) + 1 <= StopsBefore(t, k)
<1>1. Len(t) \in Nat
  BY TextLength
<1>2. i + 1 \in 1..(Len(t) + 1) /\ i + 1 <= k
  BY <1>1
<1>3. StopsBefore(t, i + 1) = StopsBefore(t, i) + 1
  BY StopsBeforeStep
<1> QED BY <1>2, <1>3, StopsBeforeMonotone

\* Position p starts sentence k: k terminators are before it; between the last of
\* them, at q, and p there are only blanks, and p is not a blank itself.
Begins(t, k, q, p) ==
    /\ p \in 1..(Len(t) + 1) /\ q \in 0..(p - 1)
    /\ StopsBefore(t, p) = k
    /\ \/ k = 0 /\ q = 0 /\ p = 1
       \/ /\ k > 0 /\ q > 0 /\ t[q] = Stop /\ StopsBefore(t, q) = k - 1
          /\ \A j \in (q + 1)..(p - 1) : t[j] = Space
          /\ p <= Len(t) => t[p] # Space

\* A round of the loop goes from one sentence to the next, or finds no more.
LEMMA RoundAdvances ==
    ASSUME NEW t \in Text, NEW k \in Nat, NEW q \in Nat, NEW p \in Nat, Begins(t, k, q, p)
    PROVE  \/ Round(t, p) = 0 /\ k = Stops(t)
           \/ Round(t, p) # 0 /\ k + 1 <= Stops(t) /\ \E r \in Nat : Begins(t, k + 1, r, Round(t, p))
<1> DEFINE L == Len(t)
           r == NextStop(t, p)
<1>1. L \in Nat /\ p \in 1..(L + 1) /\ StopsBefore(t, p) = k /\ L + 1 \in 1..(L + 1)
  BY TextLength DEF Begins
<1>2. CASE r = 0
  <2>1. \A j \in p..L : t[j] # Stop
    BY <1>1, <1>2, NextStopFinds
  <2>2. p <= L + 1 /\ (L + 1) - 1 = L
    BY <1>1
  <2>3. StopsBefore(t, p) = StopsBefore(t, L + 1)
    BY <1>1, <2>1, <2>2, StopsBeforeMonotone
  <2> QED BY <1>1, <1>2, <2>3 DEF Round, Stops
<1>3. CASE r # 0
  <2>1. /\ r \in p..L /\ t[r] = Stop
        /\ \A j \in p..L : t[j] = Stop => r <= j
    BY <1>1, <1>3, NextStopFinds
  <2>2. r \in 1..L /\ r + 1 \in 1..(L + 1) /\ p <= r
    BY <1>1, <2>1
  <2>3. \A j \in p..(r - 1) : j \in p..L /\ ~(r <= j)
    BY <1>1, <2>1
  <2>4. StopsBefore(t, r) = k
    <3>1. r \in 1..(L + 1) /\ \A j \in p..(r - 1) : t[j] # Stop
      BY <1>1, <2>1, <2>2, <2>3
    <3> QED BY <1>1, <2>2, <3>1, StopsBeforeMonotone
  <2>5. StopsBefore(t, r + 1) = k + 1
    BY <2>1, <2>2, <2>4, StopsBeforeStep
  <2> DEFINE z == SkipBlanks(t, r + 1)
  <2>6. /\ z \in (r + 1)..(L + 1)
        /\ \A j \in (r + 1)..(z - 1) : t[j] = Space
        /\ z <= L => t[z] # Space
    BY <2>2, SkipBlanksFinds
  <2>7. z \in 1..(L + 1) /\ r + 1 <= z /\ z # 0
    BY <1>1, <2>2, <2>6
  <2>8. StopsBefore(t, z) = k + 1
    BY <2>2, <2>5, <2>6, <2>7, StopsBeforeMonotone, CharactersAssumption
  <2>9. StopsBefore(t, z) <= Stops(t)
    BY <1>1, <2>7, StopsBeforeMonotone DEF Stops
  <2>10. Round(t, p) = z
    BY <1>1, <1>3 DEF Round
  <2>11. Begins(t, k + 1, r, z)
    BY <1>1, <2>1, <2>2, <2>4, <2>6, <2>7, <2>8 DEF Begins
  <2>12. r \in Nat
    BY <2>2
  <2> QED BY <2>7, <2>8, <2>9, <2>10, <2>11, <2>12
<1> QED BY <1>2, <1>3

\* get_nth_sentence finds the start of every sentence there is, and of no other.
LEMMA StartFound ==
    ASSUME NEW t \in Text, NEW m \in Nat
    PROVE  \/ m > Stops(t) /\ Starts(t, m)[m] = 0
           \/ m <= Stops(t) /\ \E q \in Nat : Begins(t, m, q, Starts(t, m)[m])
<1> DEFINE f == Starts(t, m)
           Right(i) == \/ i > Stops(t) /\ f[i] = 0
                       \/ i <= Stops(t) /\ \E q \in Nat : Begins(t, i, q, f[i])
           T == {i \in 0..m : Right(i)}
<1>1. Len(t) \in Nat /\ Len(t) + 1 \in 1..(Len(t) + 1)
  BY TextLength
<1>2. Stops(t) \in Nat /\ StopsBefore(t, 1) = 0
  BY <1>1, StopsBeforeStep DEF Stops
<1>3. /\ f \in [0..m -> 0..(Len(t) + 1)] /\ f[0] = 1
      /\ \A i \in 1..m : f[i] = Round(t, f[i - 1])
  BY StartsRounds
<1>4. 0 \in T
  <2>1. Begins(t, 0, 0, 1)
    BY <1>1, <1>2 DEF Begins
  <2>2. Right(0)
    BY <1>2, <1>3, <2>1
  <2> QED BY <2>2
<1>5. ASSUME NEW i \in 0..m, i # m, i \in T PROVE i + 1 \in T
  <2>1. i + 1 \in 1..m /\ (i + 1) - 1 = i /\ i \in Nat /\ Right(i) /\ i + 1 \in 0..m
    BY <1>5
  <2>2. f[i + 1] = Round(t, f[i]) /\ f[i] \in 0..(Len(t) + 1)
    BY <1>3, <1>5, <2>1
  <2>3. CASE i > Stops(t) /\ f[i] = 0
    <3>1. f[i + 1] = 0 /\ i + 1 > Stops(t)
      BY <1>2, <2>1, <2>2, <2>3 DEF Round
    <3> QED BY <2>1, <3>1
  <2>4. CASE i <= Stops(t) /\ \E q \in Nat : Begins(t, i, q, f[i])
    <3>1. PICK q \in Nat : Begins(t, i, q, f[i])
      BY <2>4
    <3>2. f[i] \in Nat
      BY <2>2
    <3>3. \/ f[i + 1] = 0 /\ i = Stops(t)
          \/ i + 1 <= Stops(t) /\ \E r \in Nat : Begins(t, i + 1, r, f[i + 1])
      BY <2>1, <2>2, <3>1, <3>2, RoundAdvances
    <3>4. Right(i + 1)
      BY <1>2, <2>1, <3>3
    <3> QED BY <2>1, <3>4
  <2> QED BY <2>1, <2>3, <2>4
<1>6. m \in T
  <2> HIDE DEF T
  <2>1. 0..m \subseteq T
    BY <1>4, <1>5, Induction
  <2> QED BY <2>1
<1> QED BY <1>6

\* Position e ends sentence k, which starts at p: the characters up to it have k
\* terminators before them, those from it on have more.
Ends(t, k, p, e) ==
    /\ e \in p..(Len(t) + 1)
    /\ \A i \in p..(e - 1) : StopsBefore(t, i) = k
    /\ \A i \in e..Len(t) : StopsBefore(t, i) > k

\* The sentence get_nth_sentence returns, for any number that is typed.
LEMMA SentenceFound ==
    ASSUME NEW t \in Text, NEW n \in Int, NEW m \in Nat, m = IF n < 0 THEN 0 ELSE n
    PROVE  LET s == get_nth_sentence(t, n)
           IN  \/ m > Stops(t) /\ s.start = 0
               \/ /\ m <= Stops(t) /\ s.start # 0
                  /\ \E q \in Nat : Begins(t, m, q, s.start)
                  /\ Ends(t, m, s.start, s.end)
<1> DEFINE L == Len(t)
           s == get_nth_sentence(t, n)
           p == SentenceStart(t, n)
           r == NextStop(t, p)
<1>1. p = Starts(t, m)[m]
  BY SentenceStartIs
<1>2. L \in Nat /\ s.start = p
  BY TextLength DEF get_nth_sentence
<1>3. CASE m > Stops(t)
  <2>1. Stops(t) \in Nat
    <3>1. L + 1 \in 1..(L + 1)
      BY <1>2
    <3> QED BY <3>1, StopsBeforeStep DEF Stops
  <2>2. ~(m <= Stops(t))
    BY <1>3, <2>1
  <2> QED BY <1>1, <1>2, <1>3, <2>2, StartFound
<1>4. CASE ~(m > Stops(t))
  <2>1. m <= Stops(t) /\ \E q \in Nat : Begins(t, m, q, p)
    BY <1>1, <1>4, StartFound
  <2>2. p \in 1..(L + 1) /\ StopsBefore(t, p) = m
    BY <2>1 DEF Begins
  <2>3. p # 0
    BY <2>2
  <2>4. s.end = IF r = 0 THEN L + 1 ELSE r + 1
    BY <2>3 DEF get_nth_sentence
  <2>5. CASE r = 0
    <3>1. \A j \in p..L : t[j] # Stop
      BY <2>2, <2>5, NextStopFinds
    <3>2. ASSUME NEW i \in p..L PROVE StopsBefore(t, i) = m
      <4>1. i \in 1..(L + 1) /\ p <= i /\ \A j \in p..(i - 1) : j \in p..L
        BY <1>2, <2>2
      <4> QED BY <2>2, <3>1, <4>1, StopsBeforeMonotone
    <3>3. s.end = L + 1 /\ L + 1 \in p..(L + 1) /\ (L + 1) - 1 = L /\ (L + 1)..L = {}
      BY <1>2, <2>2, <2>4, <2>5
    <3>4. Ends(t, m, p, L + 1)
      BY <3>2, <3>3 DEF Ends
    <3> QED BY <1>2, <2>1, <2>3, <3>3, <3>4
  <2>6. CASE r # 0
    <3>1. r \in p..L /\ t[r] = Stop /\ \A j \in p..L : t[j] = Stop => r <= j
      BY <2>2, <2>6, NextStopFinds
    <3>2. ASSUME NEW i \in p..r PROVE StopsBefore(t, i) = m
      <4>1. i \in 1..(L + 1) /\ p <= i /\ \A j \in p..(i - 1) : j \in p..L /\ ~(r <= j)
        BY <1>2, <2>2, <3>1
      <4>2. \A j \in p..(i - 1) : t[j] # Stop
        BY <3>1, <4>1
      <4> QED BY <2>2, <4>1, <4>2, StopsBeforeMonotone
    <3>3. ASSUME NEW i \in (r + 1)..L PROVE StopsBefore(t, i) > m
      <4>1. r \in 1..L /\ i \in 1..(L + 1) /\ r < i /\ r \in p..r
        BY <1>2, <2>2, <3>1
      <4>2. StopsBefore(t, r) = m /\ StopsBefore(t, r) + 1 <= StopsBefore(t, i)
        BY <3>1, <3>2, <4>1, StopsBeforeStrict
      <4>3. StopsBefore(t, i) \in Nat
        BY <4>1, StopsBeforeStep
      <4> QED BY <4>2, <4>3
    <3>4. s.end = r + 1 /\ r + 1 \in p..(L + 1) /\ (r + 1) - 1 = r
      BY <1>2, <2>2, <2>4, <2>6, <3>1
    <3>5. Ends(t, m, p, r + 1)
      BY <3>2, <3>3, <3>4 DEF Ends
    <3> QED BY <1>2, <2>1, <2>3, <3>4, <3>5
  <2> QED BY <2>5, <2>6
<1> QED BY <1>3, <1>4

\* Where the characters of sentence k, and of those before and after it, are.
LEMMA Positions ==
    ASSUME NEW t \in Text, NEW k \in Nat, NEW q \in Nat, NEW p \in Nat, NEW e \in Nat,
           Begins(t, k, q, p), Ends(t, k, p, e), NEW i \in 1..Len(t)
    PROVE  /\ i <= q => StopsBefore(t, i) < k
           /\ q < i /\ i < e => StopsBefore(t, i) = k
           /\ e <= i => StopsBefore(t, i) > k
<1> DEFINE L == Len(t)
<1>1. /\ L \in Nat /\ p \in 1..(L + 1) /\ q \in 0..(p - 1) /\ e \in p..(L + 1)
      /\ i \in 1..(L + 1) /\ StopsBefore(t, i) \in Nat
  BY TextLength, StopsBeforeStep DEF Begins, Ends
<1>2. ASSUME i <= q PROVE StopsBefore(t, i) < k
  <2>1. k > 0 /\ q \in 1..(L + 1) /\ StopsBefore(t, q) = k - 1
    BY <1>1, <1>2 DEF Begins
  <2>2. StopsBefore(t, i) <= StopsBefore(t, q)
    BY <1>1, <1>2, <2>1, StopsBeforeMonotone
  <2> QED BY <1>1, <2>1, <2>2
<1>3. ASSUME q < i, i < p PROVE StopsBefore(t, i) = k
  <2>1. q # 0
    BY <1>1, <1>3 DEF Begins
  <2>2. /\ \A j \in (q + 1)..(p - 1) : t[j] = Space
        /\ StopsBefore(t, p) = k
    BY <2>1 DEF Begins
  <2>3. i <= p /\ \A j \in i..(p - 1) : j \in (q + 1)..(p - 1)
    BY <1>1, <1>3
  <2>4. \A j \in i..(p - 1) : t[j] # Stop
    BY <2>2, <2>3, CharactersAssumption
  <2> QED BY <1>1, <2>2, <2>3, <2>4, StopsBeforeMonotone
<1>4. ASSUME p <= i, i < e PROVE StopsBefore(t, i) = k
  <2>1. i \in p..(e - 1)
    BY <1>1, <1>4
  <2> QED BY <2>1 DEF Ends
<1>5. ASSUME e <= i PROVE StopsBefore(t, i) > k
  <2>1. i \in e..L
    BY <1>1, <1>5
  <2> QED BY <2>1 DEF Ends
<1>6. i < p \/ p <= i
  BY <1>1
<1> QED BY <1>2, <1>3, <1>4, <1>5, <1>6

\* The least and the greatest number of an interval.
LEMMA IntervalBounds ==
    ASSUME NEW a \in Nat, NEW b \in Nat, a <= b
    PROVE  Min(a..b) = a /\ Max(a..b) = b
<1>1. a \in a..b /\ b \in a..b /\ \A x \in a..b : a <= x /\ x <= b /\ x \in Nat
  OBVIOUS
<1>2. Min(a..b) = a
  <2>1. Min(a..b) \in a..b /\ \A y \in a..b : Min(a..b) <= y
    BY <1>1 DEF Min
  <2>2. Min(a..b) <= a /\ a <= Min(a..b) /\ Min(a..b) \in Nat
    BY <1>1, <2>1
  <2> QED BY <2>2
<1>3. Max(a..b) = b
  <2>1. Max(a..b) \in a..b /\ \A y \in a..b : Max(a..b) >= y
    BY <1>1 DEF Max
  <2>2. Max(a..b) >= b /\ Max(a..b) <= b /\ Max(a..b) \in Nat
    BY <1>1, <2>1
  <2> QED BY <2>2
<1> QED BY <1>2, <1>3

\* What lies between start and end is the sentence found by counting.
LEMMA SentenceIsThere ==
    ASSUME NEW t \in Text, NEW k \in Nat, NEW q \in Nat, NEW p \in Nat, NEW e \in Nat,
           Begins(t, k, q, p), Ends(t, k, p, e)
    PROVE  SubSeq(t, p, e - 1) = Sentence(t, k)
<1> DEFINE L == Len(t)
           all == {i \in 1..L : StopsBefore(t, i) = k}
           some == IF k = 0 THEN all
                   ELSE {i \in all : \E j \in all : j <= i /\ t[j] # Space}
<1>1. L \in Nat /\ p \in 1..(L + 1) /\ q \in 0..(p - 1) /\ e \in p..(L + 1)
  BY TextLength DEF Begins, Ends
<1>2. all = (q + 1)..(e - 1)
  <2>1. ASSUME NEW i \in all PROVE i \in (q + 1)..(e - 1)
    <3>1. i \in 1..L /\ StopsBefore(t, i) = k /\ ~(k < k) /\ ~(k > k)
      OBVIOUS
    <3>2. ~(i <= q) /\ ~(e <= i)
      BY <3>1, Positions
    <3> QED BY <1>1, <3>1, <3>2
  <2>2. ASSUME NEW i \in (q + 1)..(e - 1) PROVE i \in all
    <3>1. i \in 1..L /\ q < i /\ i < e
      BY <1>1
    <3>2. StopsBefore(t, i) = k
      BY <3>1, Positions
    <3> QED BY <3>1, <3>2
  <2> QED BY <2>1, <2>2
<1>3. some = p..(e - 1)
  <2> HIDE DEF all
  <2>1. CASE k = 0
    <3>1. q = 0 /\ p = 1
      BY <2>1 DEF Begins
    <3> QED BY <1>2, <2>1, <3>1
  <2>2. CASE k # 0
    <3>1. /\ \A j \in (q + 1)..(p - 1) : t[j] = Space
          /\ p <= L => t[p] # Space
      BY <2>2 DEF Begins
    <3>2. ASSUME NEW i \in some PROVE i \in p..(e - 1)
      <4>1. PICK j \in all : j <= i /\ t[j] # Space /\ i \in all
        BY <2>2
      <4>2. i \in (q + 1)..(e - 1) /\ j \in (q + 1)..(e - 1)
        BY <1>2, <4>1
      <4>3. ~(j \in (q + 1)..(p - 1))
        BY <3>1, <4>1
      <4> QED BY <1>1, <4>1, <4>2, <4>3
    <3>3. ASSUME NEW i \in p..(e - 1) PROVE i \in some
      <4>1. p <= L /\ p \in (q + 1)..(e - 1) /\ i \in (q + 1)..(e - 1) /\ p <= i
        BY <1>1
      <4>2. p \in all /\ i \in all /\ t[p] # Space
        BY <1>2, <3>1, <4>1
      <4> QED BY <2>2, <4>1, <4>2
    <3> QED BY <3>2, <3>3
  <2> QED BY <2>1, <2>2
<1>4. Sentence(t, k) = IF some = {} THEN <<>> ELSE SubSeq(t, Min(some), Max(some))
  BY DEF Sentence
<1> HIDE DEF some
<1>5. CASE p <= e - 1
  <2>1. e - 1 \in Nat /\ p \in some
    BY <1>1, <1>3, <1>5
  <2>2. Min(some) = p /\ Max(some) = e - 1
    BY <1>3, <1>5, <2>1, IntervalBounds
  <2> QED BY <1>4, <2>1, <2>2
<1>6. CASE ~(p <= e - 1)
  <2>1. e - 1 = p - 1 /\ p..(e - 1) = {}
    BY <1>1, <1>6
  <2>2. t \in Seq(Char)
    BY TextLength
  <2>3. SubSeq(t, p, p - 1) = <<>>
    BY <1>1, <2>2
  <2> QED BY <1>3, <1>4, <2>1, <2>3
<1> QED BY <1>5, <1>6

-----------------------------------------------------------------------------
(* Words *)

\* A part of a sequence.
LEMMA PartOf ==
    ASSUME NEW S, NEW s \in Seq(S), NEW a \in 1..(Len(s) + 1), NEW b \in (a - 1)..Len(s)
    PROVE  /\ SubSeq(s, a, b) \in Seq(S)
           /\ Len(SubSeq(s, a, b)) = b - a + 1
           /\ \A i \in 1..(b - a + 1) : SubSeq(s, a, b)[i] = s[a + i - 1]
<1>1. Len(s) \in Nat /\ a \in Nat /\ b \in Int /\ b - a + 1 \in Nat
  OBVIOUS
<1>2. SubSeq(s, a, b) = [i \in 1..(b - a + 1) |-> s[a + i - 1]]
  BY <1>1
<1>3. \A i \in 1..(b - a + 1) : a + i - 1 \in 1..Len(s)
  BY <1>1
<1>4. \A i \in 1..(b - a + 1) : s[a + i - 1] \in S
  BY <1>3
<1> QED BY <1>1, <1>2, <1>4

\* A set of numbers has a k-th one.
HasRank(S, k) == \E i \in S : Cardinality({j \in S : j <= i}) = k

\* In a finite set of numbers there is one of every rank.
LEMMA Ranks ==
    ASSUME NEW n \in Nat, NEW S, S \subseteq 1..n, NEW k \in 1..Cardinality(S)
    PROVE  HasRank(S, k)
<1> USE DEF HasRank
<1> DEFINE C(x) == {j \in S : j <= x}
           T == {x \in Nat : Cardinality(C(x)) >= k}
<1>1. IsFiniteSet(S) /\ Cardinality(S) \in Nat /\ k \in Nat /\ k >= 1
  <2>1. IsFiniteSet(1..n)
    BY FS_Interval
  <2>2. IsFiniteSet(S)
    BY <2>1, FS_Subset
  <2> QED BY <2>2, FS_CardinalityType
<1>2. \A x \in Nat : IsFiniteSet(C(x)) /\ Cardinality(C(x)) \in Nat
  BY <1>1, FS_Subset, FS_CardinalityType
<1>3. n \in T
  <2>1. \A j \in S : j <= n
    OBVIOUS
  <2>2. C(n) = S
    BY <2>1, Zenon
  <2>3. Cardinality(C(n)) >= k
    BY <1>1, <2>2
  <2> HIDE DEF C
  <2> QED BY <2>3
<1>4. PICK x \in T : \A y \in T : x <= y
  BY <1>3, LeastElement
<1>5. x # 0
  <2>0. \A j \in S : ~(j <= 0)
    OBVIOUS
  <2>1. C(0) = {}
    BY <2>0, Zenon
  <2>2. Cardinality(C(0)) = 0
    BY <2>1, FS_EmptySet
  <2> QED BY <1>1, <2>2
<1>6. x \in Nat /\ x - 1 \in Nat /\ ~(x <= x - 1)
  BY <1>5
<1>7. x - 1 \notin T
  BY <1>4, <1>6
<1>8. /\ Cardinality(C(x - 1)) < k /\ Cardinality(C(x)) >= k
      /\ Cardinality(C(x - 1)) \in Nat /\ Cardinality(C(x)) \in Nat
      /\ IsFiniteSet(C(x - 1))
  <2> HIDE DEF C
  <2> QED BY <1>1, <1>2, <1>6, <1>7
<1>9. x \in S
  <2> SUFFICES ASSUME x \notin S PROVE FALSE
    OBVIOUS
  <2>1. \A j \in S : j <= x <=> j <= x - 1
    BY <1>6
  <2>2. C(x) = C(x - 1)
    BY <2>1
  <2> QED BY <1>1, <1>8, <2>2
<1>10. C(x) = C(x - 1) \cup {x} /\ x \notin C(x - 1)
  <2>1. \A j \in S : j <= x <=> j <= x - 1 \/ j = x
    BY <1>6
  <2> QED BY <1>6, <1>9, <2>1
<1>11. Cardinality(C(x)) = Cardinality(C(x - 1)) + 1
  BY <1>8, <1>10, FS_AddElement
<1>12. Cardinality(C(x)) = k
  BY <1>1, <1>8, <1>11
<1> QED BY <1>9, <1>12

\* strtok makes words that are texts, of any text.
LEMMA WordsType ==
    ASSUME NEW t \in Text
    PROVE  Words(t) \in Seq(Text)
<1> DEFINE L == Len(t)
           starts == {i \in 1..L : t[i] # Space /\ (i = 1 \/ t[i - 1] = Space)}
           ends(i) == {j \in i..L : t[j] = Space} \cup {L + 1}
           End(i) == Min(ends(i)) - 1
           first(k) == CHOOSE i \in starts : Cardinality({j \in starts : j <= i}) = k
<1>1. L \in Nat /\ t \in Seq(Char)
  BY TextLength
<1>2. starts \subseteq 1..L /\ IsFiniteSet(1..L)
  BY <1>1, FS_Interval
<1>3. Cardinality(starts) \in Nat
  BY <1>2, FS_Subset, FS_CardinalityType
<1>4. ASSUME NEW k \in 1..Cardinality(starts) PROVE SubSeq(t, first(k), End(first(k))) \in Text
  <2>1. \E i \in starts : Cardinality({j \in starts : j <= i}) = k
    <3> HIDE DEF starts
    <3>1. HasRank(starts, k)
      BY <1>1, <1>2, <1>4, Ranks
    <3> QED BY <3>1 DEF HasRank
  <2>2. first(k) \in starts
    <3> HIDE DEF starts
    <3> QED BY <2>1
  <2>3. first(k) \in 1..L
    BY <1>2, <2>2
  <2> HIDE DEF first
  <2> DEFINE i == first(k)
  <2>4. ends(i) \subseteq Nat /\ ends(i) # {}
    BY <1>1, <2>3
  <2>5. Min(ends(i)) \in ends(i)
    <3> HIDE DEF ends
    <3> QED BY <2>4, MinProperty
  <2>6. End(i) \in (i - 1)..L /\ i \in 1..(L + 1)
    BY <1>1, <2>3, <2>5
  <2> HIDE DEF End
  <2> QED BY <1>1, <2>6, PartOf DEF Text
<1>5. Words(t) = [k \in 1..Cardinality(starts) |-> SubSeq(t, first(k), End(first(k)))]
  BY DEF Words
<1> DEFINE n == Cardinality(starts)
           word(k) == SubSeq(t, first(k), End(first(k)))
<1>6. n \in Nat /\ \A k \in 1..n : word(k) \in Text
  BY <1>3, <1>4
<1>7. Words(t) = [k \in 1..n |-> word(k)]
  BY <1>5
<1> HIDE DEF n, word
<1> QED BY <1>6, <1>7

\* Those that fit into the array are words still.
LEMMA FirstWordsType ==
    ASSUME NEW t \in Text
    PROVE  FirstWords(t) \in Seq(Text)
<1> DEFINE w == Words(t)
           n == Min({Len(w), MaxWords})
<1>1. w \in Seq(Text) /\ Len(w) \in Nat /\ MaxWords \in Nat
  BY WordsType, CharactersAssumption
<1>2. n \in {Len(w), MaxWords} /\ n <= Len(w)
  <2>1. {Len(w), MaxWords} \subseteq Nat
    BY <1>1
  <2> QED BY <2>1, MinProperty
<1>3. 1 \in 1..(Len(w) + 1) /\ n \in (1 - 1)..Len(w)
  BY <1>1, <1>2
<1> HIDE DEF n, w
<1>4. SubSeq(w, 1, n) \in Seq(Text)
  BY <1>1, <1>3, PartOf
<1> QED BY <1>4 DEF FirstWords, n, w

\* A WriteOp makes words of words, whatever its index.
LEMMA ApplyType ==
    ASSUME NEW w \in Seq(Text), NEW op \in WriteOp
    PROVE  Apply(w, op) \in Seq(Text)
<1>1. op.word_index \in Int /\ op.content \in Text /\ Len(w) \in Nat
  BY DEF WriteOp
<1>2. CASE op.word_index >= 0 /\ op.word_index < Len(w)
  <2>1. op.word_index + 1 \in 1..Len(w)
    BY <1>1, <1>2
  <2>2. [w EXCEPT ![op.word_index + 1] = op.content] \in Seq(Text)
    BY <1>1, <2>1
  <2> QED BY <1>2, <2>2 DEF Apply
<1>3. CASE ~(op.word_index >= 0 /\ op.word_index < Len(w))
  <2>1. Append(w, op.content) \in Seq(Text)
    BY <1>1
  <2> QED BY <1>3, <2>1 DEF Apply
<1> QED BY <1>2, <1>3

\* The loop over the list of WriteOps: the words after each of them.
Applied(w, ops) ==
    CHOOSE f : f = [i \in 0..Len(ops) |-> IF i = 0 THEN w ELSE Apply(f[i - 1], ops[i])]

\* The loop makes words of words, one WriteOp after the other.
LEMMA AppliedIs ==
    ASSUME NEW w \in Seq(Text), NEW ops \in Seq(WriteOp)
    PROVE  /\ Applied(w, ops)[0] = w
           /\ \A i \in 1..Len(ops) : Applied(w, ops)[i] = Apply(Applied(w, ops)[i - 1], ops[i])
           /\ \A i \in 0..Len(ops) : Applied(w, ops)[i] \in Seq(Text)
           /\ ApplyAll(w, ops) = Applied(w, ops)[Len(ops)]
<1> DEFINE m == Len(ops)
           Step(i, x) == Apply(x, ops[i])
           g == [i \in 1..m |-> [x \in Seq(Text) |-> Step(i, x)]]
           Body(f) == [i \in 0..m |-> IF i = 0 THEN w ELSE Step(i, f[i - 1])]
           done == Applied(w, ops)
<1>1. m \in Nat /\ w \in Seq(Text)
  OBVIOUS
<1>2. \A i \in 1..m : \A x \in Seq(Text) : Step(i, x) \in Seq(Text)
  <2>1. \A i \in 1..m : ops[i] \in WriteOp
    OBVIOUS
  <2> QED BY <2>1, ApplyType
<1>3. PICK f \in [0..m -> Seq(Text)] : f = Body(f)
  <2> HIDE DEF Step, m
  <2>1. g \in [1..m -> [Seq(Text) -> Seq(Text)]]
    BY <1>2
  <2>2. HasSolution(m, Seq(Text), w, g)
    <3> HIDE DEF g
    <3> QED BY <1>1, <2>1, Recursion
  <2>3. PICK f \in [0..m -> Seq(Text)] :
           f[0] = w /\ \A i \in 1..m : f[i] = g[i][f[i - 1]]
    <3> HIDE DEF g
    <3> QED BY <2>2 DEF HasSolution
  <2>4. ASSUME NEW i \in 0..m PROVE f[i] = IF i = 0 THEN w ELSE Step(i, f[i - 1])
    <3>1. CASE i = 0
      BY <2>3, <3>1
    <3>2. CASE i # 0
      <4>1. i \in 1..m /\ i - 1 \in 0..m
        BY <1>1, <3>2
      <4>2. f[i - 1] \in Seq(Text)
        BY <4>1
      <4> QED BY <2>3, <3>2, <4>1, <4>2
    <3> QED BY <3>1, <3>2
  <2>5. f = Body(f)
    BY <2>4
  <2> QED BY <2>5
<1>4. done = Body(done)
  <2> HIDE DEF m
  <2> QED BY <1>3 DEF Applied, m
<1> HIDE DEF done, Step, m
<1>5. done[0] = w /\ \A i \in 1..m : done[i] = Step(i, done[i - 1])
  BY <1>1, <1>4
<1>6. \A i \in 0..m : done[i] \in Seq(Text)
  <2> DEFINE T == {i \in 0..m : done[i] \in Seq(Text)}
  <2>1. 0 \in T
    BY <1>1, <1>5
  <2>2. ASSUME NEW i \in 0..m, i # m, i \in T PROVE i + 1 \in T
    <3>1. i + 1 \in 1..m /\ (i + 1) - 1 = i /\ i + 1 \in 0..m
      BY <1>1, <2>2
    <3>2. done[i + 1] = Step(i + 1, done[i]) /\ done[i] \in Seq(Text)
      BY <1>5, <2>2, <3>1
    <3> QED BY <1>2, <3>1, <3>2
  <2> HIDE DEF T
  <2>3. 0..m \subseteq T
    BY <1>1, <2>1, <2>2, Induction
  <2> QED BY <2>3 DEF T
<1>7. ApplyAll(w, ops) = done[m]
  BY DEF ApplyAll, Applied, done, m
<1> QED BY <1>5, <1>6, <1>7 DEF done, Step, m

\* The whole list makes words of words.
LEMMA ApplyAllType ==
    ASSUME NEW w \in Seq(Text), NEW ops \in Seq(WriteOp)
    PROVE  ApplyAll(w, ops) \in Seq(Text)
<1>1. Len(ops) \in 0..Len(ops)
  OBVIOUS
<1> QED BY <1>1, AppliedIs

\* The loop that puts the words together: the sentence after each word.
Joined(w) ==
    CHOOSE f : f = [i \in 0..Len(w) |->
                      IF i = 0 THEN <<>>
                      ELSE f[i - 1] \o (IF i = 1 \/ w[i] = <<Stop>>
                                        THEN <<>> ELSE <<Space>>) \o w[i]]

\* The loop makes a text of words, one word after the other.
LEMMA JoinedIs ==
    ASSUME NEW w \in Seq(Text)
    PROVE  /\ Joined(w)[0] = <<>>
           /\ \A i \in 1..Len(w) :
                Joined(w)[i] = Joined(w)[i - 1] \o (IF i = 1 \/ w[i] = <<Stop>>
                                                    THEN <<>> ELSE <<Space>>) \o w[i]
           /\ \A i \in 0..Len(w) : Joined(w)[i] \in Text
           /\ Join(w) = Joined(w)[Len(w)]
<1> DEFINE m == Len(w)
           Step(i, x) == x \o (IF i = 1 \/ w[i] = <<Stop>>
                               THEN <<>> ELSE <<Space>>) \o w[i]
           g == [i \in 1..m |-> [x \in Text |-> Step(i, x)]]
           Body(f) == [i \in 0..m |-> IF i = 0 THEN <<>> ELSE Step(i, f[i - 1])]
           done == Joined(w)
<1>1. m \in Nat /\ <<>> \in Text
  BY DEF Text
<1>2. \A i \in 1..m : \A x \in Text : Step(i, x) \in Text
  <2>1. \A i \in 1..m : w[i] \in Text
    OBVIOUS
  <2>2. <<>> \in Seq(Char) /\ <<Space>> \in Seq(Char)
    BY DEF Char
  <2>3. ASSUME NEW x \in Seq(Char), NEW y \in Seq(Char), NEW z \in Seq(Char)
        PROVE  x \o z \o y \in Seq(Char)
    OBVIOUS
  <2> QED BY <2>1, <2>2, <2>3 DEF Text
<1>3. PICK f \in [0..m -> Text] : f = Body(f)
  <2> HIDE DEF Step, m
  <2>1. g \in [1..m -> [Text -> Text]]
    BY <1>2
  <2>2. HasSolution(m, Text, <<>>, g)
    <3> HIDE DEF g
    <3> QED BY <1>1, <2>1, Recursion
  <2>3. PICK f \in [0..m -> Text] :
           f[0] = <<>> /\ \A i \in 1..m : f[i] = g[i][f[i - 1]]
    <3> HIDE DEF g
    <3> QED BY <2>2 DEF HasSolution
  <2>4. ASSUME NEW i \in 0..m PROVE f[i] = IF i = 0 THEN <<>> ELSE Step(i, f[i - 1])
    <3>1. CASE i = 0
      BY <2>3, <3>1
    <3>2. CASE i # 0
      <4>1. i \in 1..m /\ i - 1 \in 0..m
        BY <1>1, <3>2
      <4>2. f[i - 1] \in Text
        BY <4>1
      <4> QED BY <2>3, <3>2, <4>1, <4>2
    <3> QED BY <3>1, <3>2
  <2>5. f = Body(f)
    BY <2>4
  <2> QED BY <2>5
<1>4. done = Body(done)
  <2> HIDE DEF m
  <2> QED BY <1>3 DEF Joined, m
<1> HIDE DEF done, Step, m
<1>5. done[0] = <<>> /\ \A i \in 1..m : done[i] = Step(i, done[i - 1])
  BY <1>1, <1>4
<1>6. \A i \in 0..m : done[i] \in Text
  <2> DEFINE T == {i \in 0..m : done[i] \in Text}
  <2>1. 0 \in T
    BY <1>1, <1>5
  <2>2. ASSUME NEW i \in 0..m, i # m, i \in T PROVE i + 1 \in T
    <3>1. i + 1 \in 1..m /\ (i + 1) - 1 = i /\ i + 1 \in 0..m
      BY <1>1, <2>2
    <3>2. done[i + 1] = Step(i + 1, done[i]) /\ done[i] \in Text
      BY <1>5, <2>2, <3>1
    <3> QED BY <1>2, <3>1, <3>2
  <2> HIDE DEF T
  <2>3. 0..m \subseteq T
    BY <1>1, <2>1, <2>2, Induction
  <2> QED BY <2>3 DEF T
<1>7. Join(w) = done[m]
  BY DEF Join, Joined, done, m
<1> QED BY <1>5, <1>6, <1>7, Zenon DEF done, Step, m

\* Joined words are a text.
LEMMA JoinType ==
    ASSUME NEW w \in Seq(Text)
    PROVE  Join(w) \in Text
<1>1. Len(w) \in 0..Len(w)
  OBVIOUS
<1> QED BY <1>1, JoinedIs

-----------------------------------------------------------------------------
(* commit_changes *)

\* Sequences are the same when their lengths and their members are.
LEMMA SameSequence ==
    ASSUME NEW S, NEW x \in Seq(S), NEW y \in Seq(S), Len(x) = Len(y),
           \A i \in 1..Len(x) : x[i] = y[i]
    PROVE  x = y
OBVIOUS

\* A sequence that follows another.
LEMMA Concatenation ==
    ASSUME NEW S, NEW x \in Seq(S), NEW y \in Seq(S)
    PROVE  /\ x \o y \in Seq(S) /\ Len(x \o y) = Len(x) + Len(y)
           /\ \A i \in 1..Len(x) : (x \o y)[i] = x[i]
           /\ \A i \in 1..Len(y) : (x \o y)[Len(x) + i] = y[i]
OBVIOUS

\* Two parts of sequences are the same when their characters are.
LEMMA SameParts ==
    ASSUME NEW S, NEW s \in Seq(S), NEW u \in Seq(S),
           NEW a \in 1..(Len(s) + 1), NEW b \in (a - 1)..Len(s),
           NEW c \in 1..(Len(u) + 1), NEW d \in (c - 1)..Len(u),
           b - a = d - c,
           \A i \in 1..(b - a + 1) : s[a + i - 1] = u[c + i - 1]
    PROVE  SubSeq(s, a, b) = SubSeq(u, c, d)
<1> DEFINE x == SubSeq(s, a, b)
           y == SubSeq(u, c, d)
           n == b - a + 1
<1>1. n \in Nat /\ d - c + 1 = n
  OBVIOUS
<1>2. x \in Seq(S) /\ Len(x) = n /\ \A i \in 1..n : x[i] = s[a + i - 1]
  BY PartOf
<1>3. y \in Seq(S) /\ Len(y) = n /\ \A i \in 1..n : y[i] = u[c + i - 1]
  <2>1. /\ y \in Seq(S) /\ Len(y) = d - c + 1
        /\ \A i \in 1..(d - c + 1) : y[i] = u[c + i - 1]
    BY PartOf
  <2> QED BY <1>1, <2>1
<1>4. \A i \in 1..n : x[i] = y[i]
  BY <1>2, <1>3
<1> HIDE DEF x, y, n
<1>5. x = y
  <2>1. Len(x) = Len(y) /\ \A i \in 1..Len(x) : x[i] = y[i]
    BY <1>2, <1>3, <1>4
  <2> QED BY <1>2, <1>3, <2>1, SameSequence
<1> QED BY <1>5 DEF x, y

\* The last sequence of a concatenation is its end.
LEMMA EndOf ==
    ASSUME NEW S, NEW z \in Seq(S), NEW y \in Seq(S)
    PROVE  SubSeq(z \o y, Len(z \o y) - Len(y) + 1, Len(z \o y)) = y
<1> DEFINE u == z \o y
           n == Len(y)
           l == Len(z)
<1>1. n \in Nat /\ l \in Nat
  OBVIOUS
<1>2. u \in Seq(S) /\ Len(u) = l + n /\ \A i \in 1..n : u[l + i] = y[i]
  BY Concatenation
<1> HIDE DEF u, n, l
<1>3. /\ Len(u) - n + 1 = l + 1 /\ l + 1 \in 1..(Len(u) + 1) /\ Len(u) \in ((l + 1) - 1)..Len(u)
      /\ Len(u) - (l + 1) + 1 = n /\ \A i \in 1..n : l + 1 + i - 1 = l + i
  BY <1>1, <1>2
<1>4. /\ SubSeq(u, l + 1, Len(u)) \in Seq(S) /\ Len(SubSeq(u, l + 1, Len(u))) = n
      /\ \A i \in 1..n : SubSeq(u, l + 1, Len(u))[i] = u[l + 1 + i - 1]
  <2> DEFINE a == l + 1
             b == Len(u)
  <2>1. a \in 1..(Len(u) + 1) /\ b \in (a - 1)..Len(u) /\ b - a + 1 = n
    BY <1>3
  <2> HIDE DEF a, b
  <2>2. /\ SubSeq(u, a, b) \in Seq(S) /\ Len(SubSeq(u, a, b)) = n
        /\ \A i \in 1..n : SubSeq(u, a, b)[i] = u[a + i - 1]
    BY <1>2, <2>1, PartOf
  <2> QED BY <2>2 DEF a, b
<1>5. SubSeq(u, l + 1, Len(u)) = y
  <2> DEFINE v == SubSeq(u, l + 1, Len(u))
  <2>1. v \in Seq(S) /\ Len(v) = Len(y) /\ \A i \in 1..Len(v) : v[i] = y[i]
    BY <1>2, <1>3, <1>4 DEF n
  <2> HIDE DEF v
  <2>2. v = y
    BY <2>1, SameSequence
  <2> QED BY <2>2 DEF v
<1> QED BY <1>3, <1>5 DEF u, n

\* The first sequence of a concatenation is its beginning.
LEMMA BeginningOf ==
    ASSUME NEW S, NEW x \in Seq(S), NEW y \in Seq(S), NEW q \in 0..Len(x)
    PROVE  SubSeq(x \o y, 1, q) = SubSeq(x, 1, q)
<1> DEFINE u == x \o y
<1>1. /\ u \in Seq(S) /\ Len(u) = Len(x) + Len(y) /\ Len(x) \in Nat /\ Len(y) \in Nat
      /\ \A i \in 1..Len(x) : u[i] = x[i]
  BY Concatenation
<1> HIDE DEF u
<1>2. /\ 1 \in 1..(Len(u) + 1) /\ q \in (1 - 1)..Len(u)
      /\ 1 \in 1..(Len(x) + 1) /\ q \in (1 - 1)..Len(x)
  BY <1>1
<1>3. \A i \in 1..(q - 1 + 1) : 1 + i - 1 = i /\ i \in 1..Len(x)
  BY <1>1
<1>4. \A i \in 1..(q - 1 + 1) : u[1 + i - 1] = x[1 + i - 1]
  BY <1>1, <1>3
<1>5. SubSeq(u, 1, q) = SubSeq(x, 1, q)
  BY <1>1, <1>2, <1>4, SameParts
<1> QED BY <1>5 DEF u

\* So is what was its beginning.
LEMMA BeginningOfPart ==
    ASSUME NEW S, NEW s \in Seq(S), NEW p \in 0..Len(s), NEW q \in 0..p
    PROVE  SubSeq(SubSeq(s, 1, p), 1, q) = SubSeq(s, 1, q)
<1> DEFINE x == SubSeq(s, 1, p)
<1>1. 1 \in 1..(Len(s) + 1) /\ p \in (1 - 1)..Len(s) /\ p - 1 + 1 = p /\ Len(s) \in Nat
  OBVIOUS
<1>2. x \in Seq(S) /\ Len(x) = p /\ \A i \in 1..p : x[i] = s[1 + i - 1]
  BY <1>1, PartOf
<1> HIDE DEF x
<1>3. /\ 1 \in 1..(Len(x) + 1) /\ q \in (1 - 1)..Len(x) /\ q \in (1 - 1)..Len(s)
      /\ \A i \in 1..(q - 1 + 1) : i \in 1..p /\ 1 + i - 1 = i
  BY <1>1, <1>2
<1>4. \A i \in 1..(q - 1 + 1) : x[1 + i - 1] = s[1 + i - 1]
  BY <1>2, <1>3
<1>5. SubSeq(x, 1, q) = SubSeq(s, 1, q)
  BY <1>1, <1>2, <1>3, <1>4, SameParts
<1> QED BY <1>5 DEF x

\* Sequence s with new in the place of its part from a up to e.
Spliced(s, a, new, e) == SubSeq(s, 1, a - 1) \o new \o SubSeq(s, e, Len(s))

\* Sequences u and s have their first q members and their last r in common.
AgreeOutside(u, s, q, r) ==
    /\ SubSeq(u, 1, q) = SubSeq(s, 1, q)
    /\ SubSeq(u, Len(u) - r + 1, Len(u)) = SubSeq(s, Len(s) - r + 1, Len(s))

\* A part of a sequence is replaced: what was before it and after it stays.
LEMMA Replaced ==
    ASSUME NEW S, NEW s \in Seq(S), NEW new \in Seq(S),
           NEW a \in 1..(Len(s) + 1), NEW e \in a..(Len(s) + 1), NEW u,
           u = Spliced(s, a, new, e), NEW q \in 0..(a - 1), NEW r, r = Len(s) + 1 - e
    PROVE  u \in Seq(S) /\ AgreeOutside(u, s, q, r)
<1> USE DEF Spliced, AgreeOutside
<1> DEFINE x == SubSeq(s, 1, a - 1)
           y == SubSeq(s, e, Len(s))
<1>1. /\ Len(s) \in Nat /\ 1 \in 1..(Len(s) + 1) /\ a - 1 \in (1 - 1)..Len(s)
      /\ (a - 1) - 1 + 1 = a - 1
      /\ e \in 1..(Len(s) + 1) /\ Len(s) \in (e - 1)..Len(s)
      /\ Len(s) - e + 1 = r /\ Len(s) - r + 1 = e /\ a - 1 \in 0..Len(s)
  OBVIOUS
<1>2. x \in Seq(S) /\ Len(x) = a - 1
  BY <1>1, PartOf
<1>3. y \in Seq(S) /\ Len(y) = r
  BY <1>1, PartOf
<1>4. u = x \o new \o y
  OBVIOUS
<1>5. SubSeq(x, 1, q) = SubSeq(s, 1, q)
  BY <1>1, BeginningOfPart
<1> HIDE DEF x, y
<1> DEFINE z == x \o new
<1>6. z \in Seq(S) /\ q \in 0..Len(z) /\ q \in 0..Len(x)
  <2>1. z \in Seq(S) /\ Len(z) = Len(x) + Len(new)
    BY <1>2, Concatenation, Zenon
  <2>2. Len(new) \in Nat
    OBVIOUS
  <2> HIDE DEF z
  <2> QED BY <1>2, <2>1, <2>2
<1>7. SubSeq(z, 1, q) = SubSeq(x, 1, q)
  BY <1>2, <1>6, BeginningOf
<1> HIDE DEF z
<1>8. u = z \o y
  BY <1>4 DEF z
<1>9. u \in Seq(S)
  <2>1. z \o y \in Seq(S)
    BY <1>3, <1>6
  <2> QED BY <1>8, <2>1, Zenon
<1>10. SubSeq(u, 1, q) = SubSeq(z, 1, q)
  <2>1. SubSeq(z \o y, 1, q) = SubSeq(z, 1, q)
    BY <1>3, <1>6, BeginningOf, Zenon
  <2> QED BY <1>8, <2>1, Zenon
<1>11. SubSeq(u, Len(u) - r + 1, Len(u)) = y
  BY <1>3, <1>6, <1>8, EndOf
<1>12. SubSeq(s, Len(s) - r + 1, Len(s)) = y
  BY <1>1 DEF y
<1> QED BY <1>5, <1>7, <1>9, <1>10, <1>11, <1>12

\* The text commit_changes writes, for any list of WriteOps.
LEMMA CommitIs ==
    ASSUME NEW t \in Text, NEW n \in Int, NEW m \in Nat, m = IF n < 0 THEN 0 ELSE n,
           NEW ops \in Seq(WriteOp)
    PROVE  \/ m > Stops(t) /\ NotFound(t, n) /\ commit_changes(t, n, ops) = t
           \/ /\ m <= Stops(t) /\ ~NotFound(t, n)
              /\ \E q, p, e \in Nat, new \in Text :
                   /\ Begins(t, m, q, p) /\ Ends(t, m, p, e)
                   /\ commit_changes(t, n, ops) = Spliced(t, p, new, e)
<1> DEFINE s == get_nth_sentence(t, n)
           new == Join(ApplyAll(FirstWords(SubSeq(t, s.start, s.end - 1)), ops))
<1>1. CASE m > Stops(t) /\ s.start = 0
  BY <1>1 DEF NotFound, commit_changes
<1>2. CASE /\ m <= Stops(t) /\ s.start # 0
           /\ \E q \in Nat : Begins(t, m, q, s.start)
           /\ Ends(t, m, s.start, s.end)
  <2>1. PICK q \in Nat : Begins(t, m, q, s.start)
    BY <1>2
  <2>2. Len(t) \in Nat /\ t \in Seq(Char)
    BY TextLength
  <2>3. /\ s.start \in 1..(Len(t) + 1) /\ s.end \in s.start..(Len(t) + 1)
        /\ s.start \in Nat /\ s.end \in Nat /\ s.end - 1 \in (s.start - 1)..Len(t)
    <3>1. s.start \in 1..(Len(t) + 1) /\ s.end \in s.start..(Len(t) + 1)
      BY <1>2, <2>1 DEF Begins, Ends
    <3> HIDE DEF s
    <3> QED BY <2>2, <3>1
  <2>4. commit_changes(t, n, ops) = Spliced(t, s.start, new, s.end)
    BY <1>2 DEF commit_changes, Spliced
  <2>5. ~NotFound(t, n)
    BY <1>2 DEF NotFound
  <2>6. new \in Text
    <3> HIDE DEF s
    <3>1. SubSeq(t, s.start, s.end - 1) \in Seq(Char)
      BY <2>2, <2>3, PartOf
    <3>2. SubSeq(t, s.start, s.end - 1) \in Text
      BY <3>1 DEF Text
    <3> QED BY <3>2, FirstWordsType, ApplyAllType, JoinType
  <2> HIDE DEF s, new
  <2> QED BY <1>2, <2>1, <2>3, <2>4, <2>5, <2>6
<1>3. \/ m > Stops(t) /\ s.start = 0
      \/ /\ m <= Stops(t) /\ s.start # 0
         /\ \E q \in Nat : Begins(t, m, q, s.start)
         /\ Ends(t, m, s.start, s.end)
  BY SentenceFound
<1> HIDE DEF s, new
<1> QED BY <1>1, <1>2, <1>3

\* The characters of the sentences before sentence k, and after it.
Before(t, k) == {i \in 1..Len(t) : StopsBefore(t, i) < k}
After(t, k) == {i \in 1..Len(t) : StopsBefore(t, i) > k}

\* The characters of the sentences before and after sentence k are counted by
\* where it begins and ends.
LEMMA CountsOutside ==
    ASSUME NEW t \in Text, NEW k \in Nat, NEW q \in Nat, NEW p \in Nat, NEW e \in Nat,
           Begins(t, k, q, p), Ends(t, k, p, e)
    PROVE  Cardinality(Before(t, k)) = q /\ Cardinality(After(t, k)) = Len(t) + 1 - e
<1> USE DEF Before, After
<1> DEFINE L == Len(t)
           before == {i \in 1..L : StopsBefore(t, i) < k}
           after == {i \in 1..L : StopsBefore(t, i) > k}
<1>1. /\ L \in Nat /\ p \in 1..(L + 1) /\ q \in 0..(p - 1) /\ e \in p..(L + 1)
  BY TextLength DEF Begins, Ends
<1>2. ~(k < k) /\ ~(k > k)
  OBVIOUS
<1>3. \A i \in 1..L : StopsBefore(t, i) \in Nat
  BY <1>1, StopsBeforeStep
<1>4. ASSUME NEW i \in 1..L
      PROVE  /\ StopsBefore(t, i) < k <=> i <= q
             /\ StopsBefore(t, i) > k <=> e <= i
  <2>1. /\ i <= q => StopsBefore(t, i) < k
        /\ q < i /\ i < e => StopsBefore(t, i) = k
        /\ e <= i => StopsBefore(t, i) > k
    BY Positions
  <2>2. i <= q \/ (q < i /\ i < e) \/ e <= i
    BY <1>1
  <2> QED BY <1>1, <1>3, <2>1, <2>2
<1>5. before = 1..q /\ after = e..L
  <2>1. \A i : i \in 1..q <=> i \in 1..L /\ i <= q
    BY <1>1
  <2>2. \A i : i \in e..L <=> i \in 1..L /\ e <= i
    BY <1>1
  <2>3. before = 1..q
    BY <1>4, <2>1
  <2>4. after = e..L
    BY <1>4, <2>2
  <2> QED BY <2>3, <2>4
<1>6. Cardinality(1..q) = q
  <2>1. Cardinality(1..q) = IF 1 > q THEN 0 ELSE q - 1 + 1
    BY FS_Interval
  <2> QED BY <2>1
<1>7. Cardinality(e..L) = L + 1 - e
  <2> HIDE DEF L
  <2>1. e \in Int /\ L \in Int
    BY <1>1
  <2>2. Cardinality(e..L) = IF e > L THEN 0 ELSE L - e + 1
    BY <2>1, FS_Interval, Zenon
  <2> QED BY <1>1, <2>2
<1> QED BY <1>5, <1>6, <1>7

\* What commit_changes writes is a text, which outside of the sentence is the old
\* one; a sentence that is not there is reported as such.
THEOREM CommitKeeps ==
    ASSUME NEW t \in Text, NEW n \in Int, NEW m \in Nat, m = IF n < 0 THEN 0 ELSE n,
           NEW ops \in Seq(WriteOp), NEW u, u = commit_changes(t, n, ops),
           NEW b, b = Cardinality(Before(t, m)), NEW a, a = Cardinality(After(t, m))
    PROVE  /\ u \in Text
           /\ NotFound(t, n) <=> m > Stops(t)
           /\ m <= Stops(t) => AgreeOutside(u, t, b, a)
<1>1. Stops(t) \in Nat /\ t \in Seq(Char) /\ Len(t) \in Nat
  <2>1. t \in Seq(Char) /\ Len(t) \in Nat
    BY TextLength
  <2>2. Len(t) + 1 \in 1..(Len(t) + 1)
    BY <2>1
  <2> QED BY <2>1, <2>2, StopsBeforeStep DEF Stops
<1>2. CASE m > Stops(t) /\ NotFound(t, n) /\ commit_changes(t, n, ops) = t
  BY <1>1, <1>2
<1>3. CASE /\ m <= Stops(t) /\ ~NotFound(t, n)
           /\ \E q, p, e \in Nat, new \in Text :
                /\ Begins(t, m, q, p) /\ Ends(t, m, p, e)
                /\ commit_changes(t, n, ops) = Spliced(t, p, new, e)
  <2>1. PICK q \in Nat, p \in Nat, e \in Nat, new \in Text :
                /\ Begins(t, m, q, p) /\ Ends(t, m, p, e)
                /\ commit_changes(t, n, ops) = Spliced(t, p, new, e)
    BY <1>3
  <2>2. /\ p \in 1..(Len(t) + 1) /\ e \in p..(Len(t) + 1) /\ q \in 0..(p - 1)
        /\ new \in Seq(Char)
    BY <2>1 DEF Begins, Ends, Text
  <2>3. b = q /\ a = Len(t) + 1 - e
    BY <2>1, CountsOutside
  <2>4. u = Spliced(t, p, new, e)
    BY <2>1
  <2>5. u \in Seq(Char) /\ AgreeOutside(u, t, q, a)
    BY <1>1, <2>2, <2>3, <2>4, Replaced
  <2>6. u \in Text
    BY <2>5 DEF Text
  <2>7. ~(m > Stops(t))
    BY <1>1, <1>3
  <2> QED BY <1>3, <2>3, <2>5, <2>6, <2>7, Zenon
<1> QED BY <1>2, <1>3, CommitIs

=============================================================================
