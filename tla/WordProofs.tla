----------------------------- MODULE WordProofs -----------------------------
(***************************************************************************)
(* Proofs about the words of a sentence, for texts of any length: what     *)
(* strtok finds, that the words a session replaced and the ones it left    *)
(* alone are the words of the sentence that is put together again, and     *)
(* that a commit whose updates move no terminator leaves every other       *)
(* sentence its number and its text.                                       *)
(***************************************************************************)
EXTENDS SentenceEditProofs

-----------------------------------------------------------------------------
(* What strtok finds *)

\* Where words start.
WordStarts(s) == {i \in 1..Len(s) : s[i] # Space /\ (i = 1 \/ s[i - 1] = Space)}

\* The rank of a number in a set.
Rank(S, i) == Cardinality({j \in S : j <= i})

\* Word k of s is what lies between i and j.
IsWord(s, i, j, k) ==
    /\ i \in WordStarts(s) /\ Rank(WordStarts(s), i) = k
    /\ j \in i..Len(s) /\ (\A x \in i..j : s[x] # Space)
    /\ j = Len(s) \/ s[j + 1] = Space

\* Where the word that starts at i ends.
WordEnd(s, i) == Min({j \in i..Len(s) : s[j] = Space} \cup {Len(s) + 1}) - 1

\* The start of word k.
Nth(S, k) == CHOOSE i \in S : Rank(S, i) = k

\* The starts of words are positions, and there are finitely many.
LEMMA WordStartsType ==
    ASSUME NEW s \in Text
    PROVE  /\ Len(s) \in Nat /\ WordStarts(s) \subseteq 1..Len(s)
           /\ IsFiniteSet(WordStarts(s)) /\ Cardinality(WordStarts(s)) \in Nat
<1>1. Len(s) \in Nat /\ IsFiniteSet(1..Len(s))
  BY TextLength, FS_Interval
<1>2. WordStarts(s) \subseteq 1..Len(s)
  BY DEF WordStarts
<1> QED BY <1>1, <1>2, FS_Subset, FS_CardinalityType

\* A greater number has a greater rank.
LEMMA RankGrows ==
    ASSUME NEW S, IsFiniteSet(S), S \subseteq Nat, NEW i \in S, NEW k \in S, i < k
    PROVE  Rank(S, i) < Rank(S, k)
<1> DEFINE A == {j \in S : j <= i}
           B == {j \in S : j <= k}
<1>1. i \in Nat /\ k \in Nat /\ ~(k <= i) /\ k <= k /\ \A j \in S : j <= i => j <= k
  <2>1. \A j \in S : j \in Nat
    OBVIOUS
  <2> QED BY <2>1
<1>2. A \in SUBSET B /\ k \in B /\ k \notin A /\ B \in SUBSET S
  BY <1>1, Zenon
<1> HIDE DEF A, B
<1>3. IsFiniteSet(B)
  BY <1>2, FS_Subset
<1>4. /\ IsFiniteSet(A) /\ Cardinality(A) <= Cardinality(B)
      /\ Cardinality(A) = Cardinality(B) => A = B
  BY <1>2, <1>3, FS_Subset
<1>5. Cardinality(A) # Cardinality(B)
  BY <1>2, <1>4
<1>6. Cardinality(A) \in Nat /\ Cardinality(B) \in Nat
  BY <1>3, <1>4, FS_CardinalityType
<1>7. Cardinality(A) < Cardinality(B)
  BY <1>4, <1>5, <1>6
<1> QED BY <1>7 DEF Rank, A, B

\* Ranks are numbers up to the size of the set.
LEMMA RankType ==
    ASSUME NEW S, IsFiniteSet(S), S \subseteq Nat, NEW i \in S
    PROVE  Rank(S, i) \in 1..Cardinality(S) /\ Rank(S, i) \in Nat
<1> DEFINE A == {j \in S : j <= i}
<1>1. A \subseteq S /\ i \in A
  OBVIOUS
<1> HIDE DEF A
<1>2. IsFiniteSet(A) /\ Cardinality(A) <= Cardinality(S)
  BY <1>1, FS_Subset
<1>3. Cardinality(A) \in Nat /\ Cardinality(S) \in Nat
  BY <1>2, FS_CardinalityType
<1>4. Cardinality(A) # 0
  BY <1>1, <1>2, FS_EmptySet
<1>5. Rank(S, i) = Cardinality(A)
  BY DEF Rank, A
<1> QED BY <1>2, <1>3, <1>4, <1>5

\* No two numbers have the same rank.
LEMMA RankUnique ==
    ASSUME NEW S, IsFiniteSet(S), S \subseteq Nat, NEW i \in S, NEW k \in S,
           Rank(S, i) = Rank(S, k)
    PROVE  i = k
<1>1. i \in Nat /\ k \in Nat /\ Rank(S, i) \in Nat
  BY RankType
<1>2. ASSUME i < k PROVE FALSE
  <2>1. Rank(S, i) < Rank(S, k)
    BY <1>2, RankGrows
  <2> QED BY <1>1, <2>1
<1>3. ASSUME k < i PROVE FALSE
  <2>1. Rank(S, k) < Rank(S, i)
    BY <1>3, RankGrows
  <2> QED BY <1>1, <2>1
<1> QED BY <1>1, <1>2, <1>3

\* There is a number of every rank.
LEMMA NthIs ==
    ASSUME NEW n \in Nat, NEW S, S \subseteq 1..n, NEW k \in 1..Cardinality(S)
    PROVE  Nth(S, k) \in S /\ Rank(S, Nth(S, k)) = k
<1>1. HasRank(S, k)
  BY Ranks
<1>2. \E i \in S : Rank(S, i) = k
  BY <1>1 DEF HasRank, Rank
<1> QED BY <1>2 DEF Nth

\* A word goes on up to the next blank.
LEMMA WordEndFinds ==
    ASSUME NEW s \in Text, NEW i \in WordStarts(s)
    PROVE  /\ WordEnd(s, i) \in i..Len(s) /\ (\A x \in i..WordEnd(s, i) : s[x] # Space)
           /\ WordEnd(s, i) = Len(s) \/ s[WordEnd(s, i) + 1] = Space
<1> DEFINE L == Len(s)
           E == {j \in i..L : s[j] = Space} \cup {L + 1}
           m == Min(E)
<1>1. L \in Nat /\ i \in 1..L /\ s[i] # Space
  BY WordStartsType DEF WordStarts
<1>2. E \subseteq Nat /\ E # {}
  BY <1>1
<1>3. m \in E /\ \A y \in E : m <= y
  <2> HIDE DEF E
  <2> QED BY <1>2, MinProperty
<1>4. WordEnd(s, i) = m - 1
  BY DEF WordEnd
<1> HIDE DEF m
<1>5. m \in i..(L + 1) /\ (m = L + 1 \/ s[m] = Space) /\ m # i
  BY <1>1, <1>3
<1>6. m - 1 \in i..L /\ (m - 1) + 1 = m
  BY <1>1, <1>5
<1>7. ASSUME NEW x \in i..(m - 1) PROVE s[x] # Space
  <2>1. x \in i..L /\ ~(m <= x)
    BY <1>1, <1>5
  <2> QED BY <1>3, <2>1
<1>8. m - 1 = L \/ s[(m - 1) + 1] = Space
  BY <1>1, <1>5, <1>6
<1> QED BY <1>4, <1>6, <1>7, <1>8

\* There are as many words as starts of words; each is found at a place of its own.
LEMMA WordIs ==
    ASSUME NEW s \in Text
    PROVE  /\ Len(Words(s)) = Cardinality(WordStarts(s)) /\ Words(s) \in Seq(Text)
           /\ \A k \in 1..Len(Words(s)) :
                \E i, j \in Nat : IsWord(s, i, j, k) /\ Words(s)[k] = SubSeq(s, i, j)
<1> DEFINE W == WordStarts(s)
           n == Cardinality(W)
           f(k) == SubSeq(s, Nth(W, k), WordEnd(s, Nth(W, k)))
<1>1. Len(s) \in Nat /\ W \subseteq 1..Len(s) /\ n \in Nat
  BY WordStartsType
<1>2. Words(s) = [k \in 1..n |-> f(k)]
  BY DEF Words, WordStarts, Nth, Rank, WordEnd
<1>3. Words(s) \in Seq(Text)
  BY WordsType
<1>4. ASSUME NEW k \in 1..n
      PROVE  \E i, j \in Nat : IsWord(s, i, j, k) /\ f(k) = SubSeq(s, i, j)
  <2> DEFINE i == Nth(W, k)
             j == WordEnd(s, i)
  <2>1. i \in W /\ Rank(W, i) = k
    <3> HIDE DEF W
    <3> QED BY <1>1, <1>4, NthIs
  <2>2. /\ j \in i..Len(s) /\ (\A x \in i..j : s[x] # Space)
        /\ j = Len(s) \/ s[j + 1] = Space
    BY <2>1, WordEndFinds
  <2>3. IsWord(s, i, j, k)
    BY <2>1, <2>2 DEF IsWord
  <2>4. f(k) = SubSeq(s, i, j)
    OBVIOUS
  <2> HIDE DEF i, j, f
  <2>5. i \in Nat /\ j \in Nat
    BY <1>1, <2>1, <2>2
  <2> QED BY <2>3, <2>4, <2>5
<1> HIDE DEF f, n
<1>5. Len(Words(s)) = n
  BY <1>1, <1>2, n \in Nat DEF n
<1>6. \A k \in 1..n : Words(s)[k] = f(k)
  BY <1>2
<1> QED BY <1>3, <1>4, <1>5, <1>6 DEF n

\* What lies there is that word.
LEMMA WordThere ==
    ASSUME NEW s \in Text, NEW i \in Nat, NEW j \in Nat, NEW k, IsWord(s, i, j, k)
    PROVE  k \in 1..Len(Words(s)) /\ Words(s)[k] = SubSeq(s, i, j)
<1> DEFINE W == WordStarts(s)
<1>1. /\ Len(s) \in Nat /\ IsFiniteSet(W) /\ W \subseteq Nat
  BY WordStartsType
<1>2. i \in W /\ Rank(W, i) = k /\ j \in i..Len(s)
  BY DEF IsWord
<1>3. k \in 1..Len(Words(s))
  BY <1>1, <1>2, RankType, WordIs
<1>4. PICK a \in Nat, b \in Nat : IsWord(s, a, b, k) /\ Words(s)[k] = SubSeq(s, a, b)
  BY <1>3, WordIs
<1>5. a \in W /\ Rank(W, a) = k /\ b \in a..Len(s)
  BY <1>4 DEF IsWord
<1>6. a = i
  BY <1>1, <1>2, <1>5, RankUnique
<1>7. ~(b < j)
  <2> SUFFICES ASSUME b < j PROVE FALSE
    OBVIOUS
  <2>1. b # Len(s) /\ b + 1 \in i..j
    BY <1>1, <1>2, <1>5, <1>6
  <2>2. s[b + 1] = Space
    BY <1>4, <2>1 DEF IsWord
  <2> QED BY <2>1, <2>2 DEF IsWord
<1>8. ~(j < b)
  <2> SUFFICES ASSUME j < b PROVE FALSE
    OBVIOUS
  <2>1. j # Len(s) /\ j + 1 \in a..b
    BY <1>1, <1>2, <1>5, <1>6
  <2>2. s[j + 1] = Space
    BY <2>1 DEF IsWord
  <2> QED BY <1>4, <2>1, <2>2 DEF IsWord
<1>9. b = j
  BY <1>7, <1>8
<1> QED BY <1>3, <1>4, <1>6, <1>9

\* A text without blanks.
Solid(c) == c \in Text /\ Len(c) > 0 /\ \A x \in 1..Len(c) : c[x] # Space

\* Words are not empty, and have no blanks.
LEMMA WordsAreSolid ==
    ASSUME NEW s \in Text, NEW k \in 1..Len(Words(s))
    PROVE  Solid(Words(s)[k])
<1>1. PICK i \in Nat, j \in Nat : IsWord(s, i, j, k) /\ Words(s)[k] = SubSeq(s, i, j)
  BY WordIs
<1>2. s \in Seq(Char) /\ Len(s) \in Nat /\ i \in 1..Len(s)
  BY <1>1, TextLength, WordStartsType DEF IsWord
<1>3. j \in i..Len(s) /\ \A x \in i..j : s[x] # Space
  BY <1>1 DEF IsWord
<1>4. i \in 1..(Len(s) + 1) /\ j \in (i - 1)..Len(s) /\ j - i + 1 > 0
  BY <1>2, <1>3
<1>5. /\ SubSeq(s, i, j) \in Seq(Char) /\ Len(SubSeq(s, i, j)) = j - i + 1
      /\ \A x \in 1..(j - i + 1) : SubSeq(s, i, j)[x] = s[i + x - 1]
  BY <1>2, <1>4, PartOf
<1>6. \A x \in 1..(j - i + 1) : i + x - 1 \in i..j
  BY <1>2, <1>3
<1>7. \A x \in 1..(j - i + 1) : SubSeq(s, i, j)[x] # Space
  BY <1>3, <1>5, <1>6
<1> QED BY <1>1, <1>4, <1>5, <1>7 DEF Solid, Text

\* A text without blanks is one word.
LEMMA OneWord ==
    ASSUME NEW c, Solid(c)
    PROVE  Words(c) = <<c>>
<1> DEFINE W == WordStarts(c)
<1>1. /\ c \in Text /\ c \in Seq(Char) /\ Len(c) \in Nat /\ Len(c) > 0
      /\ \A x \in 1..Len(c) : c[x] # Space
  BY TextLength DEF Solid
<1>2. W = {1}
  <2>1. \A i \in 1..Len(c) : i = 1 \/ i - 1 \in 1..Len(c)
    BY <1>1
  <2>2. 1 \in 1..Len(c)
    BY <1>1
  <2> QED BY <1>1, <2>1, <2>2 DEF WordStarts
<1>3. Cardinality(W) = 1
  BY <1>2, FS_Singleton
<1>4. {j \in W : j <= 1} = {1}
  BY <1>2
<1>5. Rank(W, 1) = 1
  BY <1>4, FS_Singleton DEF Rank
<1>6. IsWord(c, 1, Len(c), 1)
  BY <1>1, <1>2, <1>5 DEF IsWord
<1>7. Words(c)[1] = SubSeq(c, 1, Len(c))
  BY <1>1, <1>6, WordThere
<1>8. SubSeq(c, 1, Len(c)) = c
  BY <1>1
<1>9. Len(Words(c)) = 1 /\ Words(c) \in Seq(Text) /\ Words(c)[1] = c
  BY <1>1, <1>3, <1>7, <1>8, WordIs
<1> QED BY <1>9

\* Text y is x, a blank and c.
Follows(y, x, c) ==
    /\ y \in Text /\ Len(y) = Len(x) + 1 + Len(c)
    /\ \A i \in 1..Len(x) : y[i] = x[i]
    /\ y[Len(x) + 1] = Space
    /\ \A i \in 1..Len(c) : y[Len(x) + 1 + i] = c[i]

\* The characters of a text that goes on with a blank and a word.
LEMMA FollowedBy ==
    ASSUME NEW x \in Text, NEW c \in Text
    PROVE  Follows(x \o <<Space>> \o c, x, c)
<1>1. /\ x \in Seq(Char) /\ c \in Seq(Char) /\ Len(x) \in Nat /\ Len(c) \in Nat
      /\ <<Space>> \in Seq(Char) /\ Len(<<Space>>) = 1 /\ <<Space>>[1] = Space
  BY TextLength DEF Char
<1> DEFINE z == x \o <<Space>>
           y == z \o c
<1>2. /\ z \in Seq(Char) /\ Len(z) = Len(x) + 1 /\ z[Len(x) + 1] = Space
      /\ \A i \in 1..Len(x) : z[i] = x[i]
  BY <1>1
<1> HIDE DEF z
<1>4. /\ y \in Seq(Char) /\ Len(y) = Len(z) + Len(c)
      /\ \A i \in 1..Len(z) : y[i] = z[i]
      /\ \A i \in 1..Len(c) : y[Len(z) + i] = c[i]
  <2>1. z \in Seq(Char) /\ c \in Seq(Char)
    BY <1>1, <1>2
  <2> QED BY <2>1
<1> HIDE DEF y
<1>5. Len(x) + 1 \in 1..Len(z) /\ \A i \in 1..Len(x) : i \in 1..Len(z)
  BY <1>1, <1>2
<1>6. y[Len(x) + 1] = Space /\ \A i \in 1..Len(x) : y[i] = x[i]
  BY <1>2, <1>4, <1>5
<1>7. \A i \in 1..Len(c) : y[Len(x) + 1 + i] = c[i]
  BY <1>2, <1>4
<1>8. Len(y) = Len(x) + 1 + Len(c)
  BY <1>2, <1>4
<1>9. Follows(y, x, c)
  BY <1>4, <1>6, <1>7, <1>8 DEF Text, Follows
<1> QED BY <1>9 DEF y, z

\* What lies between a and b in s lies between c and d in u.
Matches(s, a, b, u, c, d) ==
    /\ s \in Text /\ u \in Text
    /\ a \in 1..(Len(s) + 1) /\ b \in (a - 1)..Len(s)
    /\ c \in 1..(Len(u) + 1) /\ d \in (c - 1)..Len(u)
    /\ b - a = d - c
    /\ \A i \in 1..(b - a + 1) : s[a + i - 1] = u[c + i - 1]

SamePart(s, a, b, u, c, d) == SubSeq(s, a, b) = SubSeq(u, c, d)

\* Then these are the same texts.
LEMMA MatchingParts ==
    ASSUME NEW s, NEW u, NEW a, NEW b, NEW c, NEW d, Matches(s, a, b, u, c, d)
    PROVE  SamePart(s, a, b, u, c, d)
<1> DEFINE x == SubSeq(s, a, b)
           y == SubSeq(u, c, d)
           n == b - a + 1
<1>1. /\ s \in Seq(Char) /\ u \in Seq(Char) /\ Len(s) \in Nat /\ Len(u) \in Nat
      /\ a \in 1..(Len(s) + 1) /\ b \in (a - 1)..Len(s)
      /\ c \in 1..(Len(u) + 1) /\ d \in (c - 1)..Len(u) /\ b - a = d - c
      /\ \A i \in 1..n : s[a + i - 1] = u[c + i - 1]
  BY TextLength DEF Matches
<1>2. n \in Nat /\ d - c + 1 = n
  BY <1>1
<1>3. x \in Seq(Char) /\ Len(x) = n /\ \A i \in 1..n : x[i] = s[a + i - 1]
  BY <1>1, PartOf
<1>4. y \in Seq(Char) /\ Len(y) = n /\ \A i \in 1..n : y[i] = u[c + i - 1]
  <2>1. /\ y \in Seq(Char) /\ Len(y) = d - c + 1
        /\ \A i \in 1..(d - c + 1) : y[i] = u[c + i - 1]
    BY <1>1, PartOf
  <2> QED BY <1>2, <2>1
<1>5. \A i \in 1..n : x[i] = y[i]
  BY <1>1, <1>3, <1>4
<1> HIDE DEF x, y, n
<1>6. x = y
  BY <1>3, <1>4, <1>5, SameSequence
<1> QED BY <1>6 DEF x, y, SamePart

\* A blank and a text without blanks add a word.
LEMMA NextWord ==
    ASSUME NEW x \in Text, NEW c, Solid(c), NEW y, Follows(y, x, c)
    PROVE  Words(y) = Append(Words(x), c)
<1> DEFINE l == Len(x)
           m == Len(c)
           W == WordStarts(x)
           V == WordStarts(y)
           n == Cardinality(W)
<1>1. c \in Text /\ m \in Nat /\ m > 0 /\ (\A i \in 1..m : c[i] # Space) /\ l \in Nat
  BY TextLength DEF Solid
<1>2. /\ y \in Text /\ Len(y) = l + 1 + m
      /\ \A i \in 1..l : y[i] = x[i]
      /\ y[l + 1] = Space
      /\ \A i \in 1..m : y[l + 1 + i] = c[i]
  BY DEF Follows
<1>3. W \subseteq 1..l /\ IsFiniteSet(W) /\ n \in Nat
  BY WordStartsType
<1>4. IsFiniteSet(V) /\ V \subseteq Nat /\ V \subseteq 1..Len(y)
  BY <1>2, WordStartsType
<1>5. \A i \in (l + 2)..(l + 1 + m) : y[i] # Space
  <2> SUFFICES ASSUME NEW i \in (l + 2)..(l + 1 + m) PROVE y[i] # Space
    OBVIOUS
  <2> DEFINE z == i - (l + 1)
  <2>1. z \in 1..m /\ l + 1 + z = i
    BY <1>1
  <2> HIDE DEF z, l, m
  <2>2. y[l + 1 + z] = c[z] /\ c[z] # Space
    BY <1>1, <1>2, <2>1
  <2> QED BY <2>1, <2>2
<1>6. V = W \cup {l + 2}
  <2>1. ASSUME NEW i \in 1..l PROVE i \in V <=> i \in W
    <3>1. i \in 1..Len(y) /\ (i = 1 \/ i - 1 \in 1..l)
      BY <1>1, <1>2
    <3>2. y[i] = x[i] /\ (i = 1 \/ y[i - 1] = x[i - 1])
      BY <1>2, <3>1
    <3> QED BY <3>1, <3>2 DEF WordStarts
  <2>2. l + 1 \notin V
    BY <1>2 DEF WordStarts
  <2>3. l + 2 \in V
    <3>1. l + 2 \in 1..Len(y) /\ l + 2 \in (l + 2)..(l + 1 + m) /\ (l + 2) - 1 = l + 1
      BY <1>1, <1>2
    <3> QED BY <1>2, <1>5, <3>1 DEF WordStarts
  <2>4. ASSUME NEW i \in (l + 3)..(l + 1 + m) PROVE i \notin V
    <3>1. i - 1 \in (l + 2)..(l + 1 + m) /\ i # 1
      BY <1>1
    <3> QED BY <1>5, <3>1 DEF WordStarts
  <2>5. ASSUME NEW i \in V
        PROVE i \in 1..l \/ i = l + 1 \/ i = l + 2 \/ i \in (l + 3)..(l + 1 + m)
    <3>1. i \in 1..(l + 1 + m)
      BY <1>2, <1>4
    <3> QED BY <1>1, <3>1
  <2>6. ASSUME NEW i \in V PROVE i \in W \cup {l + 2}
    BY <2>1, <2>2, <2>4, <2>5
  <2>7. ASSUME NEW i \in W PROVE i \in V
    BY <1>3, <2>1
  <2> QED BY <2>3, <2>6, <2>7
<1> HIDE DEF W, V, n, l, m
<1>7. l + 2 \notin W /\ \A i \in W : i <= l + 2 /\ ~(l + 2 <= i)
  <2>1. \A i \in W : i \in Nat /\ i <= l
    BY <1>1, <1>3
  <2> QED BY <1>1, <2>1
<1>8. Cardinality(V) = n + 1
  BY <1>3, <1>6, <1>7, FS_AddElement DEF n
<1>9. Rank(V, l + 2) = n + 1
  <2>1. l + 2 <= l + 2
    BY <1>1
  <2>2. {i \in V : i <= l + 2} = V
    BY <1>6, <1>7, <2>1, Zenon
  <2> QED BY <1>8, <2>2 DEF Rank
<1>10. ASSUME NEW i \in W PROVE Rank(V, i) = Rank(W, i)
  <2>1. {j \in V : j <= i} = {j \in W : j <= i}
    BY <1>6, <1>7, Zenon
  <2> QED BY <2>1 DEF Rank
<1> DEFINE a == Words(x)
           b == Words(y)
<1>11. Len(a) = n /\ a \in Seq(Text) /\ Len(b) = n + 1 /\ b \in Seq(Text)
  BY <1>2, <1>8, WordIs DEF W, V, n
<1>12. ASSUME NEW k \in 1..n PROVE b[k] = a[k]
  <2>1. PICK i \in Nat, j \in Nat : IsWord(x, i, j, k) /\ a[k] = SubSeq(x, i, j)
    BY <1>11, <1>12, WordIs
  <2>2. /\ i \in W /\ Rank(W, i) = k /\ j \in i..l /\ (\A z \in i..j : x[z] # Space)
        /\ j = l \/ x[j + 1] = Space
    BY <2>1 DEF IsWord, W, l
  <2>3. i \in V /\ Rank(V, i) = k
    BY <1>6, <1>10, <2>2
  <2>4. i \in 1..l /\ j \in 1..l
    BY <1>1, <1>3, <2>2
  <2>5. /\ j \in i..Len(y) /\ (\A z \in i..j : z \in 1..l)
        /\ j = l \/ j + 1 \in 1..l
    BY <1>1, <1>2, <2>2, <2>4
  <2>6. \A z \in i..j : y[z] # Space
    BY <1>2, <2>2, <2>5
  <2>7. y[j + 1] = Space
    BY <1>2, <2>2, <2>5
  <2>8. IsWord(y, i, j, k)
    BY <2>3, <2>5, <2>6, <2>7 DEF IsWord, V
  <2>9. b[k] = SubSeq(y, i, j)
    BY <1>2, <2>8, WordThere
  <2>10. SubSeq(y, i, j) = SubSeq(x, i, j)
    <3>1. /\ i \in 1..(Len(y) + 1) /\ j \in (i - 1)..Len(y)
          /\ i \in 1..(Len(x) + 1) /\ j \in (i - 1)..Len(x)
          /\ \A z \in 1..(j - i + 1) : i + z - 1 \in 1..l
      BY <1>1, <1>2, <2>2, <2>4 DEF l
    <3>2. \A z \in 1..(j - i + 1) : y[i + z - 1] = x[i + z - 1]
      BY <1>2, <3>1
    <3>3. Matches(y, i, j, x, i, j)
      BY <1>2, <3>1, <3>2 DEF Matches
    <3>4. SamePart(y, i, j, x, i, j)
      BY <3>3, MatchingParts, Zenon
    <3> QED BY <3>4, Zenon DEF SamePart
  <2> QED BY <2>1, <2>9, <2>10
<1>13. b[n + 1] = c
  <2>1. /\ l + 2 \in Nat /\ l + 1 + m \in Nat /\ l + 1 + m \in (l + 2)..(l + 1 + m)
        /\ l + 2 \in V
    BY <1>1, <1>6
  <2>2. IsWord(y, l + 2, l + 1 + m, n + 1)
    BY <1>2, <1>5, <1>9, <2>1 DEF IsWord, V
  <2>3. b[n + 1] = SubSeq(y, l + 2, l + 1 + m)
    BY <1>2, <2>1, <2>2, WordThere
  <2>4. SubSeq(y, l + 2, l + 1 + m) = SubSeq(c, 1, m)
    <3>1. /\ l + 2 \in 1..(Len(y) + 1) /\ l + 1 + m \in ((l + 2) - 1)..Len(y)
          /\ 1 \in 1..(Len(c) + 1) /\ m \in (1 - 1)..Len(c)
          /\ (l + 1 + m) - (l + 2) = m - 1 /\ (l + 1 + m) - (l + 2) + 1 = m
      BY <1>1, <1>2 DEF m
    <3>2. ASSUME NEW z \in 1..m PROVE y[l + 2 + z - 1] = c[1 + z - 1]
      <4>1. l + 2 + z - 1 = l + 1 + z /\ 1 + z - 1 = z
        BY <1>1
      <4> QED BY <1>2, <4>1
    <3>3. Matches(y, l + 2, l + 1 + m, c, 1, m)
      BY <1>1, <1>2, <3>1, <3>2 DEF Matches
    <3>4. SamePart(y, l + 2, l + 1 + m, c, 1, m)
      BY <3>3, MatchingParts, Zenon
    <3> QED BY <3>4, Zenon DEF SamePart
  <2>5. SubSeq(c, 1, m) = c
    BY <1>1, TextLength DEF m
  <2> QED BY <2>3, <2>4, <2>5
<1>14. b = Append(a, c)
  <2>1. /\ Append(a, c) \in Seq(Text) /\ Len(Append(a, c)) = n + 1
        /\ Append(a, c)[n + 1] = c /\ \A k \in 1..n : Append(a, c)[k] = a[k]
    BY <1>1, <1>3, <1>11
  <2> DEFINE d == Append(a, c)
  <2>2. \A k \in 1..(n + 1) : k = n + 1 \/ k \in 1..n
    BY <1>3
  <2>3. \A k \in 1..(n + 1) : b[k] = d[k]
    BY <1>12, <1>13, <2>1, <2>2
  <2> HIDE DEF d, a, b
  <2>4. d \in Seq(Text) /\ Len(d) = n + 1
    BY <2>1 DEF d
  <2>5. b = d
    BY <1>11, <2>3, <2>4, SameSequence
  <2> QED BY <2>5 DEF d
<1> QED BY <1>14

-----------------------------------------------------------------------------
(* Words that are put together again *)

\* The empty text has no words.
LEMMA NoWords == Len(Words(<<>>)) = 0
<1>1. <<>> \in Text /\ Len(<<>>) = 0 /\ 1..0 = {}
  BY DEF Text
<1>2. WordStarts(<<>>) = {}
  BY <1>1 DEF WordStarts
<1>3. Cardinality(WordStarts(<<>>)) = 0
  BY <1>2, FS_EmptySet
<1> QED BY <1>1, <1>3, WordIs

\* The words of s are the first i of w.
HasWords(s, w, i) == Len(Words(s)) = i /\ \A k \in 1..i : Words(s)[k] = w[k]

\* A sentence put together of single words, none of them a lone terminator, has
\* these words.
LEMMA WordsOfJoin ==
    ASSUME NEW w \in Seq(Text), \A k \in 1..Len(w) : Solid(w[k]) /\ w[k] # <<Stop>>
    PROVE  Words(Join(w)) = w
<1> DEFINE n == Len(w)
           J == Joined(w)
           T == {i \in 0..n : HasWords(J[i], w, i)}
<1>1. n \in Nat
  OBVIOUS
<1>2. /\ J[0] = <<>>
      /\ \A i \in 1..n : J[i] = J[i - 1] \o (IF i = 1 \/ w[i] = <<Stop>>
                                             THEN <<>> ELSE <<Space>>) \o w[i]
      /\ \A i \in 0..n : J[i] \in Text
      /\ Join(w) = J[n]
  BY JoinedIs
<1> HIDE DEF J, n
<1>3. 0 \in T
  <2>1. HasWords(J[0], w, 0)
    BY <1>2, NoWords DEF HasWords
  <2> QED BY <1>1, <2>1
<1>4. ASSUME NEW i \in 0..n, i # n, i \in T PROVE i + 1 \in T
  <2> DEFINE c == w[i + 1]
  <2>1. i + 1 \in 1..n /\ (i + 1) - 1 = i /\ i + 1 \in 0..n /\ i \in Nat
    BY <1>1, <1>4
  <2>2. Solid(c) /\ c # <<Stop>> /\ c \in Text
    BY <2>1 DEF n, Solid
  <2>3. HasWords(J[i], w, i) /\ J[i] \in Text
    BY <1>2, <1>4
  <2>4. J[i + 1] = J[i] \o (IF i + 1 = 1 THEN <<>> ELSE <<Space>>) \o c
    BY <1>2, <2>1, <2>2
  <2> HIDE DEF c
  <2>5. CASE i = 0
    <3>0. i + 1 = 1 /\ J[i] = <<>>
      BY <1>2, <2>5
    <3>1. J[i + 1] = <<>> \o <<>> \o c
      BY <2>4, <3>0, Zenon
    <3>2. c \in Seq(Char)
      BY <2>2, TextLength
    <3>3. <<>> \o <<>> \o c = c
      BY <3>2
    <3>4. Words(J[i + 1]) = <<c>>
      BY <2>2, <3>1, <3>3, OneWord
    <3>5. i + 1 = 1 /\ c = w[1] /\ (\A k \in 1..1 : k = 1) /\ Len(<<c>>) = 1 /\ <<c>>[1] = c
      BY <2>5 DEF c
    <3>6. HasWords(J[i + 1], w, i + 1)
      BY <3>4, <3>5, Zenon DEF HasWords
    <3> QED BY <2>1, <3>6
  <2>6. CASE i # 0
    <3> DEFINE a == Words(J[i])
    <3>0. ~(i + 1 = 1)
      BY <2>1, <2>6
    <3>1. J[i + 1] = J[i] \o <<Space>> \o c
      BY <2>4, <3>0, Zenon
    <3>2. Follows(J[i + 1], J[i], c)
      BY <2>2, <2>3, <3>1, FollowedBy, Zenon
    <3>3. Words(J[i + 1]) = Append(a, c)
      BY <2>2, <2>3, <3>2, NextWord
    <3>4. a \in Seq(Text) /\ Len(a) = i /\ \A k \in 1..i : a[k] = w[k]
      BY <2>3, WordIs DEF HasWords
    <3> HIDE DEF a
    <3>5. /\ Len(Append(a, c)) = i + 1 /\ Append(a, c)[i + 1] = c
          /\ \A k \in 1..i : Append(a, c)[k] = a[k]
      BY <2>1, <2>2, <3>4
    <3>6. \A k \in 1..(i + 1) : k = i + 1 \/ k \in 1..i
      BY <2>1
    <3> DEFINE b == Append(a, c)
    <3>7. Len(b) = i + 1 /\ \A k \in 1..(i + 1) : b[k] = w[k]
      <4> HIDE DEF b
      <4>1. Len(b) = i + 1 /\ b[i + 1] = c /\ \A k \in 1..i : b[k] = a[k]
        BY <3>5 DEF b
      <4> QED BY <3>4, <3>6, <4>1 DEF c
    <3> HIDE DEF b
    <3>8. Words(J[i + 1]) = b
      BY <3>3 DEF b
    <3>9. HasWords(J[i + 1], w, i + 1)
      BY <3>7, <3>8 DEF HasWords
    <3> QED BY <2>1, <3>9
  <2> QED BY <2>5, <2>6
<1>5. n \in T
  <2> HIDE DEF T
  <2>1. 0..n \subseteq T
    BY <1>1, <1>3, <1>4, Induction
  <2> QED BY <1>1, <2>1
<1>6. Join(w) \in Text /\ HasWords(Join(w), w, n)
  BY <1>1, <1>2, <1>5
<1>7. Words(Join(w)) \in Seq(Text)
  BY <1>6, WordIs
<1> QED BY <1>6, <1>7, SameSequence DEF HasWords, n

\* All the words of a sentence are read when they fit into the array.
LEMMA FirstWordsAll ==
    ASSUME NEW s \in Text, Len(Words(s)) <= MaxWords
    PROVE  FirstWords(s) = Words(s)
<1> DEFINE w == Words(s)
           n == Len(w)
<1>1. w \in Seq(Text) /\ n \in Nat /\ MaxWords \in Nat
  BY WordIs, CharactersAssumption
<1>2. Min({n, MaxWords}) = n
  <2>1. {n, MaxWords} \subseteq Nat
    BY <1>1
  <2>2. /\ Min({n, MaxWords}) \in {n, MaxWords}
        /\ Min({n, MaxWords}) <= n
    BY <2>1, MinProperty
  <2> QED BY <1>1, <2>2
<1>3. SubSeq(w, 1, n) = w
  BY <1>1
<1> QED BY <1>2, <1>3 DEF FirstWords

\* Word k of v is what one of the first i updates made it, or that of w.
Updated(v, w, ops, i, k) ==
    \/ \E j \in 1..i : ops[j].word_index = k - 1 /\ v[k] = ops[j].content
    \/ (\A j \in 1..i : ops[j].word_index # k - 1) /\ v[k] = w[k]

\* Updates of words that are there replace these words, and no others.
LEMMA AllUpdated ==
    ASSUME NEW w \in Seq(Text), NEW ops \in Seq(WriteOp),
           \A j \in 1..Len(ops) : ops[j].word_index \in 0..(Len(w) - 1)
    PROVE  /\ ApplyAll(w, ops) \in Seq(Text) /\ Len(ApplyAll(w, ops)) = Len(w)
           /\ \A k \in 1..Len(w) : Updated(ApplyAll(w, ops), w, ops, Len(ops), k)
<1> DEFINE n == Len(w)
           m == Len(ops)
           f == Applied(w, ops)
           T == {i \in 0..m : Len(f[i]) = n /\ \A k \in 1..n : Updated(f[i], w, ops, i, k)}
<1>1. n \in Nat /\ m \in Nat
  OBVIOUS
<1>2. /\ f[0] = w /\ (\A i \in 1..m : f[i] = Apply(f[i - 1], ops[i]))
      /\ (\A i \in 0..m : f[i] \in Seq(Text)) /\ ApplyAll(w, ops) = f[m]
  BY AppliedIs
<1>3. 0 \in T
  <2>1. 1..0 = {}
    OBVIOUS
  <2>2. \A k \in 1..n : Updated(w, w, ops, 0, k)
    BY <2>1 DEF Updated
  <2> QED BY <1>1, <1>2, <2>2
<1>4. ASSUME NEW i \in 0..m, i # m, i \in T PROVE i + 1 \in T
  <2> DEFINE v == f[i]
             u == f[i + 1]
             op == ops[i + 1]
             x == op.word_index
  <2>1. i + 1 \in 1..m /\ (i + 1) - 1 = i /\ i + 1 \in 0..m
    BY <1>1, <1>4
  <2>2. op \in WriteOp /\ x \in 0..(n - 1) /\ op.content \in Text
    <3>1. op \in WriteOp
      BY <2>1
    <3> QED BY <2>1, <3>1 DEF WriteOp
  <2>3. v \in Seq(Text) /\ Len(v) = n /\ \A k \in 1..n : Updated(v, w, ops, i, k)
    BY <1>2, <1>4
  <2>4. u = Apply(v, op)
    BY <1>2, <2>1
  <2> HIDE DEF f, n, m, op, T
  <2>5. x >= 0 /\ x < Len(v) /\ x + 1 \in 1..n /\ x \in Int
    BY <1>1, <2>2, <2>3
  <2> HIDE DEF v, u
  <2>6. u = [v EXCEPT ![x + 1] = op.content]
    BY <2>4, <2>5 DEF Apply
  <2>7. Len(u) = n /\ u[x + 1] = op.content /\ \A k \in 1..n : k # x + 1 => u[k] = v[k]
    BY <1>1, <2>2, <2>3, <2>5, <2>6
  <2> HIDE DEF x
  <2>8. \A j \in 1..(i + 1) : j \in 1..i \/ j = i + 1
    BY <1>1
  <2>9. ASSUME NEW k \in 1..n PROVE Updated(u, w, ops, i + 1, k)
    <3>1. CASE k = x + 1
      <4>1. i + 1 \in 1..(i + 1) /\ x = k - 1
        BY <1>1, <2>5, <3>1
      <4>2. ops[i + 1].word_index = k - 1 /\ u[k] = ops[i + 1].content
        BY <2>7, <3>1, <4>1 DEF x, op
      <4> QED BY <4>1, <4>2 DEF Updated
    <3>2. CASE k # x + 1
      <4>1. x # k - 1 /\ u[k] = v[k] /\ Updated(v, w, ops, i, k)
        BY <1>1, <2>3, <2>5, <2>7, <3>2
      <4>2. ops[i + 1].word_index # k - 1
        BY <4>1 DEF x, op
      <4>3. \A j \in 1..i : j \in 1..(i + 1)
        BY <1>1
      <4>4. CASE \E j \in 1..i : ops[j].word_index = k - 1 /\ v[k] = ops[j].content
        BY <4>1, <4>3, <4>4 DEF Updated
      <4>5. CASE (\A j \in 1..i : ops[j].word_index # k - 1) /\ v[k] = w[k]
        BY <2>8, <4>1, <4>2, <4>5 DEF Updated
      <4> QED BY <4>1, <4>4, <4>5 DEF Updated
    <3> QED BY <3>1, <3>2
  <2> QED BY <2>1, <2>7, <2>9 DEF T, u
<1>5. m \in T
  <2> HIDE DEF T
  <2>1. 0..m \subseteq T
    BY <1>1, <1>3, <1>4, Induction
  <2> QED BY <1>1, <2>1
<1> HIDE DEF f
<1>6. Len(f[m]) = n /\ \A k \in 1..n : Updated(f[m], w, ops, m, k)
  BY <1>5
<1>7. m \in 0..m
  BY <1>1
<1> QED BY <1>2, <1>6, <1>7

-----------------------------------------------------------------------------
(* Where the terminator stays *)

\* A text without terminators, and one whose only terminator is its last character.
Clean(c) == c \in Text /\ \A x \in 1..Len(c) : c[x] # Stop
Closed(c) ==
    /\ c \in Text /\ Len(c) > 0 /\ c[Len(c)] = Stop
    /\ \A x \in 1..(Len(c) - 1) : c[x] # Stop

\* Only the last of n words has a terminator, as its last character.
ClosedWords(w, n) ==
    /\ w \in Seq(Text) /\ Len(w) = n /\ Closed(w[n])
    /\ \A k \in 1..(n - 1) : Clean(w[k])

\* A part without terminators, and one that ends with the only one.
LEMMA CleanPart ==
    ASSUME NEW s \in Text, NEW i \in 1..Len(s), NEW j \in i..Len(s),
           \A x \in i..(j - 1) : s[x] # Stop
    PROVE  /\ s[j] # Stop => Clean(SubSeq(s, i, j))
           /\ s[j] = Stop => Closed(SubSeq(s, i, j))
<1> DEFINE n == j - i + 1
           c == SubSeq(s, i, j)
<1>1. s \in Seq(Char) /\ Len(s) \in Nat /\ i \in 1..(Len(s) + 1) /\ j \in (i - 1)..Len(s)
  BY TextLength
<1>2. n \in Nat /\ n > 0 /\ i + n - 1 = j /\ n \in 1..n
  BY <1>1
<1>3. c \in Seq(Char) /\ Len(c) = n /\ \A x \in 1..n : c[x] = s[i + x - 1]
  BY <1>1, PartOf
<1>4. \A x \in 1..(n - 1) : i + x - 1 \in i..(j - 1) /\ x \in 1..n
  BY <1>1
<1> HIDE DEF n, c
<1>5. c[n] = s[j] /\ \A x \in 1..(n - 1) : c[x] # Stop
  BY <1>2, <1>3, <1>4
<1>6. \A x \in 1..n : x = n \/ x \in 1..(n - 1)
  BY <1>2
<1>7. s[j] # Stop => Clean(c)
  BY <1>3, <1>5, <1>6 DEF Clean, Text
<1>8. s[j] = Stop => Closed(c)
  BY <1>2, <1>3, <1>5 DEF Closed, Text
<1> QED BY <1>7, <1>8 DEF c

\* The words of a sentence with its terminator.
LEMMA LastWord ==
    ASSUME NEW s, Closed(s)
    PROVE  Len(Words(s)) > 0 /\ ClosedWords(Words(s), Len(Words(s)))
<1> DEFINE L == Len(s)
           W == WordStarts(s)
           n == Cardinality(W)
           D == {i \in 1..L : \A x \in i..L : s[x] # Space}
<1>1. /\ s \in Text /\ L \in Nat /\ L > 0 /\ s[L] = Stop /\ s[L] # Space
      /\ \A x \in 1..(L - 1) : s[x] # Stop
  BY TextLength, CharactersAssumption DEF Closed
<1>2. IsFiniteSet(W) /\ W \subseteq Nat /\ n \in Nat
  BY <1>1, WordStartsType
<1>3. L \in D
  <2>1. L \in 1..L /\ \A x \in L..L : x = L
    BY <1>1
  <2> QED BY <1>1, <2>1
<1>4. PICK a \in D : \A y \in D : a <= y
  <2>1. D \subseteq Nat /\ D # {}
    BY <1>3
  <2> HIDE DEF D
  <2> QED BY <2>1, LeastElement
<1>5. a \in 1..L /\ \A x \in a..L : s[x] # Space
  OBVIOUS
<1>6. a = 1 \/ s[a - 1] = Space
  <2> SUFFICES ASSUME a # 1, s[a - 1] # Space PROVE FALSE
    OBVIOUS
  <2>1. a - 1 \in 1..L /\ ~(a <= a - 1) /\ \A x \in (a - 1)..L : x = a - 1 \/ x \in a..L
    BY <1>1, <1>5
  <2>2. a - 1 \in D
    BY <1>5, <2>1
  <2> QED BY <1>4, <2>1, <2>2
<1>7. a \in W
  <2>1. a \in a..L
    BY <1>1, <1>5
  <2> QED BY <1>5, <1>6, <2>1 DEF WordStarts
<1>8. ASSUME NEW j \in W PROVE j <= a
  <2>1. j \in 1..L /\ (j = 1 \/ s[j - 1] = Space)
    BY DEF WordStarts
  <2>2. ~(j <= a) => j # 1 /\ j - 1 \in a..L
    BY <1>1, <1>5, <2>1
  <2> QED BY <1>5, <2>1, <2>2
<1>9. Rank(W, a) = n
  <2>1. {j \in W : j <= a} = W
    BY <1>8, Zenon
  <2> QED BY <2>1 DEF Rank
<1>10. n \in 1..n
  BY <1>2, <1>7, <1>9, RankType
<1> DEFINE w == Words(s)
<1>11. Len(w) = n /\ w \in Seq(Text)
  BY <1>1, WordIs
<1> HIDE DEF D, n, W, L, w
<1>12. Closed(w[n])
  <2>1. L \in a..L /\ a \in Nat /\ \A x \in a..(L - 1) : x \in 1..(L - 1)
    BY <1>1, <1>5
  <2>2. IsWord(s, a, L, n)
    BY <1>5, <1>7, <1>9, <2>1 DEF IsWord, W, L
  <2>3. w[n] = SubSeq(s, a, L)
    BY <1>1, <2>1, <2>2, WordThere DEF w
  <2>4. Closed(SubSeq(s, a, L))
    BY <1>1, <1>5, <2>1, CleanPart DEF L
  <2> QED BY <2>3, <2>4
<1>13. ASSUME NEW k \in 1..(n - 1) PROVE Clean(w[k])
  <2>1. k \in 1..n /\ k # n
    BY <1>2
  <2>2. PICK i \in Nat, j \in Nat : IsWord(s, i, j, k) /\ w[k] = SubSeq(s, i, j)
    BY <1>1, <1>11, <2>1, WordIs DEF w
  <2>3. i \in W /\ Rank(W, i) = k /\ j \in i..L /\ \A x \in i..j : s[x] # Space
    BY <2>2 DEF IsWord, W, L
  <2>4. i # a /\ i <= a /\ i \in 1..L
    BY <1>1, <1>8, <1>9, <2>1, <2>3, WordStartsType DEF W, L
  <2>5. j # L
    <3> SUFFICES ASSUME j = L PROVE FALSE
      OBVIOUS
    <3>1. i \in D
      BY <2>3, <2>4 DEF D
    <3>2. a <= i
      BY <1>4, <3>1
    <3> QED BY <1>5, <2>4, <3>2
  <2>6. j \in 1..(L - 1) /\ \A x \in i..(j - 1) : x \in 1..(L - 1)
    BY <1>1, <2>3, <2>4, <2>5
  <2>7. Clean(SubSeq(s, i, j))
    BY <1>1, <2>3, <2>4, <2>6, CleanPart DEF L
  <2> QED BY <2>2, <2>7
<1>14. ClosedWords(w, n)
  BY <1>11, <1>12, <1>13 DEF ClosedWords
<1>15. n > 0
  BY <1>2, <1>10
<1> QED BY <1>11, <1>14, <1>15 DEF w

\* Updates that type no terminator and stay before the last word leave the
\* terminator where it is.
LEMMA ClosedApply ==
    ASSUME NEW n \in Nat, n > 0, NEW w, ClosedWords(w, n), NEW op \in WriteOp,
           Clean(op.content), op.word_index + 1 < n
    PROVE  ClosedWords(Apply(w, op), n)
<1> DEFINE x == op.word_index
           v == Apply(w, op)
<1>1. /\ x \in Int /\ op.content \in Text /\ w \in Seq(Text) /\ Len(w) = n /\ Closed(w[n])
      /\ \A k \in 1..(n - 1) : Clean(w[k])
  BY DEF WriteOp, ClosedWords
<1>2. CASE x >= 0
  <2>1. x < Len(w) /\ x + 1 \in 1..n /\ x + 1 # n /\ n \in 1..n
    BY <1>1, <1>2
  <2>2. v = [w EXCEPT ![x + 1] = op.content]
    BY <1>2, <2>1 DEF Apply
  <2> HIDE DEF v
  <2>3. /\ v \in Seq(Text) /\ Len(v) = n /\ v[x + 1] = op.content
        /\ \A k \in 1..n : k # x + 1 => v[k] = w[k]
    BY <1>1, <2>1, <2>2
  <2>4. Closed(v[n])
    BY <1>1, <2>1, <2>3
  <2>5. \A k \in 1..(n - 1) : k \in 1..n
    OBVIOUS
  <2>6. \A k \in 1..(n - 1) : Clean(v[k])
    BY <1>1, <2>3, <2>5
  <2>7. ClosedWords(v, n)
    BY <2>3, <2>4, <2>6 DEF ClosedWords
  <2> QED BY <2>7 DEF v
<1>3. CASE ~(x >= 0)
  <2>1. x # Len(w)
    BY <1>1, <1>3
  <2>2. v = w
    BY <1>3, <2>1 DEF Apply
  <2> QED BY <2>2
<1> QED BY <1>2, <1>3

\* So do all the updates of a list.
LEMMA ClosedApplyAll ==
    ASSUME NEW n \in Nat, n > 0, NEW w, ClosedWords(w, n), NEW ops \in Seq(WriteOp),
           \A j \in 1..Len(ops) : Clean(ops[j].content) /\ ops[j].word_index + 1 < n
    PROVE  ClosedWords(ApplyAll(w, ops), n)
<1> DEFINE m == Len(ops)
           f == Applied(w, ops)
           T == {i \in 0..m : ClosedWords(f[i], n)}
<1>1. m \in Nat /\ w \in Seq(Text)
  BY DEF ClosedWords
<1>2. /\ f[0] = w /\ (\A i \in 1..m : f[i] = Apply(f[i - 1], ops[i]))
      /\ ApplyAll(w, ops) = f[m]
  BY <1>1, AppliedIs
<1>3. 0 \in T
  BY <1>1, <1>2
<1>4. ASSUME NEW i \in 0..m, i # m, i \in T PROVE i + 1 \in T
  <2>1. i + 1 \in 1..m /\ (i + 1) - 1 = i /\ i + 1 \in 0..m
    BY <1>1, <1>4
  <2>2. ops[i + 1] \in WriteOp /\ f[i + 1] = Apply(f[i], ops[i + 1])
    BY <1>2, <2>1
  <2> HIDE DEF f
  <2>3. ClosedWords(f[i], n)
    BY <1>4
  <2>4. ClosedWords(f[i + 1], n)
    BY <2>1, <2>2, <2>3, ClosedApply
  <2> QED BY <2>1, <2>4
<1>5. m \in T
  <2> HIDE DEF T
  <2>1. 0..m \subseteq T
    BY <1>1, <1>3, <1>4, Induction
  <2> QED BY <1>1, <2>1
<1> HIDE DEF f
<1> QED BY <1>2, <1>5

\* What follows a text without terminators.
LEMMA CleanBefore ==
    ASSUME NEW x, NEW y, Clean(x), y \in Text
    PROVE  (Clean(y) => Clean(x \o y)) /\ (Closed(y) => Closed(x \o y))
<1> DEFINE u == x \o y
           l == Len(x)
           n == Len(y)
<1>1. x \in Seq(Char) /\ y \in Seq(Char) /\ l \in Nat /\ n \in Nat
  BY TextLength DEF Clean
<1>2. /\ u \in Seq(Char) /\ Len(u) = l + n
      /\ \A i \in 1..l : u[i] = x[i]
      /\ \A i \in 1..n : u[l + i] = y[i]
  BY <1>1, Concatenation
<1> HIDE DEF u
<1>3. \A i \in 1..l : u[i] # Stop
  BY <1>2 DEF Clean
<1>4. ASSUME NEW i \in (l + 1)..(l + n) PROVE i - l \in 1..n /\ u[i] = y[i - l]
  <2>1. i - l \in 1..n /\ l + (i - l) = i
    BY <1>1
  <2> QED BY <1>2, <2>1
<1>5. ASSUME Clean(y) PROVE Clean(u)
  <2>1. ASSUME NEW i \in 1..(l + n) PROVE u[i] # Stop
    <3>1. i \in 1..l \/ i \in (l + 1)..(l + n)
      BY <1>1
    <3> QED BY <1>3, <1>4, <1>5, <3>1 DEF Clean
  <2> QED BY <1>2, <2>1 DEF Clean, Text
<1>6. ASSUME Closed(y) PROVE Closed(u)
  <2>1. n > 0 /\ y[n] = Stop /\ \A i \in 1..(n - 1) : y[i] # Stop
    BY <1>6 DEF Closed
  <2>2. n \in 1..n /\ l + n > 0
    BY <1>1, <2>1
  <2>3. u[l + n] = Stop
    BY <1>2, <2>1, <2>2
  <2>4. ASSUME NEW i \in 1..(l + n - 1) PROVE u[i] # Stop
    <3>1. i \in 1..l \/ (i \in (l + 1)..(l + n) /\ i - l \in 1..(n - 1))
      BY <1>1
    <3> QED BY <1>3, <1>4, <2>1, <3>1
  <2> QED BY <1>2, <2>2, <2>3, <2>4 DEF Closed, Text
<1> QED BY <1>5, <1>6 DEF u

\* The sentence that is put together of such words has its terminator at its end.
LEMMA ClosedJoin ==
    ASSUME NEW n \in Nat, n > 0, NEW w, ClosedWords(w, n)
    PROVE  Closed(Join(w))
<1> DEFINE J == Joined(w)
           sep(i) == IF i = 1 \/ w[i] = <<Stop>> THEN <<>> ELSE <<Space>>
           T == {i \in 0..(n - 1) : Clean(J[i])}
<1>1. w \in Seq(Text) /\ Len(w) = n /\ Closed(w[n]) /\ \A k \in 1..(n - 1) : Clean(w[k])
  BY DEF ClosedWords
<1>2. /\ J[0] = <<>>
      /\ \A i \in 1..n : J[i] = J[i - 1] \o sep(i) \o w[i]
      /\ Join(w) = J[n]
  <2>1. \A i \in 1..Len(w) :
           J[i] = J[i - 1] \o (IF i = 1 \/ w[i] = <<Stop>>
                               THEN <<>> ELSE <<Space>>) \o w[i]
    BY <1>1, JoinedIs
  <2>2. J[0] = <<>> /\ Join(w) = J[Len(w)]
    BY <1>1, JoinedIs
  <2> QED BY <1>1, <2>1, <2>2, Zenon
<1>3. Clean(<<>>) /\ Clean(<<Space>>)
  BY CharactersAssumption DEF Clean, Text, Char
<1>4. \A i : Clean(sep(i))
  BY <1>3
<1> HIDE DEF J, sep
<1>5. 0 \in T
  BY <1>2, <1>3
<1>6. ASSUME NEW i \in 0..(n - 1), Clean(J[i])
      PROVE  /\ i + 1 \in 1..n /\ J[i + 1] = (J[i] \o sep(i + 1)) \o w[i + 1]
             /\ Clean(J[i] \o sep(i + 1))
  <2>1. i + 1 \in 1..n /\ (i + 1) - 1 = i
    BY <1>6
  <2>2. J[i + 1] = J[i] \o sep(i + 1) \o w[i + 1]
    BY <1>2, <2>1, Zenon
  <2>3. Clean(J[i] \o sep(i + 1))
    <3>1. Clean(sep(i + 1))
      BY <1>4
    <3>2. sep(i + 1) \in Text
      BY <3>1 DEF Clean
    <3> QED BY <1>6, <3>1, <3>2, CleanBefore, Zenon
  <2> QED BY <2>1, <2>2, <2>3, Zenon
<1>7. ASSUME NEW i \in 0..(n - 1), i # n - 1, i \in T PROVE i + 1 \in T
  <2>1. Clean(J[i]) /\ i + 1 \in 1..(n - 1) /\ i + 1 \in 0..(n - 1)
    BY <1>7
  <2>2. Clean(w[i + 1]) /\ w[i + 1] \in Text
    BY <1>1, <2>1 DEF Clean
  <2>3. Clean(J[i + 1])
    <3> DEFINE x == J[i] \o sep(i + 1)
    <3>1. J[i + 1] = x \o w[i + 1] /\ Clean(x)
      BY <1>6, <2>1, Zenon
    <3> HIDE DEF x
    <3>2. Clean(x \o w[i + 1])
      BY <2>2, <3>1, CleanBefore, Zenon
    <3> QED BY <3>1, <3>2, Zenon
  <2> QED BY <2>1, <2>3
<1>8. n - 1 \in T
  <2> HIDE DEF T
  <2> DEFINE b == n - 1
  <2>1. b \in Nat
    OBVIOUS
  <2>2. 0 \in T /\ \A i \in 0..b : i # b /\ i \in T => i + 1 \in T
    BY <1>5, <1>7
  <2> HIDE DEF b
  <2>3. 0..b \subseteq T
    BY <2>1, <2>2, Induction
  <2>4. b \in T
    BY <2>1, <2>3
  <2> QED BY <2>4 DEF b
<1>9. Clean(J[n - 1]) /\ n - 1 \in 0..(n - 1) /\ (n - 1) + 1 = n
  BY <1>8
<1>10. Closed(J[n])
  <2> DEFINE x == J[n - 1] \o sep(n)
  <2>1. J[n] = x \o w[n] /\ Clean(x)
    BY <1>6, <1>9, Zenon
  <2> HIDE DEF x
  <2>2. w[n] \in Text
    BY <1>1 DEF Closed
  <2>3. Closed(x \o w[n])
    BY <1>1, <2>1, <2>2, CleanBefore, Zenon
  <2> QED BY <2>1, <2>3, Zenon
<1> QED BY <1>2, <1>10

-----------------------------------------------------------------------------
(* The other sentences *)

\* Text u is t with new in the place of its part from p up to e.
Splices(u, t, p, new, e) ==
    /\ u \in Text /\ Len(u) = (p - 1) + Len(new) + (Len(t) + 1 - e)
    /\ \A i \in 1..(p - 1) : u[i] = t[i]
    /\ \A i \in 1..Len(new) : u[p - 1 + i] = new[i]
    /\ \A i \in e..Len(t) : u[i + (Len(u) - Len(t))] = t[i]

\* The characters of a text with a part replaced.
LEMMA SpliceIs ==
    ASSUME NEW t \in Text, NEW new \in Text, NEW p \in 1..(Len(t) + 1),
           NEW e \in p..(Len(t) + 1)
    PROVE  Splices(Spliced(t, p, new, e), t, p, new, e)
<1> DEFINE L == Len(t)
           x == SubSeq(t, 1, p - 1)
           y == SubSeq(t, e, L)
           z == x \o new
           u == z \o y
           l == Len(new)
<1>1. /\ t \in Seq(Char) /\ new \in Seq(Char) /\ L \in Nat /\ l \in Nat
      /\ 1 \in 1..(L + 1) /\ p - 1 \in (1 - 1)..L /\ (p - 1) - 1 + 1 = p - 1
      /\ e \in 1..(L + 1) /\ L \in (e - 1)..L /\ L - e + 1 = L + 1 - e
      /\ \A i \in 1..(p - 1) : 1 + i - 1 = i
  <2>1. t \in Seq(Char) /\ new \in Seq(Char) /\ L \in Nat /\ l \in Nat
    BY TextLength
  <2> HIDE DEF L, l
  <2>2. p \in 1..(L + 1) /\ e \in p..(L + 1)
    BY DEF L
  <2> QED BY <2>1, <2>2
<1>2. x \in Seq(Char) /\ Len(x) = p - 1 /\ \A i \in 1..(p - 1) : x[i] = t[i]
  <2>1. /\ x \in Seq(Char) /\ Len(x) = (p - 1) - 1 + 1
        /\ \A i \in 1..((p - 1) - 1 + 1) : x[i] = t[1 + i - 1]
    BY <1>1, PartOf
  <2> HIDE DEF x
  <2> QED BY <1>1, <2>1
<1>3. /\ y \in Seq(Char) /\ Len(y) = L + 1 - e
      /\ \A i \in 1..(L + 1 - e) : y[i] = t[e + i - 1]
  <2>1. /\ y \in Seq(Char) /\ Len(y) = L - e + 1
        /\ \A i \in 1..(L - e + 1) : y[i] = t[e + i - 1]
    BY <1>1, PartOf
  <2> HIDE DEF y
  <2> QED BY <1>1, <2>1
<1> HIDE DEF x, y
<1>4. /\ z \in Seq(Char) /\ Len(z) = Len(x) + l
      /\ \A i \in 1..Len(x) : z[i] = x[i]
      /\ \A i \in 1..l : z[Len(x) + i] = new[i]
  <2>1. x \in Seq(Char) /\ new \in Seq(Char)
    BY <1>1, <1>2
  <2> QED BY <2>1
<1> HIDE DEF z
<1>5. /\ u \in Seq(Char) /\ Len(u) = Len(z) + Len(y)
      /\ \A i \in 1..Len(z) : u[i] = z[i]
      /\ \A i \in 1..Len(y) : u[Len(z) + i] = y[i]
  <2>1. z \in Seq(Char) /\ y \in Seq(Char)
    BY <1>3, <1>4
  <2> QED BY <2>1
<1> HIDE DEF u, L, l
<1>6. Len(z) = (p - 1) + l /\ Len(u) = (p - 1) + l + (L + 1 - e)
  BY <1>1, <1>2, <1>3, <1>4, <1>5
<1>7. ASSUME NEW i \in 1..(p - 1) PROVE u[i] = t[i]
  <2>1. i \in 1..Len(x) /\ i \in 1..Len(z)
    BY <1>1, <1>2, <1>6
  <2> QED BY <1>2, <1>4, <1>5, <2>1
<1>8. ASSUME NEW i \in 1..l PROVE u[p - 1 + i] = new[i]
  <2>1. p - 1 + i \in 1..Len(z)
    BY <1>1, <1>6
  <2> QED BY <1>2, <1>4, <1>5, <2>1
<1>9. ASSUME NEW i \in e..L PROVE u[i + (Len(u) - L)] = t[i]
  <2>1. /\ i + 1 - e \in 1..Len(y) /\ e + (i + 1 - e) - 1 = i
        /\ Len(z) + (i + 1 - e) = i + (Len(u) - L)
    BY <1>1, <1>3, <1>6
  <2> QED BY <1>3, <1>5, <2>1
<1>10. Splices(u, t, p, new, e)
  BY <1>5, <1>6, <1>7, <1>8, <1>9 DEF Splices, Text, L, l
<1> QED BY <1>10 DEF u, z, x, y, L, Spliced

\* The new part is where the old one was.
LEMMA SplicedPart ==
    ASSUME NEW t \in Text, NEW new \in Text, NEW p \in 1..(Len(t) + 1),
           NEW e \in p..(Len(t) + 1), NEW u, Splices(u, t, p, new, e)
    PROVE  SamePart(u, p, Len(u) - (Len(t) + 1 - e), new, 1, Len(new))
<1> DEFINE l == Len(new)
           b == Len(u) - (Len(t) + 1 - e)
<1>1. Len(t) \in Nat /\ l \in Nat
  BY TextLength
<1>2. /\ u \in Text /\ Len(u) = (p - 1) + l + (Len(t) + 1 - e)
      /\ \A i \in 1..l : u[p - 1 + i] = new[i]
  BY DEF Splices
<1> HIDE DEF l, b
<1>3. b = (p - 1) + l /\ Len(u) \in Nat
  BY <1>1, <1>2 DEF b
<1>4. /\ p \in 1..(Len(u) + 1) /\ b \in (p - 1)..Len(u)
      /\ 1 \in 1..(l + 1) /\ l \in (1 - 1)..l /\ b - p = l - 1 /\ b - p + 1 = l
  BY <1>1, <1>2, <1>3
<1>5. ASSUME NEW i \in 1..l PROVE u[p + i - 1] = new[1 + i - 1]
  <2>1. p + i - 1 = p - 1 + i /\ 1 + i - 1 = i
    BY <1>1
  <2> QED BY <1>2, <2>1
<1>6. Matches(u, p, b, new, 1, l)
  BY <1>2, <1>4, <1>5 DEF Matches, l
<1> QED BY <1>6, MatchingParts, Zenon DEF b, l

\* Where a text is unchanged, the count is.
LEMMA SamePrefix ==
    ASSUME NEW t, NEW u, NEW b \in Nat, \A i \in 1..b : u[i] = t[i], NEW i \in 1..(b + 1)
    PROVE  StopsBefore(u, i) = StopsBefore(t, i)
<1>1. \A j \in 1..(i - 1) : j \in 1..b
  OBVIOUS
<1>2. {j \in 1..(i - 1) : u[j] = Stop} = {j \in 1..(i - 1) : t[j] = Stop}
  BY <1>1
<1> QED BY <1>2 DEF StopsBefore

\* From a on, u is t moved by d, and the counts are the same.
Shifted(t, u, a, d) ==
    /\ t \in Text /\ u \in Text /\ a \in 1..Len(t) /\ d \in Int /\ a + d \in 1..Len(u)
    /\ Len(u) = Len(t) + d
    /\ \A i \in a..Len(t) : u[i + d] = t[i]
    /\ \A i \in a..(Len(t) + 1) : StopsBefore(u, i + d) = StopsBefore(t, i)

\* When the counts are the same at a, they are from there on.
LEMMA ShiftedIs ==
    ASSUME NEW t \in Text, NEW u \in Text, NEW a \in 1..Len(t), NEW d \in Int,
           a + d \in 1..Len(u), Len(u) = Len(t) + d,
           \A i \in a..Len(t) : u[i + d] = t[i],
           StopsBefore(u, a + d) = StopsBefore(t, a)
    PROVE  Shifted(t, u, a, d)
<1> DEFINE L == Len(t)
           n == L + 1 - a
           T == {j \in 0..n : StopsBefore(u, (a + j) + d) = StopsBefore(t, a + j)}
<1>1. L \in Nat /\ n \in Nat /\ a \in 1..L /\ Len(u) = L + d
  BY TextLength
<1> HIDE DEF n, L
<1>2. 0 \in T
  <2>1. a + 0 = a
    BY <1>1
  <2> QED BY <1>1, <2>1
<1>3. ASSUME NEW j \in 0..n, j # n, j \in T PROVE j + 1 \in T
  <2> DEFINE x == a + j
  <2>1. /\ x \in 1..L /\ x \in a..L /\ x + d \in 1..Len(u) /\ j + 1 \in 0..n
        /\ (x + d) + 1 = (a + (j + 1)) + d /\ x + 1 = a + (j + 1)
    BY <1>1, <1>3 DEF n
  <2>2. StopsBefore(u, x + d) = StopsBefore(t, x) /\ u[x + d] = t[x]
    BY <1>3, <2>1 DEF L
  <2> HIDE DEF x
  <2>3. StopsBefore(t, x + 1) = StopsBefore(t, x) + IF t[x] = Stop THEN 1 ELSE 0
    BY <2>1, StopsBeforeStep DEF L
  <2> DEFINE y == x + d
  <2>4. StopsBefore(u, y + 1) = StopsBefore(u, y) + IF u[y] = Stop THEN 1 ELSE 0
    <3> HIDE DEF y
    <3>1. y \in 1..Len(u)
      BY <2>1 DEF y
    <3> QED BY <3>1, StopsBeforeStep
  <2>5. StopsBefore(u, y + 1) = StopsBefore(t, x + 1)
    BY <2>2, <2>3, <2>4, Zenon
  <2> QED BY <2>1, <2>5
<1>4. 0..n \subseteq T
  <2> HIDE DEF T
  <2> QED BY <1>1, <1>2, <1>3, Induction
<1>5. ASSUME NEW i \in a..(L + 1) PROVE StopsBefore(u, i + d) = StopsBefore(t, i)
  <2>1. i - a \in 0..n /\ a + (i - a) = i
    BY <1>1 DEF n
  <2>2. i - a \in T
    BY <1>4, <2>1
  <2> QED BY <2>1, <2>2
<1> QED BY <1>5 DEF Shifted, L

\* Sentence k of t lies between p and e.
SentenceAt(t, k, p, e) == SubSeq(t, p, e - 1) = Sentence(t, k)

\* So it does when it begins and ends there.
LEMMA SentencePlace ==
    ASSUME NEW t \in Text, NEW k \in Nat, NEW q \in Nat, NEW p \in Nat, NEW e \in Nat,
           Begins(t, k, q, p), Ends(t, k, p, e)
    PROVE  SentenceAt(t, k, p, e)
BY SentenceIsThere DEF SentenceAt

\* A sentence that lies behind a is in u, too.
LEMMA ShiftedSentence ==
    ASSUME NEW t, NEW u, NEW a, NEW d, Shifted(t, u, a, d),
           NEW k \in Nat, k > 0, NEW q \in Nat, NEW p \in Nat, NEW e \in Nat,
           Begins(t, k, q, p), Ends(t, k, p, e), a <= q
    PROVE  Sentence(u, k) = Sentence(t, k)
<1> DEFINE L == Len(t)
<1>1. /\ t \in Text /\ u \in Text /\ a \in 1..L /\ d \in Int /\ Len(u) = L + d
      /\ a + d \in 1..Len(u)
      /\ \A i \in a..L : u[i + d] = t[i]
      /\ \A i \in a..(L + 1) : StopsBefore(u, i + d) = StopsBefore(t, i)
  BY DEF Shifted
<1>2. L \in Nat /\ Len(u) \in Nat
  BY <1>1, TextLength
<1>3. /\ p \in 1..(L + 1) /\ q \in 0..(p - 1) /\ StopsBefore(t, p) = k
      /\ t[q] = Stop /\ StopsBefore(t, q) = k - 1
      /\ \A j \in (q + 1)..(p - 1) : t[j] = Space
      /\ p <= L => t[p] # Space
  BY DEF Begins
<1>4. /\ e \in p..(L + 1)
      /\ \A i \in p..(e - 1) : StopsBefore(t, i) = k
      /\ \A i \in e..L : StopsBefore(t, i) > k
  BY DEF Ends
<1> HIDE DEF L
<1>5. /\ p + d \in 1..(Len(u) + 1) /\ q + d \in 0..((p + d) - 1) /\ q + d > 0
      /\ q \in a..L /\ q \in a..(L + 1) /\ p \in a..(L + 1)
      /\ p + d \in Nat /\ q + d \in Nat /\ e + d \in Nat
      /\ e + d \in (p + d)..(Len(u) + 1)
  BY <1>1, <1>2, <1>3, <1>4
<1>6. Begins(u, k, q + d, p + d)
  <2>1. u[q + d] = Stop /\ StopsBefore(u, q + d) = k - 1 /\ StopsBefore(u, p + d) = k
    BY <1>1, <1>3, <1>5
  <2>2. ASSUME NEW j \in ((q + d) + 1)..((p + d) - 1) PROVE u[j] = Space
    <3>1. j - d \in (q + 1)..(p - 1) /\ j - d \in a..L /\ (j - d) + d = j
      BY <1>1, <1>2, <1>3, <1>5
    <3> QED BY <1>1, <1>3, <3>1
  <2>3. ASSUME p + d <= Len(u) PROVE u[p + d] # Space
    <3>1. p <= L /\ p \in a..L
      BY <1>1, <1>2, <1>5, <2>3
    <3> QED BY <1>1, <1>3, <3>1
  <2> QED BY <1>5, <2>1, <2>2, <2>3 DEF Begins
<1>7. Ends(u, k, p + d, e + d)
  <2>1. ASSUME NEW i \in (p + d)..((e + d) - 1) PROVE StopsBefore(u, i) = k
    <3>1. i - d \in p..(e - 1) /\ i - d \in a..(L + 1) /\ (i - d) + d = i
      BY <1>1, <1>2, <1>4, <1>5
    <3> QED BY <1>1, <1>4, <3>1
  <2>2. ASSUME NEW i \in (e + d)..Len(u) PROVE StopsBefore(u, i) > k
    <3>1. i - d \in e..L /\ i - d \in a..(L + 1) /\ (i - d) + d = i
      BY <1>1, <1>2, <1>4, <1>5
    <3> QED BY <1>1, <1>4, <3>1
  <2> QED BY <1>5, <2>1, <2>2 DEF Ends
<1>8. Matches(u, p + d, (e + d) - 1, t, p, e - 1)
  <2>1. /\ (e + d) - 1 \in ((p + d) - 1)..Len(u) /\ e - 1 \in (p - 1)..L
        /\ ((e + d) - 1) - (p + d) = (e - 1) - p
        /\ ((e + d) - 1) - (p + d) + 1 = e - p
    BY <1>1, <1>2, <1>3, <1>4
  <2>2. ASSUME NEW i \in 1..(e - p) PROVE u[(p + d) + i - 1] = t[p + i - 1]
    <3>1. p + i - 1 \in a..L /\ (p + d) + i - 1 = (p + i - 1) + d
      BY <1>1, <1>2, <1>3, <1>4, <1>5
    <3> QED BY <1>1, <3>1
  <2> QED BY <1>1, <1>3, <1>5, <2>1, <2>2 DEF Matches, L
<1>9. SubSeq(u, p + d, (e + d) - 1) = SubSeq(t, p, e - 1)
  <2>1. SamePart(u, p + d, (e + d) - 1, t, p, e - 1)
    BY <1>8, MatchingParts, Zenon
  <2> QED BY <2>1, Zenon DEF SamePart
<1>10. SubSeq(u, p + d, (e + d) - 1) = Sentence(u, k)
  <2> DEFINE P == p + d
             E == e + d
             Q == q + d
  <2>1. P \in Nat /\ E \in Nat /\ Q \in Nat /\ Begins(u, k, Q, P) /\ Ends(u, k, P, E)
    BY <1>5, <1>6, <1>7
  <2> HIDE DEF P, E, Q
  <2>2. SentenceAt(u, k, P, E)
    BY <1>1, <2>1, SentencePlace
  <2> QED BY <2>2 DEF P, E, SentenceAt
<1>11. SubSeq(t, p, e - 1) = Sentence(t, k)
  BY <1>1, SentencePlace DEF SentenceAt
<1> QED BY <1>9, <1>10, <1>11, Zenon

\* Texts t and u agree up to the terminator at b, the m-th of t.
AgreeUpTo(t, u, b, m) ==
    /\ t \in Text /\ u \in Text /\ b \in 1..Len(t) /\ b <= Len(u)
    /\ (\A i \in 1..b : u[i] = t[i]) /\ t[b] = Stop /\ StopsBefore(t, b) = m - 1

\* A sentence before the terminator at b, which ends one before sentence m, is in
\* every text that agrees up to b.
LEMMA PrefixSentence ==
    ASSUME NEW t, NEW u, NEW b, NEW m \in Nat, AgreeUpTo(t, u, b, m), NEW k \in Nat, k < m,
           NEW q \in Nat, NEW p \in Nat, NEW e \in Nat,
           Begins(t, k, q, p), Ends(t, k, p, e)
    PROVE  Sentence(u, k) = Sentence(t, k)
<1> DEFINE L == Len(t)
<1>0. /\ t \in Text /\ u \in Text /\ b \in 1..Len(t) /\ b <= Len(u)
      /\ (\A i \in 1..b : u[i] = t[i]) /\ t[b] = Stop /\ StopsBefore(t, b) = m - 1
  BY DEF AgreeUpTo
<1> USE <1>0
<1>1. L \in Nat /\ Len(u) \in Nat /\ b \in Nat /\ b <= L
  BY TextLength
<1>2. /\ p \in 1..(L + 1) /\ q \in 0..(p - 1) /\ StopsBefore(t, p) = k
      /\ \/ k = 0 /\ q = 0 /\ p = 1
         \/ /\ k > 0 /\ q > 0 /\ t[q] = Stop /\ StopsBefore(t, q) = k - 1
            /\ \A j \in (q + 1)..(p - 1) : t[j] = Space
            /\ p <= L => t[p] # Space
  BY DEF Begins
<1>3. /\ e \in p..(L + 1)
      /\ \A i \in p..(e - 1) : StopsBefore(t, i) = k
      /\ \A i \in e..L : StopsBefore(t, i) > k
  BY DEF Ends
<1>4. StopsBefore(t, b + 1) = m
  <2>1. StopsBefore(t, b + 1) = StopsBefore(t, b) + IF t[b] = Stop THEN 1 ELSE 0
    BY StopsBeforeStep
  <2> QED BY <2>1
<1>5. \A i \in 1..(b + 1) : StopsBefore(u, i) = StopsBefore(t, i)
  BY <1>1, SamePrefix
<1>6. p <= b
  <2> SUFFICES ASSUME b < p PROVE FALSE
    BY <1>1, <1>2
  <2>1. b \in 1..Len(t) /\ p \in 1..(Len(t) + 1)
    BY <1>2
  <2>2. StopsBefore(t, b) + 1 <= StopsBefore(t, p)
    BY <2>1, StopsBeforeStrict, Zenon
  <2> QED BY <1>2, <2>2
<1>7. e <= b + 1
  <2> SUFFICES ASSUME ~(e <= b + 1) PROVE FALSE
    OBVIOUS
  <2>1. b + 1 \in p..(e - 1)
    BY <1>1, <1>2, <1>3, <1>6
  <2>2. m = k
    BY <1>3, <1>4, <2>1
  <2> QED BY <2>2
<1>8. StopsBefore(t, e) > k
  <2>1. CASE e <= L
    <3>1. e \in e..L
      BY <1>3, <2>1
    <3> QED BY <1>3, <3>1
  <2>2. CASE ~(e <= L)
    <3>1. e = b + 1
      BY <1>1, <1>3, <1>7, <2>2
    <3> QED BY <1>4, <3>1
  <2> QED BY <2>1, <2>2
<1> HIDE DEF L
<1>9. Begins(u, k, q, p)
  <2>1. p \in 1..(Len(u) + 1) /\ p \in 1..(b + 1) /\ p \in 1..b
    BY <1>1, <1>2, <1>6
  <2>2. StopsBefore(u, p) = k
    BY <1>2, <1>5, <2>1
  <2>3. CASE k = 0 /\ q = 0 /\ p = 1
    BY <1>2, <2>1, <2>2, <2>3 DEF Begins
  <2>4. CASE /\ k > 0 /\ q > 0 /\ t[q] = Stop /\ StopsBefore(t, q) = k - 1
             /\ \A j \in (q + 1)..(p - 1) : t[j] = Space
             /\ p <= L => t[p] # Space
    <3>1. q \in 1..b /\ q \in 1..(b + 1) /\ p <= L /\ \A j \in (q + 1)..(p - 1) : j \in 1..b
      BY <1>1, <1>2, <2>1, <2>4
    <3>2. /\ u[q] = Stop /\ StopsBefore(u, q) = k - 1 /\ u[p] # Space
          /\ \A j \in (q + 1)..(p - 1) : u[j] = Space
      BY <1>5, <2>1, <2>4, <3>1
    <3> QED BY <1>2, <2>1, <2>2, <2>4, <3>2 DEF Begins
  <2> QED BY <1>2, <2>3, <2>4
<1>10. Ends(u, k, p, e)
  <2>1. e \in p..(Len(u) + 1) /\ e \in 1..(b + 1)
    BY <1>1, <1>2, <1>3, <1>7
  <2>2. ASSUME NEW i \in p..(e - 1) PROVE StopsBefore(u, i) = k
    <3>1. i \in 1..(b + 1)
      BY <1>1, <1>2, <1>3, <1>7
    <3> QED BY <1>3, <1>5, <3>1
  <2>3. ASSUME NEW i \in e..Len(u) PROVE StopsBefore(u, i) > k
    <3>1. i \in 1..(Len(u) + 1) /\ e \in 1..(Len(u) + 1) /\ e <= i
      BY <1>1, <1>2, <1>3, <2>1
    <3>2. StopsBefore(u, e) <= StopsBefore(u, i)
      BY <3>1, StopsBeforeMonotone
    <3>3. StopsBefore(u, e) > k
      BY <1>5, <1>8, <2>1
    <3>4. StopsBefore(u, e) \in Nat /\ StopsBefore(u, i) \in Nat
      BY <3>1, StopsBeforeStep
    <3> QED BY <3>2, <3>3, <3>4
  <2> QED BY <2>1, <2>2, <2>3 DEF Ends
<1>11. Matches(u, p, e - 1, t, p, e - 1)
  <2>1. /\ p \in 1..(Len(u) + 1) /\ e - 1 \in (p - 1)..Len(u) /\ e - 1 \in (p - 1)..L
        /\ (e - 1) - p + 1 = e - p
    BY <1>1, <1>2, <1>3, <1>6, <1>7
  <2>2. ASSUME NEW i \in 1..(e - p) PROVE u[p + i - 1] = t[p + i - 1]
    <3>1. p + i - 1 \in 1..b
      BY <1>1, <1>2, <1>3, <1>7
    <3> QED BY <3>1
  <2> QED BY <1>2, <2>1, <2>2 DEF Matches, L
<1>12. SubSeq(u, p, e - 1) = SubSeq(t, p, e - 1)
  <2>1. SamePart(u, p, e - 1, t, p, e - 1)
    BY <1>11, MatchingParts, Zenon
  <2> QED BY <2>1, Zenon DEF SamePart
<1>13. SubSeq(u, p, e - 1) = Sentence(u, k)
  BY <1>9, <1>10, SentencePlace DEF SentenceAt
<1>14. SubSeq(t, p, e - 1) = Sentence(t, k)
  BY SentencePlace DEF SentenceAt
<1> QED BY <1>12, <1>13, <1>14, Zenon

-----------------------------------------------------------------------------
(* Commits *)

\* The sentence commit_changes writes for s.
Edited(s, ops) == Join(ApplyAll(FirstWords(s), ops))

\* Sentence m, typed as n, lies between p and e; text u has the edited one there.
CommitAt(t, n, m, ops, u, q, p, e) ==
    /\ Begins(t, m, q, p) /\ Ends(t, m, p, e)
    /\ get_nth_sentence(t, n).start = p /\ get_nth_sentence(t, n).end = e
    /\ SubSeq(t, p, e - 1) \in Text /\ Edited(SubSeq(t, p, e - 1), ops) \in Text
    /\ Splices(u, t, p, Edited(SubSeq(t, p, e - 1), ops), e)

\* What commit_changes does to a sentence that is there.
LEMMA CommitSplices ==
    ASSUME NEW t \in Text, NEW n \in Int, NEW m \in Nat, m = IF n < 0 THEN 0 ELSE n,
           NEW ops \in Seq(WriteOp), get_nth_sentence(t, n).start # 0
    PROVE  /\ m <= Stops(t)
           /\ \E q, p, e \in Nat : CommitAt(t, n, m, ops, commit_changes(t, n, ops), q, p, e)
<1> DEFINE s == get_nth_sentence(t, n)
           p == s.start
           e == s.end
           old == SubSeq(t, p, e - 1)
<1>1. /\ m <= Stops(t) /\ Ends(t, m, p, e) /\ \E q \in Nat : Begins(t, m, q, p)
  BY SentenceFound
<1>2. PICK q \in Nat : Begins(t, m, q, p)
  BY <1>1
<1>3. /\ Len(t) \in Nat /\ t \in Seq(Char)
      /\ p \in 1..(Len(t) + 1) /\ e \in p..(Len(t) + 1)
  BY <1>1, <1>2, TextLength DEF Begins, Ends
<1>4. commit_changes(t, n, ops) = Spliced(t, p, Edited(old, ops), e)
  BY DEF commit_changes, Spliced, Edited
<1>5. p = get_nth_sentence(t, n).start /\ e = get_nth_sentence(t, n).end
  OBVIOUS
<1> HIDE DEF p, e, s
<1>6. p \in Nat /\ e \in Nat /\ e - 1 \in (p - 1)..Len(t)
  BY <1>3
<1>7. old \in Text
  <2>1. old \in Seq(Char)
    BY <1>3, <1>6, PartOf
  <2> QED BY <2>1 DEF Text
<1> HIDE DEF old
<1>8. Edited(old, ops) \in Text
  BY <1>7, FirstWordsType, ApplyAllType, JoinType DEF Edited
<1>9. Splices(Spliced(t, p, Edited(old, ops), e), t, p, Edited(old, ops), e)
  BY <1>3, <1>8, SpliceIs
<1>10. CommitAt(t, n, m, ops, commit_changes(t, n, ops), q, p, e)
  BY <1>1, <1>2, <1>4, <1>5, <1>7, <1>8, <1>9, Zenon DEF CommitAt, old
<1> QED BY <1>1, <1>6, <1>10

\* Content that is one word.
OneWordOp(op) == Words(op.content) = <<op.content>> /\ op.content # <<Stop>>

\* The words of an edited sentence, when its words fit into the array, none is a
\* lone terminator, and every update replaces one of them by a single word.
LEMMA EditedWords ==
    ASSUME NEW s \in Text, NEW ops \in Seq(WriteOp), NEW old, old = Words(s),
           Len(old) <= MaxWords, \A i \in 1..Len(old) : old[i] # <<Stop>>,
           \A j \in 1..Len(ops) : ops[j].word_index \in 0..(Len(old) - 1) /\ OneWordOp(ops[j])
    PROVE  /\ Len(Words(Edited(s, ops))) = Len(old)
           /\ \A k \in 1..Len(old) : Updated(Words(Edited(s, ops)), old, ops, Len(ops), k)
<1> DEFINE v == ApplyAll(old, ops)
           n == Len(old)
<1>1. FirstWords(s) = old
  BY FirstWordsAll
<1>2. old \in Seq(Text) /\ \A k \in 1..n : Solid(old[k])
  BY WordIs, WordsAreSolid
<1>3. v \in Seq(Text) /\ Len(v) = n /\ \A k \in 1..n : Updated(v, old, ops, Len(ops), k)
  BY <1>2, AllUpdated
<1>4. ASSUME NEW j \in 1..Len(ops) PROVE Solid(ops[j].content) /\ ops[j].content # <<Stop>>
  <2> DEFINE c == ops[j].content
  <2>0. ops[j] \in WriteOp
    OBVIOUS
  <2>1. c \in Text
    BY <2>0 DEF WriteOp
  <2>2. Words(c) = <<c>> /\ c # <<Stop>>
    BY DEF OneWordOp
  <2> HIDE DEF c
  <2>3. 1 \in 1..Len(Words(c)) /\ Words(c)[1] = c
    BY <2>2
  <2>4. Solid(c)
    BY <2>1, <2>3, WordsAreSolid
  <2> QED BY <2>2, <2>4 DEF c
<1> HIDE DEF v
<1>5. ASSUME NEW k \in 1..n PROVE Solid(v[k]) /\ v[k] # <<Stop>>
  <2>1. \/ \E j \in 1..Len(ops) : v[k] = ops[j].content
        \/ v[k] = old[k]
    BY <1>3 DEF Updated
  <2> QED BY <1>2, <1>4, <2>1
<1>6. Words(Join(v)) = v
  BY <1>3, <1>5, WordsOfJoin
<1>7. Words(Edited(s, ops)) = v
  BY <1>1, <1>6 DEF Edited, v
<1> QED BY <1>3, <1>7

\* In u the edited sentence lies between the two ends of what was the sentence.
EditedThere(u, t, p, e, ops) ==
    SubSeq(u, p, Len(u) - (Len(t) + 1 - e)) = Edited(SubSeq(t, p, e - 1), ops)

\* So it does after a commit.
LEMMA CommittedWords ==
    ASSUME NEW t \in Text, NEW n, NEW m, NEW ops, NEW u, NEW q \in Nat, NEW p \in Nat,
           NEW e \in Nat, CommitAt(t, n, m, ops, u, q, p, e)
    PROVE  EditedThere(u, t, p, e, ops)
<1> DEFINE new == Edited(SubSeq(t, p, e - 1), ops)
<1>1. /\ p \in 1..(Len(t) + 1) /\ e \in p..(Len(t) + 1) /\ new \in Text
      /\ Splices(u, t, p, new, e)
  BY DEF CommitAt, Begins, Ends
<1> HIDE DEF new
<1>2. SamePart(u, p, Len(u) - (Len(t) + 1 - e), new, 1, Len(new))
  BY <1>1, SplicedPart
<1>3. SubSeq(new, 1, Len(new)) = new
  BY <1>1, TextLength
<1>4. SubSeq(u, p, Len(u) - (Len(t) + 1 - e)) = SubSeq(new, 1, Len(new))
  BY <1>2, Zenon DEF SamePart
<1>5. SubSeq(u, p, Len(u) - (Len(t) + 1 - e)) = new
  BY <1>3, <1>4, Zenon
<1> QED BY <1>5 DEF new, EditedThere

\* Sentence m of t, between p and e, ends with its only terminator.
Closes(t, m, p, e) ==
    /\ e - 1 \in p..Len(t) /\ t[e - 1] = Stop /\ StopsBefore(t, e - 1) = m
    /\ Closed(SubSeq(t, p, e - 1))

\* A sentence that is not the last one does.
LEMMA SentenceCloses ==
    ASSUME NEW t \in Text, NEW m \in Nat, m < Stops(t), NEW q \in Nat, NEW p \in Nat,
           NEW e \in Nat, Begins(t, m, q, p), Ends(t, m, p, e)
    PROVE  Closes(t, m, p, e)
<1> DEFINE L == Len(t)
<1>1. /\ L \in Nat /\ p \in 1..(L + 1) /\ e \in p..(L + 1) /\ StopsBefore(t, p) = m
      /\ \A i \in p..(e - 1) : StopsBefore(t, i) = m
      /\ \A i \in e..L : StopsBefore(t, i) > m
  BY TextLength DEF Begins, Ends
<1>2. StopsBefore(t, e) > m
  <2>1. e \in e..L \/ e = L + 1
    BY <1>1
  <2> QED BY <1>1, <2>1 DEF Stops
<1>3. e - 1 \in p..L /\ e - 1 \in p..(e - 1) /\ e - 1 \in 1..L /\ (e - 1) + 1 = e
  <2>1. e # p
    BY <1>1, <1>2
  <2> QED BY <1>1, <2>1
<1>4. StopsBefore(t, e - 1) = m
  BY <1>1, <1>3
<1>5. t[e - 1] = Stop
  <2> DEFINE x == e - 1
  <2>1. x \in 1..Len(t) /\ StopsBefore(t, x) = m /\ x + 1 = e
    BY <1>3, <1>4
  <2> HIDE DEF x
  <2>2. StopsBefore(t, e) = m + IF t[x] = Stop THEN 1 ELSE 0
    BY <2>1, StopsBeforeStep
  <2>3. t[x] = Stop
    BY <1>2, <2>2
  <2> QED BY <2>3 DEF x
<1>6. ASSUME NEW i \in p..(e - 2) PROVE t[i] # Stop
  <2>1. i \in 1..Len(t) /\ i \in p..(e - 1) /\ i + 1 \in p..(e - 1)
    BY <1>1, <1>3
  <2>2. StopsBefore(t, i) = m /\ StopsBefore(t, i + 1) = m
    BY <1>1, <2>1
  <2>3. StopsBefore(t, i + 1) = StopsBefore(t, i) + IF t[i] = Stop THEN 1 ELSE 0
    BY <2>1, StopsBeforeStep
  <2> QED BY <2>2, <2>3
<1>7. Closed(SubSeq(t, p, e - 1))
  <2> DEFINE j == e - 1
  <2>1. p \in 1..Len(t) /\ j \in p..Len(t) /\ t[j] = Stop /\ \A x \in p..(j - 1) : t[x] # Stop
    BY <1>1, <1>3, <1>5, <1>6
  <2> HIDE DEF j
  <2>2. Closed(SubSeq(t, p, j))
    BY <2>1, CleanPart
  <2> QED BY <2>2 DEF j
<1> QED BY <1>3, <1>4, <1>5, <1>7 DEF Closes

\* A text with its terminator at its end has a terminator.
LEMMA ClosedHasStop ==
    ASSUME NEW s, Closed(s)
    PROVE  Stops(s) # 0
<1>1. s \in Text /\ Len(s) \in Nat /\ Len(s) > 0 /\ s[Len(s)] = Stop
  BY TextLength DEF Closed
<1>2. Len(s) \in 1..Len(s) /\ Len(s) + 1 \in 1..(Len(s) + 1) /\ Len(s) < Len(s) + 1
  BY <1>1
<1>3. StopsBefore(s, Len(s)) + 1 <= StopsBefore(s, Len(s) + 1)
  BY <1>1, <1>2, StopsBeforeStrict
<1>4. StopsBefore(s, Len(s)) \in Nat /\ StopsBefore(s, Len(s) + 1) \in Nat
  BY <1>1, <1>2, StopsBeforeStep
<1> QED BY <1>3, <1>4 DEF Stops

\* An update that types no terminator, and stays before the last word of a
\* sentence that has one.
HarmlessOp(op, s) ==
    /\ \A i \in 1..Len(op.content) : op.content[i] # Stop
    /\ Stops(s) = 0 \/ op.word_index + 1 < Len(Words(s))

\* Such updates leave the terminator of a sentence at its end.
LEMMA EditedCloses ==
    ASSUME NEW s, Closed(s), Len(Words(s)) <= MaxWords, NEW ops \in Seq(WriteOp),
           \A j \in 1..Len(ops) : HarmlessOp(ops[j], s)
    PROVE  Closed(Edited(s, ops))
<1> DEFINE w == Words(s)
           n == Len(w)
<1>1. s \in Text
  BY DEF Closed
<1>2. FirstWords(s) = w
  BY <1>1, FirstWordsAll
<1>3. n > 0 /\ ClosedWords(w, n)
  BY LastWord
<1>4. n \in Nat
  BY <1>1, WordIs
<1>5. ASSUME NEW j \in 1..Len(ops) PROVE Clean(ops[j].content) /\ ops[j].word_index + 1 < n
  <2>0. ops[j] \in WriteOp
    OBVIOUS
  <2>1. ops[j].content \in Text
    BY <2>0 DEF WriteOp
  <2>2. HarmlessOp(ops[j], s) /\ Stops(s) # 0
    BY ClosedHasStop
  <2> QED BY <2>1, <2>2 DEF HarmlessOp, Clean
<1> HIDE DEF w, n
<1>6. ClosedWords(ApplyAll(w, ops), n)
  BY <1>3, <1>4, <1>5, ClosedApplyAll
<1>7. Closed(Join(ApplyAll(w, ops)))
  BY <1>3, <1>4, <1>6, ClosedJoin
<1> QED BY <1>2, <1>7 DEF Edited

\* When both the old and the new sentence end with their only terminators, what
\* follows is only moved.
LEMMA CommitShifts ==
    ASSUME NEW t \in Text, NEW n, NEW m \in Nat, NEW ops, NEW u, NEW q \in Nat,
           NEW p \in Nat, NEW e \in Nat, CommitAt(t, n, m, ops, u, q, p, e), m < Stops(t),
           Closed(Edited(SubSeq(t, p, e - 1), ops))
    PROVE  Shifted(t, u, e - 1, Len(u) - Len(t))
<1> DEFINE L == Len(t)
           new == Edited(SubSeq(t, p, e - 1), ops)
           l == Len(new)
           d == Len(u) - L
           a == e - 1
<1>1. /\ Begins(t, m, q, p) /\ Ends(t, m, p, e) /\ Splices(u, t, p, new, e)
      /\ L \in Nat /\ p \in 1..(L + 1) /\ e \in p..(L + 1) /\ StopsBefore(t, p) = m
  BY TextLength DEF CommitAt, Begins, Ends
<1>2. a \in p..L /\ t[a] = Stop /\ StopsBefore(t, a) = m
  BY <1>1, SentenceCloses DEF Closes
<1>3. /\ u \in Text /\ Len(u) = (p - 1) + l + (L + 1 - e)
      /\ \A i \in 1..(p - 1) : u[i] = t[i]
      /\ \A i \in 1..l : u[p - 1 + i] = new[i]
      /\ \A i \in e..L : u[i + d] = t[i]
  BY <1>1 DEF Splices
<1> HIDE DEF new
<1>4. /\ l \in Nat /\ l > 0 /\ new[l] = Stop
      /\ \A i \in 1..(l - 1) : new[i] # Stop
  <2>1. Closed(new)
    BY DEF new
  <2> QED BY <2>1, TextLength DEF Closed
<1> HIDE DEF l, L, d, a
<1>5. a = e - 1 /\ d = Len(u) - L /\ Len(u) \in Nat
  BY <1>3, TextLength DEF a, d
<1>6. /\ d \in Int /\ a + d = p - 1 + l /\ a + d \in 1..Len(u) /\ a \in 1..L
      /\ Len(u) = L + d /\ l \in 1..l /\ p \in 1..(Len(u) + 1) /\ a + d \in 1..(Len(u) + 1)
      /\ p <= a + d /\ p - 1 \in Nat /\ p \in 1..((p - 1) + 1)
  BY <1>1, <1>2, <1>3, <1>4, <1>5
<1>7. u[a + d] = Stop
  BY <1>3, <1>4, <1>6
<1>8. \A i \in a..L : u[i + d] = t[i]
  <2>1. \A i \in a..L : i = a \/ i \in e..L
    BY <1>1, <1>5, <1>6
  <2> QED BY <1>2, <1>3, <1>7, <2>1
<1>9. StopsBefore(u, p) = m
  <2> DEFINE b == p - 1
  <2>1. b \in Nat /\ p \in 1..(b + 1) /\ \A i \in 1..b : u[i] = t[i]
    BY <1>3, <1>6
  <2> HIDE DEF b
  <2>2. StopsBefore(u, p) = StopsBefore(t, p)
    BY <2>1, SamePrefix
  <2> QED BY <1>1, <2>2
<1>10. ASSUME NEW i \in p..(a + d - 1) PROVE u[i] # Stop
  <2>1. i - (p - 1) \in 1..(l - 1) /\ i - (p - 1) \in 1..l /\ p - 1 + (i - (p - 1)) = i
    BY <1>1, <1>4, <1>6
  <2>2. u[i] = new[i - (p - 1)]
    BY <1>3, <2>1
  <2> QED BY <1>4, <2>1, <2>2
<1>11. StopsBefore(u, a + d) = m
  <2> DEFINE x == a + d
  <2>1. x \in 1..(Len(u) + 1) /\ p <= x /\ \A i \in p..(x - 1) : u[i] # Stop
    BY <1>6, <1>10
  <2> HIDE DEF x
  <2>2. StopsBefore(u, p) = StopsBefore(u, x)
    BY <1>3, <1>6, <2>1, StopsBeforeMonotone
  <2> QED BY <1>9, <2>2 DEF x
<1>12. Shifted(t, u, a, d)
  <2>1. StopsBefore(u, a + d) = StopsBefore(t, a)
    BY <1>2, <1>11
  <2>2. a \in 1..Len(t) /\ Len(u) = Len(t) + d /\ \A i \in a..Len(t) : u[i + d] = t[i]
    BY <1>6, <1>8 DEF L
  <2> QED BY <1>3, <1>6, <2>1, <2>2, ShiftedIs
<1> QED BY <1>12 DEF a, d, L

\* After a commit whose updates move no terminator, every other sentence has its
\* number and its text; those before the edited one in any case.
THEOREM OthersStay ==
    ASSUME NEW t \in Text, NEW n \in Int, NEW m \in Nat, m = IF n < 0 THEN 0 ELSE n,
           NEW ops \in Seq(WriteOp), Len(Words(Sentence(t, m))) <= MaxWords,
           \A j \in 1..Len(ops) : HarmlessOp(ops[j], Sentence(t, m)),
           NEW k \in 0..Stops(t), k # m
    PROVE  Sentence(commit_changes(t, n, ops), k) = Sentence(t, k)
<1> DEFINE u == commit_changes(t, n, ops)
<1>1. CASE get_nth_sentence(t, n).start = 0
  <2>1. u = t
    BY <1>1 DEF commit_changes
  <2> QED BY <2>1
<1>2. CASE get_nth_sentence(t, n).start # 0
  <2>1. /\ m <= Stops(t) /\ Stops(t) \in Nat
        /\ \E q, p, e \in Nat : CommitAt(t, n, m, ops, u, q, p, e)
    BY <1>2, CommitSplices, StopsType
  <2> HIDE DEF u
  <2>2. PICK q \in Nat, p \in Nat, e \in Nat : CommitAt(t, n, m, ops, u, q, p, e)
    BY <2>1
  <2> DEFINE new == Edited(SubSeq(t, p, e - 1), ops)
  <2>3. /\ Begins(t, m, q, p) /\ Ends(t, m, p, e) /\ new \in Text
        /\ Splices(u, t, p, new, e)
    BY <2>2 DEF CommitAt
  <2>4. SubSeq(t, p, e - 1) = Sentence(t, m)
    BY <2>3, SentencePlace DEF SentenceAt
  <2>5. PICK r \in Nat, a \in Nat, b \in Nat : Begins(t, k, r, a) /\ Ends(t, k, a, b)
    <3> DEFINE s == get_nth_sentence(t, k)
    <3>1. k \in Int /\ k \in Nat /\ k = (IF k < 0 THEN 0 ELSE k) /\ ~(k > Stops(t))
      BY <2>1
    <3>2. (\E x \in Nat : Begins(t, k, x, s.start)) /\ Ends(t, k, s.start, s.end)
      BY <3>1, SentenceFound
    <3> HIDE DEF s
    <3>3. s.start \in 1..(Len(t) + 1) /\ s.end \in s.start..(Len(t) + 1) /\ Len(t) \in Nat
      BY <3>2, TextLength DEF Begins, Ends
    <3>4. s.start \in Nat /\ s.end \in Nat
      BY <3>3
    <3> QED BY <3>2, <3>4
  <2>6. CASE k < m
    <3>1. /\ q > 0 /\ t[q] = Stop /\ StopsBefore(t, q) = m - 1
          /\ p \in 1..(Len(t) + 1) /\ q \in 0..(p - 1) /\ e \in p..(Len(t) + 1)
      BY <2>3, <2>6 DEF Begins, Ends
    <3>2. /\ u \in Text /\ Len(u) = (p - 1) + Len(new) + (Len(t) + 1 - e)
          /\ \A i \in 1..(p - 1) : u[i] = t[i]
      BY <2>3 DEF Splices
    <3> HIDE DEF new
    <3>3. Len(new) \in Nat /\ Len(t) \in Nat
      BY <2>3, TextLength
    <3>4. q \in 1..Len(t) /\ q <= Len(u) /\ \A i \in 1..q : i \in 1..(p - 1)
      BY <3>1, <3>2, <3>3
    <3>5. \A i \in 1..q : u[i] = t[i]
      BY <3>2, <3>4
    <3>6. k \in Nat
      OBVIOUS
    <3>7. AgreeUpTo(t, u, q, m)
      BY <3>1, <3>2, <3>4, <3>5 DEF AgreeUpTo
    <3>8. Sentence(u, k) = Sentence(t, k)
      BY <2>5, <2>6, <3>6, <3>7, PrefixSentence
    <3> QED BY <3>8 DEF u
  <2>7. CASE m < k
    <3>1. m < Stops(t) /\ k \in Nat /\ k > 0
      BY <2>1, <2>7
    <3>2. /\ e - 1 \in p..Len(t) /\ StopsBefore(t, e - 1) = m
          /\ Closed(Sentence(t, m))
      <4>1. /\ e - 1 \in p..Len(t) /\ StopsBefore(t, e - 1) = m
            /\ Closed(SubSeq(t, p, e - 1))
        BY <2>3, <3>1, SentenceCloses DEF Closes
      <4> QED BY <2>4, <4>1, Zenon
    <3>3. Closed(Edited(Sentence(t, m), ops))
      BY <3>2, EditedCloses
    <3>4. Closed(new)
      BY <2>4, <3>3
    <3> DEFINE d == Len(u) - Len(t)
               x == e - 1
    <3>5. Shifted(t, u, x, d)
      BY <2>2, <3>1, <3>4, CommitShifts
    <3>6. r \in 1..Len(t) /\ t[r] = Stop /\ StopsBefore(t, r) = k - 1
      <4>1. /\ a \in 1..(Len(t) + 1) /\ r \in 0..(a - 1) /\ r > 0 /\ t[r] = Stop
            /\ StopsBefore(t, r) = k - 1
        BY <2>5, <3>1 DEF Begins
      <4>2. Len(t) \in Nat
        BY TextLength
      <4> QED BY <4>1, <4>2
    <3>7. x \in 1..(Len(t) + 1) /\ x \in Nat /\ r \in Nat
      <4>1. p \in 1..(Len(t) + 1) /\ Len(t) \in Nat
        BY <2>3, TextLength DEF Begins
      <4> QED BY <3>2, <4>1
    <3>8. StopsBefore(t, x) = m
      BY <3>2
    <3> HIDE DEF d, x
    <3>9. x <= r
      <4> SUFFICES ASSUME r < x PROVE FALSE
        BY <3>7
      <4>1. StopsBefore(t, r) + 1 <= StopsBefore(t, x)
        BY <3>6, <3>7, StopsBeforeStrict
      <4>2. (k - 1) + 1 <= m
        BY <3>6, <3>8, <4>1
      <4> QED BY <2>7, <3>1, <4>2
    <3>10. Sentence(u, k) = Sentence(t, k)
      BY <2>5, <3>1, <3>5, <3>9, ShiftedSentence
    <3> QED BY <3>10 DEF u
  <2>8. k < m \/ m < k
    BY <2>1
  <2> QED BY <2>6, <2>7, <2>8
<1> QED BY <1>1, <1>2

=============================================================================
