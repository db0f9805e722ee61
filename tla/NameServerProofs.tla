-------------------------- MODULE NameServerProofs --------------------------
(***************************************************************************)
(* Proofs about NameServer, for all names, users, sessions, servers, heap  *)
(* blocks and cache sizes.  Inv is inductive; the theorems at the end      *)
(* follow from it.                                                         *)
(***************************************************************************)
EXTENDS NameServer, SequenceTheorems, TLAPS

-----------------------------------------------------------------------------
(* Hash table and cache *)

\* A lookup in the table finds the one listed record of that name, or nothing.
LEMMA TableLookup ==
    ASSUME TypeOK, TableMatchesList, NEW f \in Names
    PROVE  /\ ht_search(f) = NULL <=> table[f] = <<>>
           /\ ht_search(f) = NULL => ListedAs(heap, file_list, f) = {}
           /\ ht_search(f) # NULL =>
                /\ ht_search(f) \in file_list
                /\ heap[ht_search(f)].filename = f
                /\ ListedAs(heap, file_list, f) = {ht_search(f)}
  <1>1. CASE table[f] = <<>> /\ ListedAs(heap, file_list, f) = {}
    BY <1>1 DEF ht_search
  <1>2. CASE \E b \in Blocks : table[f] = <<b>> /\ ListedAs(heap, file_list, f) = {b}
    <2>1. PICK b \in Blocks : table[f] = <<b>> /\ ListedAs(heap, file_list, f) = {b}
      BY <1>2
    <2>2. ht_search(f) = b /\ b # NULL /\ table[f] # <<>>
      BY <2>1, ConstantsAssumption DEF ht_search
    <2>3. b \in file_list /\ heap[b].filename = f
      BY <2>1 DEF ListedAs
    <2> QED BY <2>1, <2>2, <2>3
  <1> QED BY <1>1, <1>2 DEF TableMatchesList

\* Moving a cached key to the front keeps the keys, each once.
LEMMA ToFront ==
    ASSUME TypeOK, CacheWellFormed, NEW k \in Names, lookup[k] # NULL
    PROVE  /\ to_front(k) \in Seq(Names)
           /\ Len(to_front(k)) = Len(lru)
           /\ \A i, j \in 1..Len(to_front(k)) :
                 to_front(k)[i] = to_front(k)[j] => i = j
           /\ \A n \in Names : (\E i \in 1..Len(to_front(k)) : to_front(k)[i] = n)
                               <=> \E i \in 1..Len(lru) : lru[i] = n
  <1> DEFINE p == CHOOSE i \in 1..Len(lru) : lru[i] = k
             L == Len(lru)
             a == SubSeq(lru, 1, p - 1)
             c == SubSeq(lru, p + 1, L)
             t == to_front(k)
  <1>1. lru \in Seq(Names) /\ L \in Nat
    BY DEF TypeOK
  <1>2. p \in 1..L /\ lru[p] = k
    BY DEF CacheWellFormed
  <1>3. /\ a \in Seq(Names) /\ Len(a) = p - 1
        /\ \A i \in 1..(p - 1) : a[i] = lru[i]
    BY <1>1, <1>2
  <1>4. /\ c \in Seq(Names) /\ Len(c) = L - p
        /\ \A i \in 1..(L - p) : c[i] = lru[p + i]
    BY <1>1, <1>2
  <1>5. t = <<k>> \o (a \o c)
    BY DEF to_front, detach_node
  <1>6. /\ t \in Seq(Names) /\ Len(t) = L
        /\ t[1] = k
        /\ \A i \in 2..p : t[i] = lru[i - 1]
        /\ \A i \in (p + 1)..L : t[i] = lru[i]
    <2> HIDE DEF a, c, t, p, L
    <2>1. a \o c \in Seq(Names) /\ Len(a \o c) = L - 1
      <3>1. a \o c \in Seq(Names) /\ Len(a \o c) = Len(a) + Len(c)
        BY ConcatProperties, <1>3, <1>4
      <3> QED BY <3>1, <1>1, <1>2, <1>3, <1>4
    <2>2. t \in Seq(Names) /\ Len(t) = L /\ t[1] = k
      BY ConcatProperties, <2>1, <1>1, <1>2, <1>5
    <2>3. \A i \in 1..(L - 1) : t[i + 1] = (a \o c)[i]
      BY ConcatProperties, <2>1, <1>1, <1>2, <1>5
    <2>4. \A i \in 1..(p - 1) : (a \o c)[i] = lru[i]
      BY ConcatProperties, <1>1, <1>2, <1>3, <1>4
    <2>5. \A i \in p..(L - 1) : (a \o c)[i] = lru[i + 1]
      <3> TAKE i \in p..(L - 1)
      <3>1. (a \o c)[i] = c[i - (p - 1)]
        <4>1. i \in (Len(a) + 1)..(Len(a) + Len(c)) /\ i - Len(a) = i - (p - 1)
          BY <1>1, <1>2, <1>3, <1>4
        <4>2. (a \o c)[i] = c[i - Len(a)]
          BY ConcatProperties, <1>3, <1>4, <4>1
        <4> QED BY <4>1, <4>2
      <3>2. i - (p - 1) \in 1..(L - p) /\ p + (i - (p - 1)) = i + 1
        BY <1>1, <1>2
      <3> QED BY <3>1, <3>2, <1>4
    <2>6. \A i \in 2..p : t[i] = lru[i - 1]
      <3> TAKE i \in 2..p
      <3>1. i - 1 \in 1..(L - 1) /\ i - 1 \in 1..(p - 1) /\ (i - 1) + 1 = i
        BY <1>1, <1>2
      <3> QED BY <3>1, <2>3, <2>4
    <2>7. \A i \in (p + 1)..L : t[i] = lru[i]
      <3> TAKE i \in (p + 1)..L
      <3>1. i - 1 \in 1..(L - 1) /\ i - 1 \in p..(L - 1) /\ (i - 1) + 1 = i
        BY <1>1, <1>2
      <3> QED BY <3>1, <2>3, <2>5
    <2> QED BY <2>2, <2>6, <2>7
  <1>7. \A i, j \in 1..L : lru[i] = lru[j] => i = j
    BY DEF CacheWellFormed
  <1>8. \A i, j \in 1..L : t[i] = t[j] => i = j
    <2> HIDE DEF a, c, t, p, L
    <2> DEFINE q(i) == IF i = 1 THEN p ELSE IF i \in 2..p THEN i - 1 ELSE i
    <2>1. \A i \in 1..L : q(i) \in 1..L /\ t[i] = lru[q(i)]
      BY <1>1, <1>2, <1>6
    <2>2. \A i, j \in 1..L : q(i) = q(j) => i = j
      BY <1>1, <1>2
    <2> HIDE DEF q
    <2> QED BY <2>1, <2>2, <1>7
  <1>9. \A n \in Names : (\E i \in 1..L : t[i] = n) <=> \E i \in 1..L : lru[i] = n
    <2> HIDE DEF a, c, t, p, L
    <2> TAKE n \in Names
    <2>1. ASSUME NEW i \in 1..L, t[i] = n PROVE \E j \in 1..L : lru[j] = n
      <3>1. CASE i = 1
        BY <3>1, <2>1, <1>2, <1>6
      <3>2. CASE i \in 2..p
        <4>1. i - 1 \in 1..L /\ t[i] = lru[i - 1]
          BY <3>2, <1>1, <1>2, <1>6
        <4> QED BY <4>1, <2>1
      <3>3. CASE i \in (p + 1)..L
        BY <3>3, <2>1, <1>6
      <3> QED BY <3>1, <3>2, <3>3, <1>1, <1>2
    <2>2. ASSUME NEW i \in 1..L, lru[i] = n PROVE \E j \in 1..L : t[j] = n
      <3>1. CASE i = p
        <4>1. 1 \in 1..L /\ t[1] = n
          BY <3>1, <2>2, <1>1, <1>2, <1>6
        <4> QED BY <4>1
      <3>2. CASE i \in 1..(p - 1)
        <4>1. i + 1 \in 1..L /\ i + 1 \in 2..p /\ (i + 1) - 1 = i
          BY <3>2, <1>1, <1>2
        <4>2. t[i + 1] = n
          BY <4>1, <2>2, <1>6
        <4> QED BY <4>1, <4>2
      <3>3. CASE i \in (p + 1)..L
        BY <3>3, <2>2, <1>6
      <3> QED BY <3>1, <3>2, <3>3, <1>1, <1>2
    <2> QED BY <2>1, <2>2
  <1> QED BY <1>6, <1>8, <1>9

\* find_file keeps the cache well formed and in agreement with the table, and
\* leaves it alone when it finds nothing.
LEMMA FindFile ==
    ASSUME TypeOK, TableMatchesList, CacheWellFormed, CacheAgreesWithTable,
           NEW f \in Names, find_file(f)
    PROVE  /\ lookup' \in [Names -> Blocks \cup {NULL}]
           /\ lru' \in Seq(Names)
           /\ CacheWellFormed'
           /\ \A n \in Names : table[n] # <<>> /\ lookup'[n] # NULL =>
                                  lookup'[n] = ht_search(n)
           /\ Found(f) = NULL => lookup'[f] = NULL
  <1>1. CASE lookup[f] # NULL
    <2>1. lru' = to_front(f) /\ lookup' = lookup
      BY <1>1 DEF find_file
    <2>2. CacheWellFormed'
      BY <2>1, <1>1, ToFront DEF CacheWellFormed
    <2>3. lru' \in Seq(Names)
      BY <2>1, <1>1, ToFront
    <2> QED BY <2>1, <2>2, <2>3, <1>1 DEF TypeOK, CacheAgreesWithTable, Found
  <1>2. CASE lookup[f] = NULL /\ ht_search(f) = NULL
    <2>1. lru' = lru /\ lookup' = lookup
      BY <1>2 DEF find_file, cache
    <2> QED BY <2>1, <1>2 DEF TypeOK, CacheAgreesWithTable, CacheWellFormed
  <1>3. CASE lookup[f] = NULL /\ ht_search(f) # NULL
    <2> DEFINE L == Len(lru)
               e == IF evicted = {} THEN lru ELSE SubSeq(lru, 1, L - 1)
               M == Len(e)
    <2>1. heap[ht_search(f)].filename = f /\ ht_search(f) \in Blocks
      BY <1>3, TableLookup DEF TypeOK
    <2>2. /\ lru' = <<f>> \o e
          /\ lookup' = [n \in Names |-> IF n = f THEN ht_search(f)
                                        ELSE IF n \in evicted THEN NULL
                                        ELSE lookup[n]]
      BY <1>3, <2>1 DEF find_file, lru_put
    <2>3. lru \in Seq(Names) /\ L \in Nat /\ CacheSize \in Nat \ {0} /\ L <= CacheSize
      BY ConstantsAssumption DEF TypeOK, CacheWellFormed
    <2>4. \A i \in 1..L : lru[i] # f
      BY <1>3, <2>3 DEF CacheWellFormed
    <2>5. /\ e \in Seq(Names) /\ M \in Nat /\ M < CacheSize /\ M <= L
          /\ \A i \in 1..M : e[i] = lru[i]
      <3>1. CASE L = CacheSize
        <4>1. evicted = {lru[L]} /\ e = SubSeq(lru, 1, L - 1)
          BY <3>1 DEF evicted
        <4> HIDE DEF e, L
        <4>2. L - 1 \in Nat /\ \A i \in 1..(L - 1) : lru[i] \in Names
          BY <3>1, <2>3 DEF L
        <4>3. /\ e \in Seq(Names) /\ Len(e) = L - 1
              /\ \A i \in 1..(L - 1) : e[i] = lru[i]
          <5>1. /\ SubSeq(lru, 1, L - 1) \in Seq(Names)
                /\ Len(SubSeq(lru, 1, L - 1)) = IF 1 <= L - 1 THEN L - 1 - 1 + 1 ELSE 0
                /\ \A i \in 1..(L - 1 - 1 + 1) : SubSeq(lru, 1, L - 1)[i] = lru[1 + i - 1]
            BY <4>2, SubSeqProperties
          <5> QED BY <5>1, <4>1, <4>2, <2>3
        <4> QED BY <4>3, <3>1, <2>3
      <3>2. CASE L # CacheSize
        <4>1. e = lru
          BY <3>2 DEF evicted
        <4> QED BY <4>1, <3>2, <2>3
      <3> QED BY <3>1, <3>2
    <2>6. \A n \in Names : n \in evicted <=>
             L = CacheSize /\ n = lru[L]
      BY DEF evicted
    <2>7. \A n \in Names : (\E i \in 1..M : e[i] = n) <=>
             (\E i \in 1..L : lru[i] = n) /\ n \notin evicted
      <3>1. CASE L = CacheSize
        <4>1. M = L - 1
          BY <3>1, <2>3 DEF evicted
        <4>2. \A i \in 1..L : lru[i] = lru[L] <=> i = L
          BY <2>3, <3>1 DEF CacheWellFormed
        <4> HIDE DEF e, M, L
        <4> QED BY <4>1, <4>2, <3>1, <2>3, <2>5, <2>6
      <3>2. CASE L # CacheSize
        BY <3>2, <2>6 DEF evicted
      <3> QED BY <3>1, <3>2
    <2> HIDE DEF e, M, L
    <2>8. /\ lru' \in Seq(Names) /\ Len(lru') = M + 1
          /\ lru'[1] = f /\ \A i \in 2..(M + 1) : lru'[i] = e[i - 1]
      <3>1. <<f>> \in Seq(Names) /\ Len(<<f>>) = 1 /\ <<f>>[1] = f
        OBVIOUS
      <3>2. /\ lru' \in Seq(Names) /\ Len(lru') = 1 + Len(e)
            /\ \A i \in 1..(1 + Len(e)) :
                  lru'[i] = IF i <= 1 THEN <<f>>[i] ELSE e[i - 1]
        BY <3>1, <2>2, <2>5, ConcatProperties
      <3>3. Len(e) = M
        BY DEF M
      <3> QED BY <3>1, <3>2, <3>3, <2>5
    <2>9. CacheWellFormed'
      <3>1. Len(lru') <= CacheSize
        BY <2>3, <2>5, <2>8
      <3>2. \A i, j \in 1..Len(lru') : lru'[i] = lru'[j] => i = j
        <4>1. \A i, j \in 1..L : lru[i] = lru[j] => i = j
          BY DEF CacheWellFormed, L
        <4>2. \A i \in 2..(M + 1) : i - 1 \in 1..L /\ lru'[i] = lru[i - 1]
          BY <2>3, <2>5, <2>8
        <4>3. \A i \in 2..(M + 1) : lru'[i] # lru'[1]
          BY <4>2, <2>4, <2>8
        <4>4. ASSUME NEW i \in 2..(M + 1), NEW j \in 2..(M + 1), lru'[i] = lru'[j]
              PROVE  i = j
          <5>1. i - 1 = j - 1
            BY <4>1, <4>2, <4>4
          <5> QED BY <5>1, <2>5
        <4> QED BY <4>3, <4>4, <2>5, <2>8
      <3>3. \A n \in Names : (\E i \in 1..Len(lru') : lru'[i] = n) <=>
                             n = f \/ \E i \in 1..M : e[i] = n
        <4> TAKE n \in Names
        <4>1. ASSUME NEW i \in 1..M, e[i] = n PROVE \E j \in 1..Len(lru') : lru'[j] = n
          <5>1. i + 1 \in 2..(M + 1) /\ i + 1 \in 1..Len(lru') /\ (i + 1) - 1 = i
            BY <2>5, <2>8
          <5> QED BY <5>1, <4>1, <2>8
        <4>2. ASSUME NEW i \in 1..Len(lru'), lru'[i] = n, n # f
              PROVE  \E j \in 1..M : e[j] = n
          <5>1. i \in 2..(M + 1) /\ i - 1 \in 1..M
            BY <4>2, <2>5, <2>8
          <5> QED BY <5>1, <4>2, <2>8
        <4>3. 1 \in 1..Len(lru')
          BY <2>5, <2>8
        <4> QED BY <4>1, <4>2, <4>3, <2>8
      <3>4. \A n \in Names : lookup[n] # NULL <=> \E i \in 1..L : lru[i] = n
        BY DEF CacheWellFormed, L
      <3>5. \A n \in Names : lookup'[n] # NULL <=> \E i \in 1..Len(lru') : lru'[i] = n
        BY <3>3, <3>4, <2>2, <2>7, <1>3
      <3> QED BY <3>1, <3>2, <3>5 DEF CacheWellFormed
    <2>10. lookup' \in [Names -> Blocks \cup {NULL}]
      BY <2>1, <2>2 DEF TypeOK
    <2>11. \A n \in Names : table[n] # <<>> /\ lookup'[n] # NULL =>
                              lookup'[n] = ht_search(n)
      BY <2>2 DEF CacheAgreesWithTable
    <2>12. Found(f) # NULL
      BY <1>3 DEF Found
    <2> QED BY <2>8, <2>9, <2>10, <2>11, <2>12
  <1> QED BY <1>1, <1>2, <1>3

-----------------------------------------------------------------------------
(* Records and the files on disk *)

\* No two listed records have the same name.
LEMMA UniqueNames ==
    ASSUME ListedComplete, TableMatchesList,
           NEW b \in file_list, NEW c \in file_list,
           heap[b].filename = heap[c].filename
    PROVE  b = c
  <1> DEFINE f == heap[b].filename
  <1>1. f \in Names /\ b \in ListedAs(heap, file_list, f)
                    /\ c \in ListedAs(heap, file_list, f)
    BY DEF ListedComplete, ListedAs
  <1>2. \E d \in Blocks : ListedAs(heap, file_list, f) = {d}
    BY <1>1 DEF TableMatchesList
  <1> QED BY <1>1, <1>2

\* A complete record makes a well-typed line.
LEMMA LineOfType ==
    ASSUME NEW r \in FileMetadata, r.owner \in Owners, r.ss \in Servers
    PROVE  LineOf(r) \in MetadataLine
  <1>1. r.access \in [Owners -> Perms]
    BY DEF FileMetadata
  <1>2. [r.access EXCEPT ![r.owner] = "-"] \in [Owners -> Perms]
    BY <1>1 DEF Perms
  <1> QED BY <1>2 DEF LineOf, MetadataLine

\* save_metadata writes, for every record on the list it is given, the line
\* and the note of that record.
LEMMA SaveMetadata ==
    ASSUME TypeOK, NEW h \in [Blocks -> FileMetadata], NEW l \in SUBSET Blocks,
           \A b \in l : /\ h[b].filename \in Names
                        /\ h[b].owner \in Owners
                        /\ h[b].ss \in Servers,
           \A b, c \in l : h[b].filename = h[c].filename => b = c,
           save_metadata(h, l)
    PROVE  /\ disk' \in DiskType
           /\ \A b \in l : /\ disk'.files[h[b].filename] = LineOf(h[b])
                           /\ disk'.notes[h[b].filename] = h[b].annotation
  <1> DEFINE S(f) == ListedAs(h, l, f)
             w(f) == CHOOSE b \in S(f) : TRUE
             F == [f \in Names |-> IF S(f) = {} THEN NULL ELSE LineOf(h[w(f)])]
             N == [f \in Names |-> IF S(f) = {} THEN NULL ELSE h[w(f)].annotation]
  <1>1. disk' = [users |-> users, files |-> F, notes |-> N]
    BY DEF save_metadata
  <1>2. \A f \in Names : S(f) # {} => w(f) \in l /\ h[w(f)].filename = f
    BY DEF ListedAs
  <1>3. \A f \in Names : S(f) # {} => LineOf(h[w(f)]) \in MetadataLine
    BY <1>2, LineOfType
  <1>4. \A f \in Names : S(f) # {} => h[w(f)].annotation \in Notes \cup {NULL}
    BY <1>2 DEF FileMetadata
  <1>5. ASSUME NEW b \in l
        PROVE  S(h[b].filename) # {} /\ w(h[b].filename) = b
    <2>1. h[b].filename \in Names /\ b \in S(h[b].filename)
      BY <1>5 DEF ListedAs
    <2> QED BY <2>1, <1>2, <1>5
  <1> HIDE DEF S, w
  <1>6. F \in [Names -> MetadataLine \cup {NULL}]
    BY <1>3
  <1>7. N \in [Names -> Notes \cup {NULL}]
    BY <1>4
  <1>8. \A b \in l : F[h[b].filename] = LineOf(h[b]) /\ N[h[b].filename] = h[b].annotation
    BY <1>5
  <1> HIDE DEF F, N
  <1>9. disk' \in DiskType
    BY <1>1, <1>6, <1>7 DEF DiskType, TypeOK
  <1> QED BY <1>1, <1>8, <1>9

\* Adding a record under a name that find_file does not know.
LEMMA AddRecord ==
    ASSUME Inv, NEW f \in Names, Found(f) = NULL, find_file(f),
           NEW b \in Blocks \ file_list, NEW r \in FileMetadata,
           r.filename = f, r.owner \in Owners, r.ss \in Servers, Add(b, r)
    PROVE  /\ heap' \in [Blocks -> FileMetadata]
           /\ file_list' \in SUBSET Blocks
           /\ table' \in [Names -> Seq(Blocks)]
           /\ lookup' \in [Names -> Blocks \cup {NULL}]
           /\ lru' \in Seq(Names)
           /\ ListedComplete'
           /\ TableMatchesList'
           /\ CacheWellFormed'
           /\ CacheAgreesWithTable'
           /\ \A c \in file_list : heap'[c] = heap[c]
           /\ heap'[b] = r
  <1> USE DEF Inv
  <1>1. /\ heap' = [heap EXCEPT ![b] = r]
        /\ file_list' = file_list \cup {b}
        /\ table' = [table EXCEPT ![f] = <<b>> \o table[f]]
    BY DEF Add, ht_insert, TypeOK
  <1>2. lookup[f] = NULL /\ ht_search(f) = NULL
    BY DEF Found
  <1>3. table[f] = <<>> /\ ListedAs(heap, file_list, f) = {}
    BY <1>2, TableLookup
  <1>4. <<b>> \o table[f] = <<b>>
    BY <1>3
  <1>5. table' = [table EXCEPT ![f] = <<b>>]
    BY <1>1, <1>4
  <1>6. /\ heap' \in [Blocks -> FileMetadata]
        /\ file_list' \in SUBSET Blocks
        /\ table' \in [Names -> Seq(Blocks)]
    BY <1>1, <1>5 DEF TypeOK
  <1>7. heap'[b] = r /\ \A c \in file_list : heap'[c] = heap[c]
    BY <1>1 DEF TypeOK
  <1>8. ListedComplete'
    BY <1>1, <1>7 DEF ListedComplete
  <1>9. ASSUME NEW n \in Names, n # f
        PROVE  /\ table'[n] = table[n]
               /\ ListedAs(heap', file_list', n) = ListedAs(heap, file_list, n)
    <2>1. table'[n] = table[n]
      BY <1>5, <1>9 DEF TypeOK
    <2>2. ListedAs(heap', file_list', n) = ListedAs(heap, file_list, n)
      BY <1>1, <1>7, <1>9 DEF ListedAs
    <2> QED BY <2>1, <2>2
  <1>10. table'[f] = <<b>> /\ ListedAs(heap', file_list', f) = {b}
    <2>1. table'[f] = <<b>>
      BY <1>5 DEF TypeOK
    <2>2. ListedAs(heap', file_list', f) = {b}
      BY <1>1, <1>3, <1>7 DEF ListedAs
    <2> QED BY <2>1, <2>2
  <1>11. TableMatchesList'
    BY <1>9, <1>10 DEF TableMatchesList
  <1>12. /\ lookup' \in [Names -> Blocks \cup {NULL}]
         /\ lru' \in Seq(Names)
         /\ CacheWellFormed'
         /\ \A n \in Names : table[n] # <<>> /\ lookup'[n] # NULL =>
                                lookup'[n] = ht_search(n)
         /\ lookup'[f] = NULL
    BY FindFile
  <1>13. CacheAgreesWithTable'
    BY <1>9, <1>12 DEF CacheAgreesWithTable, ht_search
  <1> QED BY <1>6, <1>7, <1>8, <1>11, <1>12, <1>13

-----------------------------------------------------------------------------
(* Kinds of steps *)

\* The cache is left alone or find_file runs once, on an unchanged table.
LEMMA CacheStep ==
    ASSUME Inv, table' = table, UNCHANGED cache \/ \E f \in Names : find_file(f)
    PROVE  /\ lookup' \in [Names -> Blocks \cup {NULL}]
           /\ lru' \in Seq(Names)
           /\ CacheWellFormed'
           /\ CacheAgreesWithTable'
  <1> USE DEF Inv
  <1>1. CASE UNCHANGED cache
    BY <1>1 DEF cache, TypeOK, CacheWellFormed, CacheAgreesWithTable, ht_search
  <1>2. CASE \E f \in Names : find_file(f)
    <2>1. PICK f \in Names : find_file(f)
      BY <1>2
    <2>2. /\ lookup' \in [Names -> Blocks \cup {NULL}]
          /\ lru' \in Seq(Names)
          /\ CacheWellFormed'
          /\ \A n \in Names : table[n] # <<>> /\ lookup'[n] # NULL =>
                                 lookup'[n] = ht_search(n)
      BY <2>1, FindFile
    <2> QED BY <2>2 DEF CacheAgreesWithTable, ht_search
  <1> QED BY <1>1, <1>2

\* What find_file returns is a block or NULL, and for a file that is listed it
\* is the listed record.
LEMMA FoundType ==
    ASSUME Inv, NEW f \in Names
    PROVE  /\ Found(f) \in Blocks \cup {NULL}
           /\ \A b \in ListedAs(heap, file_list, f) : Found(f) = b
  <1> USE DEF Inv
  <1>1. ht_search(f) \in Blocks \cup {NULL}
    BY TableLookup DEF TypeOK
  <1>2. ASSUME NEW b \in ListedAs(heap, file_list, f) PROVE Found(f) = b
    <2>1. ht_search(f) = b /\ ht_search(f) # NULL
      BY TableLookup, <1>2
    <2>2. table[f] # <<>>
      BY <2>1, TableLookup
    <2> QED BY <2>1, <2>2 DEF Found, CacheAgreesWithTable
  <1> QED BY <1>1, <1>2 DEF Found, TypeOK

\* One session moves; the records, the table, the files and the mutex stay.
LEMMA SessionStep ==
    ASSUME Inv, UNCHANGED <<heap, file_list, table, disk, mutex>>,
           UNCHANGED cache \/ \E f \in Names : find_file(f),
           NEW s \in Sessions, NEW x \in Session, sess' = [sess EXCEPT ![s] = x],
           x.pc = "idle" => x.user \in Users,
           x.pc \in {"call", "direct", "write", "meta"} => x.file \in Names,
           mutex = s => /\ x.pc = "call"
                        /\ x.req = "DELETE"
                        /\ x.user = sess[s].user
                        /\ x.file = sess[s].file,
           mutex # s => ~(x.pc = "call" /\ x.req = "DELETE" /\ x.user # NULL),
           users' \in SUBSET Users, ss_list' \in Seq(Servers),
           todo' \in SUBSET Names, ss_up' \in [Servers -> BOOLEAN],
           phys' \in [Servers -> SUBSET Names], chk' \in [Servers -> SUBSET Names]
    PROVE  Inv'
  <1> USE DEF Inv
  <1>1. /\ lookup' \in [Names -> Blocks \cup {NULL}]
        /\ lru' \in Seq(Names)
        /\ CacheWellFormed'
        /\ CacheAgreesWithTable'
    BY CacheStep
  <1>2. sess' \in [Sessions -> Session]
    BY DEF TypeOK
  <1>3. sess'[s] = x /\ \A t \in Sessions \ {s} : sess'[t] = sess[t]
    BY DEF TypeOK
  <1>4. TypeOK'
    BY <1>1, <1>2 DEF TypeOK
  <1>5. ListedComplete' /\ TableMatchesList'
    BY DEF ListedComplete, TableMatchesList, ListedAs
  <1>6. SessionsComplete'
    BY <1>3 DEF SessionsComplete
  <1>7. DeleterHoldsMutex'
    BY <1>3 DEF DeleterHoldsMutex
  <1>8. DeleterOwnsFile'
    <2> SUFFICES ASSUME NEW t \in Sessions, mutex = t,
                        NEW b \in ListedAs(heap, file_list, sess'[t].file)
                 PROVE  heap[b].owner = sess'[t].user
      BY DEF DeleterOwnsFile, ListedAs
    <2>1. sess'[t].file = sess[t].file /\ sess'[t].user = sess[t].user
      BY <1>3
    <2> QED BY <2>1 DEF DeleterOwnsFile
  <1>9. SavedMetadataIsCurrent'
    BY DEF SavedMetadataIsCurrent
  <1> QED BY <1>1, <1>4, <1>5, <1>6, <1>7, <1>8, <1>9

\* The same, for a handler that does not move its session.
LEMMA LookupStep ==
    ASSUME Inv, NEW f \in Names, find_file(f),
           UNCHANGED <<heap, index, users, ss_list, disk, mutex, todo, sess, remote>>
    PROVE  Inv'
  <1> USE DEF Inv
  <1>1. /\ lookup' \in [Names -> Blocks \cup {NULL}]
        /\ lru' \in Seq(Names)
        /\ CacheWellFormed'
        /\ CacheAgreesWithTable'
    BY CacheStep DEF index
  <1>2. TypeOK'
    BY <1>1 DEF TypeOK, index, remote
  <1>3. ListedComplete' /\ TableMatchesList'
    BY DEF ListedComplete, TableMatchesList, ListedAs, index
  <1>4. SessionsComplete' /\ DeleterHoldsMutex'
    BY DEF SessionsComplete, DeleterHoldsMutex
  <1>5. DeleterOwnsFile'
    BY DEF DeleterOwnsFile, ListedAs, index
  <1>6. SavedMetadataIsCurrent'
    BY DEF SavedMetadataIsCurrent, index
  <1> QED BY <1>1, <1>2, <1>3, <1>4, <1>5, <1>6

\* A handler that holds the mutex rewrites one record, leaving its name, owner
\* and server, and saves, or has changed nothing that is saved.
LEMMA RecordStep ==
    ASSUME Inv, mutex = NULL, NEW f \in Names, find_file(f),
           NEW c \in Blocks, NEW r \in FileMetadata,
           r.filename = heap[c].filename, r.owner = heap[c].owner,
           r.ss = heap[c].ss,
           heap' = [heap EXCEPT ![c] = r],
           \/ save_metadata(heap', file_list)
           \/ /\ disk' = disk
              /\ r.access = heap[c].access
              /\ r.annotation = heap[c].annotation,
           UNCHANGED <<index, users, ss_list, mutex, todo, sess, remote>>
    PROVE  Inv'
  <1> USE DEF Inv
  <1>1. /\ lookup' \in [Names -> Blocks \cup {NULL}]
        /\ lru' \in Seq(Names)
        /\ CacheWellFormed'
        /\ CacheAgreesWithTable'
    BY CacheStep DEF index
  <1>2. heap' \in [Blocks -> FileMetadata]
    BY DEF TypeOK
  <1>3. \A b \in Blocks : /\ heap'[b].filename = heap[b].filename
                          /\ heap'[b].owner = heap[b].owner
                          /\ heap'[b].ss = heap[b].ss
    BY DEF TypeOK
  <1>4. file_list \subseteq Blocks /\ file_list' = file_list /\ table' = table
    BY DEF TypeOK, index
  <1>5. ListedComplete'
    BY <1>3, <1>4 DEF ListedComplete
  <1>6. \A n \in Names : ListedAs(heap', file_list, n) = ListedAs(heap, file_list, n)
    BY <1>3, <1>4 DEF ListedAs
  <1>7. TableMatchesList'
    BY <1>4, <1>6 DEF TableMatchesList
  <1>8. disk' \in DiskType /\ SavedMetadataIsCurrent'
    <2>1. CASE save_metadata(heap', file_list)
      <3>1. \A b \in file_list : /\ heap'[b].filename \in Names
                                 /\ heap'[b].owner \in Owners
                                 /\ heap'[b].ss \in Servers
        BY <1>3, <1>4 DEF ListedComplete
      <3>2. \A b, d \in file_list : heap'[b].filename = heap'[d].filename => b = d
        BY <1>3, <1>4, UniqueNames
      <3>3. /\ disk' \in DiskType
            /\ \A b \in file_list :
                  /\ disk'.files[heap'[b].filename] = LineOf(heap'[b])
                  /\ disk'.notes[heap'[b].filename] = heap'[b].annotation
        BY <2>1, <3>1, <3>2, <1>2, <1>4, SaveMetadata
      <3> QED BY <3>3, <1>4 DEF SavedMetadataIsCurrent
    <2>2. CASE /\ disk' = disk
               /\ r.access = heap[c].access
               /\ r.annotation = heap[c].annotation
      <3>1. \A b \in Blocks : /\ heap'[b].access = heap[b].access
                              /\ heap'[b].annotation = heap[b].annotation
        BY <2>2 DEF TypeOK
      <3>2. \A b \in file_list : LineOf(heap'[b]) = LineOf(heap[b])
        BY <3>1, <1>3, <1>4 DEF LineOf
      <3>3. disk' \in DiskType
        BY <2>2 DEF TypeOK
      <3> QED BY <2>2, <3>1, <3>2, <3>3, <1>3, <1>4 DEF SavedMetadataIsCurrent
    <2> QED BY <2>1, <2>2
  <1>9. TypeOK'
    BY <1>1, <1>2, <1>4, <1>8 DEF TypeOK, remote
  <1>10. SessionsComplete' /\ DeleterHoldsMutex'
    BY DEF SessionsComplete, DeleterHoldsMutex
  <1>11. DeleterOwnsFile'
    BY ConstantsAssumption DEF DeleterOwnsFile
  <1> QED BY <1>1, <1>5, <1>7, <1>8, <1>9, <1>10, <1>11

-----------------------------------------------------------------------------
(* The invariant holds initially and after a restart *)

\* A block that was never used has the type of a record.
LEMMA ZeroedType == Zeroed \in FileMetadata
  BY DEF Zeroed, FileMetadata, NoAccess, Perms

\* A session without connection has the type of a session.
LEMMA OffType == Off \in Session
  BY DEF Off, Session, Requests

\* The invariant holds when the name server has started.
LEMMA InitInv == Init => Inv
  <1> SUFFICES ASSUME Init PROVE Inv
    OBVIOUS
  <1> USE DEF Init
  <1>1. heap \in [Blocks -> FileMetadata]
    BY ZeroedType
  <1>2. sess \in [Sessions -> Session]
    BY OffType
  <1>3. disk \in DiskType
    BY DEF DiskType
  <1>4. TypeOK
    BY <1>1, <1>2, <1>3 DEF TypeOK
  <1>5. ListedComplete /\ TableMatchesList /\ SavedMetadataIsCurrent
    BY DEF ListedComplete, TableMatchesList, ListedAs, SavedMetadataIsCurrent
  <1>6. CacheWellFormed /\ CacheAgreesWithTable
    BY ConstantsAssumption DEF CacheWellFormed, CacheAgreesWithTable
  <1>7. SessionsComplete /\ DeleterHoldsMutex /\ DeleterOwnsFile
    BY ConstantsAssumption
       DEF SessionsComplete, DeleterHoldsMutex, DeleterOwnsFile, Off
  <1> QED BY <1>4, <1>5, <1>6, <1>7 DEF Inv

\* A restart forgets everything but the users, so what is left on disk needs no
\* more than its type.
LEMMA RestartInv ==
    ASSUME Inv, NEW d \in DiskType, Restart(d)
    PROVE  Inv'
  <1> USE DEF Inv, Restart
  <1> DEFINE Cut(s) == IF sess[s].pc \in {"call", "direct", "write"}
                       THEN [sess[s] EXCEPT !.user = NULL]
                       ELSE Off
  <1>1. heap' \in [Blocks -> FileMetadata]
    BY ZeroedType
  <1>2. \A s \in Sessions : Cut(s) \in Session
    BY OffType DEF TypeOK, Session
  <1>3. sess' \in [Sessions -> Session]
    BY <1>2
  <1>4. d.users \subseteq Users
    BY DEF DiskType
  <1>5. ss_up' \in [Servers -> BOOLEAN]
    BY DEF TypeOK
  <1>6. TypeOK'
    BY <1>1, <1>3, <1>4, <1>5 DEF TypeOK
  <1>7. (ListedComplete /\ TableMatchesList /\ SavedMetadataIsCurrent)'
    BY DEF ListedComplete, TableMatchesList, ListedAs, SavedMetadataIsCurrent
  <1>8. (CacheWellFormed /\ CacheAgreesWithTable)'
    BY ConstantsAssumption DEF CacheWellFormed, CacheAgreesWithTable
  <1>9. \A s \in Sessions : sess'[s] = Cut(s)
    OBVIOUS
  <1>10. \A s \in Sessions : Cut(s).pc # "idle" /\ Cut(s).user = NULL
    BY DEF Off, TypeOK, Session
  <1>11. \A s \in Sessions : Cut(s).pc \in {"call", "direct", "write", "meta"} =>
                             Cut(s).file \in Names
    BY DEF Off, TypeOK, Session, SessionsComplete
  <1>13. (SessionsComplete /\ DeleterHoldsMutex)'
    BY <1>9, <1>10, <1>11, ConstantsAssumption DEF SessionsComplete, DeleterHoldsMutex
  <1>12. DeleterOwnsFile'
    BY ConstantsAssumption DEF DeleterOwnsFile
  <1> QED BY <1>6, <1>7, <1>8, <1>12, <1>13

-----------------------------------------------------------------------------
(* Every action preserves the invariant *)

\* The records the session helpers build.
LEMMA SessionHelpers ==
    ASSUME Inv, NEW s \in Sessions
    PROVE  /\ Idle(s) \in Session
           /\ Idle(s).pc = "idle" /\ Idle(s).user = sess[s].user
           /\ Idle(s).req = "none"
           /\ Back(s) \in Session
           /\ Back(s).pc # "call"
           /\ Back(s).pc = "idle" => Back(s).user \in Users
           /\ \A pc \in {"call", "direct", "write"}, r \in Requests, f \in Names,
                 d \in Servers \cup {NULL} :
                 /\ Waiting(s, pc, r, f, d) \in Session
                 /\ Waiting(s, pc, r, f, d).pc = pc
                 /\ Waiting(s, pc, r, f, d).req = r
                 /\ Waiting(s, pc, r, f, d).file = f
                 /\ Waiting(s, pc, r, f, d).user = sess[s].user
  <1>1. sess[s] \in Session
    BY DEF Inv, TypeOK
  <1>2. /\ Idle(s) \in Session
        /\ Idle(s).pc = "idle" /\ Idle(s).user = sess[s].user
        /\ Idle(s).req = "none"
    BY <1>1 DEF Idle, Session, Requests
  <1>3. /\ Back(s) \in Session
        /\ Back(s).pc # "call"
        /\ Back(s).pc = "idle" => Back(s).user \in Users
    <2>1. CASE sess[s].user = NULL
      BY <2>1, OffType DEF Back, Off
    <2>2. CASE sess[s].user # NULL
      BY <2>2, <1>1, <1>2 DEF Back, Session
    <2> QED BY <2>1, <2>2
  <1>4. ASSUME NEW pc \in {"call", "direct", "write"}, NEW r \in Requests,
               NEW f \in Names, NEW d \in Servers \cup {NULL}
        PROVE  /\ Waiting(s, pc, r, f, d) \in Session
               /\ Waiting(s, pc, r, f, d).pc = pc
               /\ Waiting(s, pc, r, f, d).req = r
               /\ Waiting(s, pc, r, f, d).file = f
               /\ Waiting(s, pc, r, f, d).user = sess[s].user
    BY <1>1 DEF Waiting, Session
  <1> QED BY <1>2, <1>3, <1>4

\* A session whose reply field alone changes.
LEMMA AnswerStep ==
    ASSUME Inv, NEW s \in Sessions, NEW a \in {"ack", "err", "trunc", "fail"},
           Answer(s, a), UNCHANGED nameServer, ss_up' \in [Servers -> BOOLEAN],
           phys' \in [Servers -> SUBSET Names], chk' \in [Servers -> SUBSET Names]
    PROVE  Inv'
  <1> DEFINE x == [sess[s] EXCEPT !.reply = a]
  <1>1. sess[s] \in Session
    BY DEF Inv, TypeOK
  <1>2. x \in Session /\ x.pc = sess[s].pc /\ x.req = sess[s].req
        /\ x.user = sess[s].user /\ x.file = sess[s].file
    BY <1>1 DEF Session
  <1>3. sess' = [sess EXCEPT ![s] = x]
    BY DEF Answer, Inv, TypeOK
  <1>4. UNCHANGED <<heap, file_list, table, disk, mutex, users, ss_list, todo>>
        /\ UNCHANGED cache
    BY DEF nameServer, index, cache
  <1>5. /\ x.pc = "idle" => x.user \in Users
        /\ x.pc \in {"call", "direct", "write", "meta"} => x.file \in Names
    BY <1>2 DEF Inv, SessionsComplete
  <1>6. mutex = s <=> x.pc = "call" /\ x.req = "DELETE" /\ x.user # NULL
    BY <1>2 DEF Inv, DeleterHoldsMutex
  <1>7. users' \in SUBSET Users /\ ss_list' \in Seq(Servers) /\ todo' \in SUBSET Names
    BY <1>4 DEF Inv, TypeOK
  <1> HIDE DEF x
  <1> QED BY <1>2, <1>3, <1>4, <1>5, <1>6, <1>7, SessionStep

\* What a storage server's thread does for a session, answering it and changing
\* its own directory, keeps the name server's invariant.
LEMMA ServeInv ==
    ASSUME Inv, NEW s \in Sessions, Serve(s)
    PROVE  Inv'
  <1> DEFINE d == sess[s].ss
             f == sess[s].file
  <1>1. /\ phys \in [Servers -> SUBSET Names] /\ chk \in [Servers -> SUBSET Names]
        /\ ss_up \in [Servers -> BOOLEAN]
    BY DEF Inv, TypeOK
  <1>2. ASSUME sess[s].pc \in {"call", "direct"} PROVE f \in Names
    BY <1>2 DEF Inv, SessionsComplete
  <1>3. CASE SS_CREATE(s)
    <2>1. f \in Names
      BY <1>2, <1>3 DEF SS_CREATE, Called
    <2>2. phys' = [phys EXCEPT ![d] = phys[d] \cup {f}] /\ ss_up' = ss_up /\ chk' = chk
      BY <1>3 DEF SS_CREATE, Directory
    <2>3. phys' \in [Servers -> SUBSET Names]
      BY <2>1, <2>2, <1>1
    <2> QED BY <2>2, <2>3, <1>1, <1>3, AnswerStep DEF SS_CREATE
  <1>4. CASE SS_DELETE(s)
    <2>1. phys' = [phys EXCEPT ![d] = phys[d] \ {f}] /\ ss_up' = ss_up /\ chk' = chk
      BY <1>4 DEF SS_DELETE, Directory
    <2>2. phys' \in [Servers -> SUBSET Names]
      BY <2>1, <1>1
    <2> QED BY <2>1, <2>2, <1>1, <1>4, AnswerStep DEF SS_DELETE
  <1>5. CASE SS_UNDO(s)
    <2>1. f \in Names
      BY <1>2, <1>5 DEF SS_UNDO, Called
    <2> DEFINE D == IF BakOf[f] \in phys[d] THEN (phys[d] \ {BakOf[f]}) \cup {f}
                    ELSE phys[d]
    <2>2. phys' = [phys EXCEPT ![d] = D] /\ ss_up' = ss_up /\ chk' = chk
      BY <1>5 DEF SS_UNDO, Directory
    <2>3. phys' \in [Servers -> SUBSET Names]
      BY <2>1, <2>2, <1>1
    <2> QED BY <2>2, <2>3, <1>1, <1>5, AnswerStep DEF SS_UNDO
  <1>6. CASE SS_CHECKPOINT(s)
    <2>1. /\ chk' = [chk EXCEPT ![d] = chk[d] \cup ({f} \cap phys[d])]
          /\ ss_up' = ss_up /\ phys' = phys
      BY <1>6, <1>1 DEF SS_CHECKPOINT
    <2>2. chk' \in [Servers -> SUBSET Names]
      BY <2>1, <1>1
    <2> QED BY <2>1, <2>2, <1>1, <1>6, AnswerStep DEF SS_CHECKPOINT
  <1>7. CASE SS_REVERT(s)
    <2>1. /\ phys' = [phys EXCEPT ![d] = phys[d] \cup ({f} \cap chk[d])]
          /\ ss_up' = ss_up /\ chk' = chk
      BY <1>7 DEF SS_REVERT, Directory
    <2>2. phys' \in [Servers -> SUBSET Names]
      BY <2>1, <1>1
    <2> QED BY <2>1, <2>2, <1>1, <1>7, AnswerStep DEF SS_REVERT
  <1>8. CASE SS_READ(s)
    <2>1. \E a \in {"ack", "err", "trunc", "fail"} : Answer(s, a)
      BY <1>8 DEF SS_READ, Contents
    <2> QED BY <2>1, <1>1, <1>8, AnswerStep DEF SS_READ, remote
  <1>9. CASE SS_READ_CHECKPOINT(s)
    <2>1. \E a \in {"ack", "err", "trunc", "fail"} : Answer(s, a)
      BY <1>9 DEF SS_READ_CHECKPOINT, Contents
    <2> QED BY <2>1, <1>1, <1>9, AnswerStep DEF SS_READ_CHECKPOINT, remote
  <1>10. CASE Unreachable(s)
    BY <1>1, <1>10, AnswerStep DEF Unreachable, remote
  <1> QED BY <1>3, <1>4, <1>5, <1>6, <1>7, <1>8, <1>9, <1>10 DEF Serve

\* The session of a handler that has the mutex does not hold it across a call.
LEMMA NotHolder ==
    ASSUME Inv, NEW s \in Sessions,
           sess[s].pc # "call" \/ sess[s].req # "DELETE" \/ sess[s].user = NULL
    PROVE  mutex # s
  BY DEF Inv, DeleterHoldsMutex

\* A handler that checks a permission and then calls or redirects to a storage
\* server keeps the invariant.
LEMMA ForwardInv ==
    ASSUME Inv, NEW s \in Sessions, NEW f \in Names, NEW c, NEW p,
           NEW pc \in {"call", "direct", "write"}, NEW r \in Requests \ {"DELETE"},
           Forward(s, c, p, f, pc, r)
    PROVE  Inv'
  <1>1. mutex # s
    BY NotHolder DEF Forward, Handles
  <1>2. CASE sess' = sess
    BY <1>2, LookupStep DEF Forward
  <1>3. CASE Found(f) # NULL /\
             sess' = [sess EXCEPT ![s] = Waiting(s, pc, r, f, heap[Found(f)].ss)]
    <2> DEFINE x == Waiting(s, pc, r, f, heap[Found(f)].ss)
    <2>1. heap[Found(f)].ss \in Servers \cup {NULL}
      BY <1>3, FoundType DEF Inv, TypeOK, FileMetadata
    <2>2. /\ x \in Session /\ x.pc = pc /\ x.req = r /\ x.file = f
      BY <2>1, SessionHelpers
    <2>3. UNCHANGED <<heap, file_list, table, disk, mutex, users, ss_list, todo,
                      ss_up, phys, chk>>
      BY DEF Forward, index, remote
    <2>4. /\ users' \in SUBSET Users /\ ss_list' \in Seq(Servers)
          /\ todo' \in SUBSET Names /\ ss_up' \in [Servers -> BOOLEAN]
          /\ phys' \in [Servers -> SUBSET Names] /\ chk' \in [Servers -> SUBSET Names]
      BY <2>3 DEF Inv, TypeOK
    <2>5. \E n \in Names : find_file(n)
      BY DEF Forward
    <2> HIDE DEF x
    <2>6. sess' = [sess EXCEPT ![s] = x]
      BY <1>3 DEF x
    <2> QED BY <1>1, <2>2, <2>3, <2>4, <2>5, <2>6, SessionStep
  <1> QED BY <1>2, <1>3 DEF Forward

\* All seven forwarded commands keep the invariant.
LEMMA ForwardedInv ==
    ASSUME Inv, NEW s \in Sessions, NEW f \in Names, ForwardedCommand(s, f)
    PROVE  Inv'
  <1>1. /\ {"UNDO", "CHECKPOINT", "REVERT", "VIEWCHECKPOINT", "EXEC", "READ", "WRITE"}
             \subseteq Requests \ {"DELETE"}
        /\ "call" \in {"call", "direct", "write"}
        /\ "direct" \in {"call", "direct", "write"}
        /\ "write" \in {"call", "direct", "write"}
    BY DEF Requests, Forwarded
  <1>2. CASE handle_undo(s, f)
    BY <1>1, <1>2, ForwardInv DEF handle_undo
  <1>3. CASE handle_checkpoint(s, f)
    BY <1>1, <1>3, ForwardInv DEF handle_checkpoint
  <1>4. CASE handle_revert(s, f)
    BY <1>1, <1>4, ForwardInv DEF handle_revert
  <1>5. CASE handle_view_checkpoint(s, f)
    BY <1>1, <1>5, ForwardInv DEF handle_view_checkpoint
  <1>6. CASE handle_exec(s, f)
    BY <1>1, <1>6, ForwardInv DEF handle_exec
  <1>7. CASE handle_read(s, f)
    BY <1>1, <1>7, ForwardInv DEF handle_read
  <1>8. CASE handle_write(s, f)
    BY <1>1, <1>8, ForwardInv DEF handle_write
  <1> QED BY <1>2, <1>3, <1>4, <1>5, <1>6, <1>7, <1>8 DEF ForwardedCommand

\* A step that moves one session, possibly looking a file up, and nothing else
\* of the name server.
LEMMA MoveStep ==
    ASSUME Inv, NEW s \in Sessions, NEW x \in Session,
           sess' = [sess EXCEPT ![s] = x], mutex # s, x.pc # "call" \/ x.req # "DELETE",
           x.pc = "idle" => x.user \in Users,
           x.pc \in {"call", "direct", "write", "meta"} => x.file \in Names,
           UNCHANGED cache \/ \E f \in Names : find_file(f),
           UNCHANGED <<heap, index, ss_list, disk, mutex, todo, ss_up, chk>>,
           users' \in SUBSET Users, phys' \in [Servers -> SUBSET Names]
    PROVE  Inv'
  <1>1. UNCHANGED <<heap, file_list, table, disk, mutex>>
    BY DEF index
  <1>2. /\ ss_list' \in Seq(Servers) /\ todo' \in SUBSET Names
        /\ ss_up' \in [Servers -> BOOLEAN] /\ chk' \in [Servers -> SUBSET Names]
    BY DEF Inv, TypeOK
  <1> QED BY <1>1, <1>2, SessionStep

\* Connecting, leaving, committing a write and ending one keep the invariant.
LEMMA SessionInv ==
    ASSUME Inv, NEW s \in Sessions,
           \/ \E u \in Users : register_user(s, u)
           \/ Disconnect(s)
           \/ COMMIT_WRITE(s)
           \/ WriteEnds(s)
    PROVE  Inv'
  <1>1. users \in SUBSET Users /\ phys \in [Servers -> SUBSET Names] /\ sess[s] \in Session
    BY DEF Inv, TypeOK
  <1>2. ASSUME NEW u \in Users, register_user(s, u) PROVE Inv'
    <2> DEFINE x == [Off EXCEPT !.user = u, !.pc = "idle"]
    <2>1. x \in Session /\ x.pc = "idle" /\ x.user = u
      BY OffType DEF Off, Session
    <2>2. mutex # s
      BY <1>2, NotHolder DEF register_user
    <2>3. sess' = [sess EXCEPT ![s] = x]
      BY <1>2 DEF register_user
    <2>4. users' \in SUBSET Users
      BY <1>1, <1>2 DEF register_user
    <2> HIDE DEF x
    <2> QED BY <2>1, <2>2, <2>3, <2>4, <1>1, <1>2, MoveStep DEF register_user, remote
  <1>3. CASE Disconnect(s)
    <2>1. mutex # s
      BY <1>3, NotHolder DEF Disconnect
    <2>2. Off.pc = "off"
      BY DEF Off
    <2> QED BY <2>1, <2>2, <1>1, <1>3, OffType, MoveStep DEF Disconnect, remote
  <1>4. CASE COMMIT_WRITE(s)
    <2> DEFINE x == [sess[s] EXCEPT !.pc = "meta"]
               f == sess[s].file
               D == phys[sess[s].ss]
    <2>1. mutex # s
      BY <1>4, NotHolder DEF COMMIT_WRITE
    <2>2. f \in Names
      BY <1>4 DEF COMMIT_WRITE, Inv, SessionsComplete
    <2>3. x \in Session /\ x.pc = "meta" /\ x.file = f
      BY <1>1 DEF Session
    <2>4. sess' = [sess EXCEPT ![s] = x]
      BY <1>4 DEF COMMIT_WRITE, Inv, TypeOK
    <2>5. phys' \in [Servers -> SUBSET Names]
      <3>1. CASE UNCHANGED phys
        BY <3>1, <1>1
      <3>2. CASE Directory(s, D \cup {f} \cup IF f \in D THEN {BakOf[f]} \ {NULL} ELSE {})
        <4>1. {BakOf[f]} \ {NULL} \subseteq Names
          BY <2>2, ConstantsAssumption
        <4> QED BY <3>2, <4>1, <2>2, <1>1 DEF Directory
      <3> QED BY <3>1, <3>2, <1>4 DEF COMMIT_WRITE
    <2> HIDE DEF x
    <2> QED BY <2>1, <2>2, <2>3, <2>4, <2>5, <1>1, <1>4, MoveStep
            DEF COMMIT_WRITE, nameServer
  <1>5. CASE WriteEnds(s)
    <2>1. mutex # s
      BY <1>5, NotHolder DEF WriteEnds
    <2>2. Back(s).pc \in {"idle", "off"}
      BY SessionHelpers DEF Back, Off
    <2> QED BY <2>1, <2>2, <1>1, <1>5, SessionHelpers, MoveStep
            DEF WriteEnds, nameServer, remote
  <1> QED BY <1>2, <1>3, <1>4, <1>5

\* UPDATE_META keeps the invariant, before and after it calls the storage server.
LEMMA UpdateMetaInv ==
    ASSUME Inv, NEW s \in Sessions, handle_update_meta(s) \/ MetaReturns(s) \/ CallReturns(s)
    PROVE  Inv'
  <1> DEFINE f == sess[s].file
             h == [Idle(s) EXCEPT !.pc = "hung"]
  <1>1. users \in SUBSET Users /\ phys \in [Servers -> SUBSET Names] /\ sess[s] \in Session
    BY DEF Inv, TypeOK
  <1>2. h \in Session /\ h.pc = "hung"
    BY SessionHelpers DEF Session
  <1>3. Back(s).pc \in {"idle", "off"}
    BY SessionHelpers DEF Back, Off
  <1> HIDE DEF h
  <1>4. CASE handle_update_meta(s)
    <2>1. mutex # s /\ f \in Names
      BY <1>4, NotHolder DEF handle_update_meta, Inv, SessionsComplete
    <2>2. CASE sess' = [sess EXCEPT ![s] = Off] /\ UNCHANGED cache
      <3>1. Off.pc = "off"
        BY DEF Off
      <3> QED BY <2>1, <2>2, <3>1, <1>1, <1>4, OffType, MoveStep
              DEF handle_update_meta, remote
    <2>3. CASE find_file(f) /\ Found(f) = NULL /\ sess' = [sess EXCEPT ![s] = h]
      BY <2>1, <2>3, <1>1, <1>2, <1>4, MoveStep DEF handle_update_meta, remote
    <2>4. CASE /\ find_file(f)
               /\ Found(f) # NULL
               /\ sess' = [sess EXCEPT ![s] =
                             Waiting(s, "call", "META", f, heap[Found(f)].ss)]
      <3> DEFINE x == Waiting(s, "call", "META", f, heap[Found(f)].ss)
      <3>1. heap[Found(f)].ss \in Servers \cup {NULL}
        BY <2>1, <2>4, FoundType DEF Inv, TypeOK, FileMetadata
      <3>2. x \in Session /\ x.pc = "call" /\ x.req = "META" /\ x.file = f
        BY <2>1, <3>1, SessionHelpers DEF Requests
      <3> HIDE DEF x
      <3>3. sess' = [sess EXCEPT ![s] = x]
        BY <2>4 DEF x
      <3> QED BY <2>1, <2>4, <3>2, <3>3, <1>1, <1>4, MoveStep
              DEF handle_update_meta, remote
    <2> QED BY <2>2, <2>3, <2>4, <1>4 DEF handle_update_meta, h
  <1>5. CASE MetaReturns(s)
    <2>1. mutex # s /\ f \in Names /\ sess[s].user \in Users
      BY <1>1, <1>5, NotHolder DEF MetaReturns, Inv, SessionsComplete, Session
    <2>2. CASE sess' = [sess EXCEPT ![s] = h] /\ UNCHANGED cache
      BY <2>1, <2>2, <1>1, <1>2, <1>5, MoveStep DEF MetaReturns, remote
    <2>3. CASE sess' = [sess EXCEPT ![s] = Idle(s)] /\ find_file(f)
      BY <2>1, <2>3, <1>1, <1>5, SessionHelpers, MoveStep DEF MetaReturns, remote
    <2> QED BY <2>2, <2>3, <1>5 DEF MetaReturns, h
  <1>6. CASE CallReturns(s)
    <2>1. mutex # s
      BY <1>6, NotHolder DEF CallReturns
    <2> QED BY <2>1, <1>1, <1>3, <1>6, SessionHelpers, MoveStep
            DEF CallReturns, nameServer, remote
  <1> QED BY <1>4, <1>5, <1>6

\* A handler that rewrites one record in place and saves keeps the invariant.
LEMMA RewriteInv ==
    ASSUME Inv, mutex = NULL, NEW f \in Names, NEW allowed \in BOOLEAN, NEW r,
           allowed => /\ Found(f) # NULL
                      /\ r \in FileMetadata
                      /\ r.filename = heap[Found(f)].filename
                      /\ r.owner = heap[Found(f)].owner
                      /\ r.ss = heap[Found(f)].ss,
           Rewrite(f, allowed, r)
    PROVE  Inv'
  <1>1. CASE allowed
    <2>1. Found(f) \in Blocks
      BY <1>1, FoundType
    <2>2. find_file(f) /\ heap' = [heap EXCEPT ![Found(f)] = r]
                       /\ save_metadata(heap', file_list)
      BY <1>1 DEF Rewrite
    <2> QED BY <2>1, <2>2, <1>1, RecordStep DEF Rewrite
  <1>2. CASE ~allowed
    BY <1>2, LookupStep DEF Rewrite
  <1> QED BY <1>1, <1>2

\* All handlers that answer from the metadata alone keep the invariant.
LEMMA MetadataInv ==
    ASSUME Inv, NEW s \in Sessions, NEW f \in Names, MetadataCommand(s, f)
    PROVE  Inv'
  <1> DEFINE c == Found(f)
  <1>1. c # NULL => c \in Blocks /\ heap[c] \in FileMetadata
    BY FoundType DEF Inv, TypeOK
  <1>2. Users \subseteq Owners
    BY DEF Owners
  <1>3. OwnedBy(s, f) => c # NULL
    BY DEF OwnedBy
  <1>4. CASE handle_info(s, f)
    BY <1>4, LookupStep DEF handle_info
  <1>5. CASE handle_req_access(s, f)
    <2>1. mutex = NULL /\ find_file(f) /\ sess[s].user \in Users
      BY <1>5 DEF handle_req_access, Handles, Inv, SessionsComplete
    <2>2. CASE heap' = heap
      BY <2>1, <2>2, <1>5, LookupStep DEF handle_req_access
    <2>3. CASE c # NULL /\
               heap' = [heap EXCEPT ![c].pending = @ \cup {sess[s].user}]
      <3> DEFINE r == [heap[c] EXCEPT !.pending = @ \cup {sess[s].user}]
      <3>1. /\ r \in FileMetadata /\ r.filename = heap[c].filename
            /\ r.owner = heap[c].owner /\ r.ss = heap[c].ss
            /\ r.access = heap[c].access /\ r.annotation = heap[c].annotation
        BY <2>1, <2>3, <1>1 DEF FileMetadata
      <3>2. heap' = [heap EXCEPT ![c] = r]
        BY <2>3, <1>1 DEF Inv, TypeOK
      <3> HIDE DEF r
      <3> QED BY <3>1, <3>2, <2>1, <2>3, <1>1, <1>5, RecordStep DEF handle_req_access
    <2> QED BY <2>2, <2>3, <1>5 DEF handle_req_access
  <1>6. ASSUME NEW u \in Users, NEW p \in {"R", "W"}, handle_add_access(s, f, u, p)
        PROVE  Inv'
    <2> DEFINE r == [heap[c] EXCEPT !.access[u] = p]
               ok == OwnedBy(s, f) /\ u \in users
    <2>1. mutex = NULL /\ Rewrite(f, ok, r)
      BY <1>6 DEF handle_add_access, Handles
    <2>2. ok => /\ r \in FileMetadata /\ r.filename = heap[c].filename
                /\ r.owner = heap[c].owner /\ r.ss = heap[c].ss
      BY <1>1, <1>2, <1>3 DEF FileMetadata, Perms
    <2>3. ok \in BOOLEAN
      BY DEF OwnedBy
    <2>4. ok => c # NULL
      BY <1>3
    <2> HIDE DEF r, ok
    <2> QED BY <2>1, <2>2, <2>3, <2>4, RewriteInv
  <1>7. ASSUME NEW u \in Users, handle_rem_access(s, f, u) PROVE Inv'
    <2> DEFINE r == [heap[c] EXCEPT !.access[u] = "-"]
               ok == OwnedBy(s, f)
    <2>1. mutex = NULL /\ Rewrite(f, ok, r)
      BY <1>7 DEF handle_rem_access, Handles
    <2>2. ok => /\ r \in FileMetadata /\ r.filename = heap[c].filename
                /\ r.owner = heap[c].owner /\ r.ss = heap[c].ss
      BY <1>1, <1>2, <1>3 DEF FileMetadata, Perms
    <2>3. ok \in BOOLEAN
      BY DEF OwnedBy
    <2>4. ok => c # NULL
      BY <1>3
    <2> HIDE DEF r, ok
    <2> QED BY <2>1, <2>2, <2>3, <2>4, RewriteInv
  <1>8. ASSUME NEW u \in Users, handle_approve_req(s, f, u) PROVE Inv'
    <2> DEFINE r == [heap[c] EXCEPT !.access[u] = IF @ = "-" THEN "R" ELSE @,
                                    !.pending = @ \ {u}]
               ok == OwnedBy(s, f)
    <2>1. mutex = NULL /\ Rewrite(f, ok, r)
      BY <1>8 DEF handle_approve_req, Handles
    <2>2. ok => /\ r \in FileMetadata /\ r.filename = heap[c].filename
                /\ r.owner = heap[c].owner /\ r.ss = heap[c].ss
      BY <1>1, <1>2, <1>3 DEF FileMetadata, Perms
    <2>3. ok \in BOOLEAN
      BY DEF OwnedBy
    <2>4. ok => c # NULL
      BY <1>3
    <2> HIDE DEF r, ok
    <2> QED BY <2>1, <2>2, <2>3, <2>4, RewriteInv
  <1>9. ASSUME NEW u \in Users, handle_reject_req(s, f, u) PROVE Inv'
    <2>1. mutex = NULL /\ find_file(f)
      BY <1>9 DEF handle_reject_req, Handles
    <2>2. CASE heap' = heap
      BY <2>1, <2>2, <1>9, LookupStep DEF handle_reject_req
    <2>3. CASE c # NULL /\ heap' = [heap EXCEPT ![c].pending = @ \ {u}]
      <3> DEFINE r == [heap[c] EXCEPT !.pending = @ \ {u}]
      <3>1. /\ r \in FileMetadata /\ r.filename = heap[c].filename
            /\ r.owner = heap[c].owner /\ r.ss = heap[c].ss
            /\ r.access = heap[c].access /\ r.annotation = heap[c].annotation
        BY <2>1, <2>3, <1>1 DEF FileMetadata
      <3>2. heap' = [heap EXCEPT ![c] = r]
        BY <2>3, <1>1 DEF Inv, TypeOK
      <3> HIDE DEF r
      <3> QED BY <3>1, <3>2, <2>1, <2>3, <1>1, <1>9, RecordStep DEF handle_reject_req
    <2> QED BY <2>2, <2>3, <1>3, <1>9 DEF handle_reject_req
  <1>10. ASSUME NEW n \in Notes, handle_annotate(s, f, n) PROVE Inv'
    <2> DEFINE r == [heap[c] EXCEPT !.annotation = n]
               ok == c # NULL /\ check_permission(c, sess[s].user, "W")
    <2>1. mutex = NULL /\ Rewrite(f, ok, r)
      BY <1>10 DEF handle_annotate, Handles
    <2>2. ok => /\ r \in FileMetadata /\ r.filename = heap[c].filename
                /\ r.owner = heap[c].owner /\ r.ss = heap[c].ss
      BY <1>1 DEF FileMetadata
    <2>3. ok \in BOOLEAN /\ (ok => c # NULL)
      BY DEF check_permission
    <2> HIDE DEF r, ok
    <2> QED BY <2>1, <2>2, <2>3, RewriteInv
  <1> QED BY <1>4, <1>5, <1>6, <1>7, <1>8, <1>9, <1>10 DEF MetadataCommand

\* A record is added and, unless it belongs to SSOwner, saved.
LEMMA AddStep ==
    ASSUME Inv, mutex \notin Sessions, NEW f \in Names, Found(f) = NULL, find_file(f),
           NEW b \in Blocks \ file_list, NEW r \in FileMetadata,
           r.filename = f, r.owner \in Owners, r.ss \in Servers, Add(b, r),
           \/ save_metadata(heap', file_list')
           \/ r.owner = SSOwner /\ disk' = disk,
           UNCHANGED <<users, ss_list, mutex, remote>>, todo' \in SUBSET Names,
           sess' \in [Sessions -> Session], SessionsComplete', DeleterHoldsMutex'
    PROVE  Inv'
  <1> USE DEF Inv
  <1>1. /\ heap' \in [Blocks -> FileMetadata]
        /\ file_list' \in SUBSET Blocks
        /\ table' \in [Names -> Seq(Blocks)]
        /\ lookup' \in [Names -> Blocks \cup {NULL}]
        /\ lru' \in Seq(Names)
        /\ ListedComplete'
        /\ TableMatchesList'
        /\ CacheWellFormed'
        /\ CacheAgreesWithTable'
        /\ \A c \in file_list : heap'[c] = heap[c]
        /\ heap'[b] = r
    BY AddRecord
  <1>2. disk' \in DiskType /\ SavedMetadataIsCurrent'
    <2>1. CASE save_metadata(heap', file_list')
      <3>1. \A c \in file_list' : /\ heap'[c].filename \in Names
                                  /\ heap'[c].owner \in Owners
                                  /\ heap'[c].ss \in Servers
        BY <1>1 DEF ListedComplete
      <3>2. \A c, d \in file_list' : heap'[c].filename = heap'[d].filename => c = d
        <4> SUFFICES ASSUME NEW c \in file_list', NEW d \in file_list',
                            heap'[c].filename = heap'[d].filename
                     PROVE  c = d
          OBVIOUS
        <4> DEFINE n == heap'[c].filename
        <4>1. n \in Names /\ c \in ListedAs(heap', file_list', n)
                          /\ d \in ListedAs(heap', file_list', n)
          BY <3>1 DEF ListedAs
        <4>2. \E e \in Blocks : ListedAs(heap', file_list', n) = {e}
          BY <4>1, <1>1 DEF TableMatchesList
        <4> QED BY <4>1, <4>2
      <3>3. /\ disk' \in DiskType
            /\ \A c \in file_list' :
                  /\ disk'.files[heap'[c].filename] = LineOf(heap'[c])
                  /\ disk'.notes[heap'[c].filename] = heap'[c].annotation
        BY <2>1, <3>1, <3>2, <1>1, SaveMetadata
      <3> QED BY <3>3 DEF SavedMetadataIsCurrent
    <2>2. CASE r.owner = SSOwner /\ disk' = disk
      <3>1. file_list' = file_list \cup {b}
        BY DEF Add
      <3> QED BY <2>2, <3>1, <1>1 DEF SavedMetadataIsCurrent, TypeOK
    <2> QED BY <2>1, <2>2
  <1>3. TypeOK'
    BY <1>1, <1>2 DEF TypeOK, remote
  <1>4. DeleterOwnsFile'
    BY DEF DeleterOwnsFile
  <1> QED BY <1>1, <1>2, <1>3, <1>4

\* The records the three creators make.
LEMMA NewFileType ==
    ASSUME Inv, NEW b \in Blocks, NEW f \in Names, NEW u \in Owners, NEW d \in Servers,
           NEW a \in [Owners -> Perms]
    PROVE  /\ NewFile(b, f, u, d, a) \in FileMetadata
           /\ NewFile(b, f, u, d, a).filename = f
           /\ NewFile(b, f, u, d, a).owner = u
           /\ NewFile(b, f, u, d, a).ss = d
  <1>1. heap[b] \in FileMetadata
    BY DEF Inv, TypeOK
  <1> QED BY <1>1 DEF NewFile, FileMetadata

\* The access lists that the handlers build have the type of access lists.
LEMMA AccessTypes ==
    /\ NoAccess \in [Owners -> Perms]
    /\ \A u \in Owners : OwnerAccess(u) \in [Owners -> Perms]
  BY DEF NoAccess, OwnerAccess, Perms

\* handle_create keeps the invariant, in whatever block malloc returns.
LEMMA CreateInv ==
    ASSUME Inv, NEW s \in Sessions, NEW f \in Names, handle_create(s, f)
    PROVE  Inv'
  <1> DEFINE u == sess[s].user
             d == Head(ss_list)
  <1>1. /\ mutex = NULL /\ mutex \notin Sessions /\ find_file(f)
        /\ u \in Users /\ u \in Owners /\ sess[s].pc = "idle"
    BY ConstantsAssumption
       DEF handle_create, Handles, Inv, SessionsComplete, Owners
  <1>2. CASE Found(f) # NULL \/ ss_list = <<>>
    BY <1>1, <1>2, LookupStep DEF handle_create, index
  <1>3. CASE ~(Found(f) # NULL \/ ss_list = <<>>)
    <2>1. d \in Servers
      BY <1>3 DEF Inv, TypeOK
    <2> HIDE DEF d, u
    <2>2. PICK b \in Blocks \ file_list :
             /\ Add(b, [NewFile(b, f, u, d, OwnerAccess(u)) EXCEPT !.annotation = NULL])
             /\ save_metadata(heap', file_list')
             /\ sess' = [sess EXCEPT ![s] = Waiting(s, "call", "CREATE", f, d)]
      BY <1>3 DEF handle_create, d, u
    <2> DEFINE q == NewFile(b, f, u, d, OwnerAccess(u))
               r == [q EXCEPT !.annotation = NULL]
               x == Waiting(s, "call", "CREATE", f, d)
    <2>3. q \in FileMetadata /\ q.filename = f /\ q.owner = u /\ q.ss = d
      BY <2>1, <1>1, AccessTypes, NewFileType
    <2>4. r \in FileMetadata /\ r.filename = f /\ r.owner = u /\ r.ss = d
      <3> HIDE DEF q
      <3> QED BY <2>3 DEF FileMetadata
    <2>5. x \in Session /\ x.pc = "call" /\ x.req = "CREATE" /\ x.file = f
      BY <2>1, SessionHelpers DEF Requests
    <2> HIDE DEF q, r, x
    <2>6. /\ sess' \in [Sessions -> Session] /\ sess'[s] = x
          /\ \A t \in Sessions \ {s} : sess'[t] = sess[t]
      BY <2>2, <2>5 DEF x, Inv, TypeOK
    <2>7. SessionsComplete'
      BY <2>5, <2>6 DEF SessionsComplete, Inv
    <2>8. mutex' = mutex
      BY DEF handle_create
    <2>9. DeleterHoldsMutex'
      BY <2>5, <2>6, <2>8, <1>1 DEF DeleterHoldsMutex, Inv
    <2>10. Add(b, r) /\ save_metadata(heap', file_list')
      BY <2>2 DEF r, q
    <2>11. UNCHANGED <<users, ss_list, mutex, remote>> /\ todo' \in SUBSET Names
      BY DEF handle_create, Inv, TypeOK
    <2> QED BY <2>1, <2>4, <2>6, <2>7, <2>9, <2>10, <2>11, <1>1, <1>3, AddStep
  <1> QED BY <1>2, <1>3

\* handle_create_folder keeps the invariant, also when it dies for want of a
\* storage server.
LEMMA CreateFolderInv ==
    ASSUME Inv, NEW s \in Sessions, NEW f \in Names, handle_create_folder(s, f)
    PROVE  Inv'
  <1> DEFINE u == sess[s].user
             d == Head(ss_list)
  <1>1. /\ mutex = NULL /\ mutex \notin Sessions
        /\ u \in Users /\ u \in Owners
    BY ConstantsAssumption
       DEF handle_create_folder, Handles, Inv, SessionsComplete, Owners
  <1>2. CASE /\ Found(f) # NULL
             /\ find_file(f)
             /\ UNCHANGED <<heap, index, disk, users, ss_list, mutex, todo, sess, remote>>
    BY <1>2, LookupStep
  <1>3. CASE /\ Found(f) = NULL /\ ss_list # <<>> /\ find_file(f)
             /\ \E b \in Blocks \ file_list :
                   /\ Add(b, [NewFile(b, f, u, d, OwnerAccess(u))
                              EXCEPT !.is_directory = TRUE])
                   /\ save_metadata(heap', file_list')
             /\ UNCHANGED <<users, ss_list, mutex, todo, sess, remote>>
    <2>1. d \in Servers
      BY <1>3 DEF Inv, TypeOK
    <2> HIDE DEF d, u
    <2>2. PICK b \in Blocks \ file_list :
             /\ Add(b, [NewFile(b, f, u, d, OwnerAccess(u)) EXCEPT !.is_directory = TRUE])
             /\ save_metadata(heap', file_list')
      BY <1>3
    <2> DEFINE q == NewFile(b, f, u, d, OwnerAccess(u))
               r == [q EXCEPT !.is_directory = TRUE]
    <2>3. q \in FileMetadata /\ q.filename = f /\ q.owner = u /\ q.ss = d
      BY <2>1, <1>1, AccessTypes, NewFileType
    <2>4. r \in FileMetadata /\ r.filename = f /\ r.owner = u /\ r.ss = d
      <3> HIDE DEF q
      <3> QED BY <2>3 DEF FileMetadata
    <2> HIDE DEF q, r
    <2>5. Add(b, r) /\ save_metadata(heap', file_list')
      BY <2>2 DEF r, q
    <2>6. sess' \in [Sessions -> Session] /\ todo' \in SUBSET Names
      BY <1>3 DEF Inv, TypeOK
    <2>7. SessionsComplete' /\ DeleterHoldsMutex'
      BY <1>3 DEF SessionsComplete, DeleterHoldsMutex, Inv
    <2> QED BY <2>1, <2>4, <2>5, <2>6, <2>7, <1>1, <1>3, AddStep
  <1>4. CASE Restart([disk EXCEPT !.users = users, !.files = [n \in Names |-> NULL]])
    <2> DEFINE e == [disk EXCEPT !.users = users, !.files = [n \in Names |-> NULL]]
    <2>1. e \in DiskType
      BY DEF Inv, TypeOK, DiskType
    <2> HIDE DEF e
    <2>2. Restart(e)
      BY <1>4 DEF e
    <2> QED BY <2>1, <2>2, RestartInv
  <1> QED BY <1>2, <1>3, <1>4 DEF handle_create_folder

\* handle_delete taking data_mutex and calling the storage server keeps the
\* invariant.
LEMMA DeleteInv ==
    ASSUME Inv, NEW s \in Sessions, NEW f \in Names, handle_delete(s, f)
    PROVE  Inv'
  <1>1. mutex = NULL /\ find_file(f) /\ sess[s].pc = "idle" /\ sess[s].user \in Users
    BY DEF handle_delete, Handles, Inv, SessionsComplete
  <1>2. CASE ~OwnedBy(s, f)
    BY <1>1, <1>2, LookupStep DEF handle_delete
  <1>3. CASE OwnedBy(s, f)
    <2> DEFINE x == Waiting(s, "call", "DELETE", f, heap[Found(f)].ss)
    <2>1. Found(f) # NULL /\ heap[Found(f)].owner = sess[s].user
      BY <1>3 DEF OwnedBy
    <2>2. heap[Found(f)].ss \in Servers \cup {NULL}
      BY <2>1, FoundType DEF Inv, TypeOK, FileMetadata
    <2>3. /\ x \in Session /\ x.pc = "call" /\ x.req = "DELETE" /\ x.file = f
          /\ x.user = sess[s].user
      BY <2>2, SessionHelpers DEF Requests
    <2> HIDE DEF x
    <2>4. sess' = [sess EXCEPT ![s] = x] /\ mutex' = s
      BY <1>3 DEF handle_delete, x
    <2>5. /\ sess' \in [Sessions -> Session] /\ sess'[s] = x
          /\ \A t \in Sessions \ {s} : sess'[t] = sess[t]
      BY <2>3, <2>4 DEF Inv, TypeOK
    <2>6. UNCHANGED <<heap, file_list, table, users, ss_list, disk, todo, ss_up, phys, chk>>
      BY DEF handle_delete, index, remote
    <2>7. /\ lookup' \in [Names -> Blocks \cup {NULL}]
          /\ lru' \in Seq(Names)
          /\ CacheWellFormed'
          /\ CacheAgreesWithTable'
      BY <1>1, <2>6, CacheStep
    <2>8. TypeOK'
      BY <2>4, <2>5, <2>6, <2>7 DEF Inv, TypeOK
    <2>9. ListedComplete' /\ TableMatchesList' /\ SavedMetadataIsCurrent'
      BY <2>6 DEF Inv, ListedComplete, TableMatchesList, ListedAs, SavedMetadataIsCurrent
    <2>10. SessionsComplete'
      BY <2>3, <2>5 DEF Inv, SessionsComplete
    <2>11. DeleterHoldsMutex'
      <3>1. sess[s].user # NULL
        BY <1>1, ConstantsAssumption
      <3>2. \A t \in Sessions : mutex # t
        BY <1>1, ConstantsAssumption
      <3> QED BY <3>1, <3>2, <2>3, <2>4, <2>5 DEF Inv, DeleterHoldsMutex
    <2>12. DeleterOwnsFile'
      <3>1. \A b \in ListedAs(heap, file_list, f) : heap[b].owner = sess[s].user
        BY <2>1, FoundType
      <3> QED BY <3>1, <2>3, <2>4, <2>5, <2>6 DEF DeleterOwnsFile, ListedAs
    <2> QED BY <2>7, <2>8, <2>9, <2>10, <2>11, <2>12 DEF Inv
  <1> QED BY <1>2, <1>3

\* Freeing the record of a name: the others keep their entries.
LEMMA DeleteMetadataInv ==
    ASSUME Inv, NEW f \in Names, DeleteMetadata(f), UNCHANGED <<lookup, lru, users>>
    PROVE  /\ heap' \in [Blocks -> FileMetadata]
           /\ file_list' \in SUBSET Blocks
           /\ table' \in [Names -> Seq(Blocks)]
           /\ disk' \in DiskType
           /\ ListedComplete'
           /\ TableMatchesList'
           /\ CacheAgreesWithTable'
           /\ SavedMetadataIsCurrent'
  <1> USE DEF Inv
  <1>1. CASE table[f] = <<>> /\ ListedAs(heap, file_list, f) = {}
    <2>1. /\ UNCHANGED <<heap, file_list, disk>>
          /\ table' = table
      BY <1>1 DEF DeleteMetadata, ht_delete, TypeOK
    <2> QED BY <2>1 DEF TypeOK, ListedComplete, TableMatchesList, ListedAs,
               CacheAgreesWithTable, ht_search, SavedMetadataIsCurrent
  <1>2. CASE \E b \in Blocks : table[f] = <<b>> /\ ListedAs(heap, file_list, f) = {b}
    <2>1. PICK b \in Blocks : table[f] = <<b>> /\ ListedAs(heap, file_list, f) = {b}
      BY <1>2
    <2>2. PICK r \in Scribbled(b) : heap' = [heap EXCEPT ![b] = r]
      BY <2>1 DEF DeleteMetadata
    <2>3. file_list' = file_list \ {b} /\ save_metadata(heap', file_list')
      BY <2>1 DEF DeleteMetadata
    <2>4. table' = [table EXCEPT ![f] = <<>>]
      <3>1. Tail(<<b>>) = <<>> /\ <<b>> # <<>>
        OBVIOUS
      <3> QED BY <2>1, <3>1 DEF DeleteMetadata, ht_delete, TypeOK
    <2>5. r \in FileMetadata
      <3>1. heap[b] \in FileMetadata /\ heap[b].access \in [Owners -> Perms]
        BY DEF TypeOK, FileMetadata
      <3>2. PICK a \in {NoAccess, heap[b].access} :
               r = [heap[b] EXCEPT !.filename = NULL, !.is_directory = FALSE,
                                   !.owner = NULL, !.access = a]
        BY DEF Scribbled
      <3>3. a \in [Owners -> Perms]
        BY <3>1, AccessTypes
      <3> QED BY <3>1, <3>2, <3>3 DEF FileMetadata
    <2>6. /\ heap' \in [Blocks -> FileMetadata]
          /\ file_list' \in SUBSET Blocks
          /\ table' \in [Names -> Seq(Blocks)]
      BY <2>2, <2>3, <2>4, <2>5 DEF TypeOK
    <2>7. \A c \in file_list' : heap'[c] = heap[c] /\ c \in file_list
      BY <2>2, <2>3 DEF TypeOK
    <2>8. ListedComplete'
      BY <2>7 DEF ListedComplete
    <2>9. ListedAs(heap', file_list', f) = {} /\ table'[f] = <<>>
      BY <2>1, <2>3, <2>4, <2>7 DEF ListedAs, TypeOK
    <2>10. ASSUME NEW n \in Names, n # f
           PROVE  /\ table'[n] = table[n]
                  /\ ListedAs(heap', file_list', n) = ListedAs(heap, file_list, n)
      <3>1. table'[n] = table[n]
        BY <2>4, <2>10 DEF TypeOK
      <3>2. heap[b].filename = f
        BY <2>1 DEF ListedAs
      <3>3. ListedAs(heap', file_list', n) = ListedAs(heap, file_list, n)
        BY <3>2, <2>3, <2>7, <2>10 DEF ListedAs
      <3> QED BY <3>1, <3>3
    <2>11. TableMatchesList'
      BY <2>9, <2>10 DEF TableMatchesList
    <2>12. CacheAgreesWithTable'
      BY <2>9, <2>10 DEF CacheAgreesWithTable, ht_search
    <2>13. \A c \in file_list' : /\ heap'[c].filename \in Names
                                 /\ heap'[c].owner \in Owners
                                 /\ heap'[c].ss \in Servers
      BY <2>8 DEF ListedComplete
    <2>14. \A c, d \in file_list' : heap'[c].filename = heap'[d].filename => c = d
      BY <2>7, UniqueNames
    <2>15. /\ disk' \in DiskType
           /\ \A c \in file_list' :
                 /\ disk'.files[heap'[c].filename] = LineOf(heap'[c])
                 /\ disk'.notes[heap'[c].filename] = heap'[c].annotation
      BY <2>3, <2>6, <2>13, <2>14, SaveMetadata
    <2> QED BY <2>6, <2>8, <2>11, <2>12, <2>15 DEF SavedMetadataIsCurrent
  <1> QED BY <1>1, <1>2 DEF TableMatchesList

\* handle_delete unlinking, freeing and saving, or giving up, keeps the invariant
\* although the cache still names the freed block.
LEMMA DeleteReturnsInv ==
    ASSUME Inv, NEW s \in Sessions, DeleteReturns(s)
    PROVE  Inv'
  <1>1. sess[s].file \in Names /\ mutex = s /\ sess[s].user \in Users
    BY DEF DeleteReturns, Inv, SessionsComplete, DeleterHoldsMutex, TypeOK, Session
  <1>2. UNCHANGED <<lookup, lru, users, ss_list, todo, ss_up, phys, chk>>
        /\ mutex' = NULL /\ sess' = [sess EXCEPT ![s] = Idle(s)]
    BY DEF DeleteReturns, cache, remote
  <1>3. /\ heap' \in [Blocks -> FileMetadata]
        /\ file_list' \in SUBSET Blocks
        /\ table' \in [Names -> Seq(Blocks)]
        /\ disk' \in DiskType
        /\ ListedComplete'
        /\ TableMatchesList'
        /\ CacheAgreesWithTable'
        /\ SavedMetadataIsCurrent'
    <2>1. CASE DeleteMetadata(sess[s].file)
      BY <2>1, <1>1, <1>2, DeleteMetadataInv
    <2>2. CASE UNCHANGED <<heap, index, disk>>
      BY <2>2, <1>2 DEF Inv, index, TypeOK, ListedComplete, TableMatchesList, ListedAs,
                        CacheAgreesWithTable, ht_search, SavedMetadataIsCurrent
    <2> QED BY <2>1, <2>2 DEF DeleteReturns
  <1>4. /\ sess' \in [Sessions -> Session] /\ sess'[s] = Idle(s)
        /\ \A t \in Sessions \ {s} : sess'[t] = sess[t]
    BY <1>2, SessionHelpers DEF Inv, TypeOK
  <1>5. TypeOK'
    BY <1>2, <1>3, <1>4 DEF Inv, TypeOK
  <1>6. CacheWellFormed'
    BY <1>2 DEF Inv, CacheWellFormed
  <1>7. SessionsComplete'
    BY <1>1, <1>4, SessionHelpers DEF Inv, SessionsComplete
  <1>8. \A t \in Sessions : mutex' # t
    BY <1>2, ConstantsAssumption
  <1>9. DeleterHoldsMutex'
    BY <1>1, <1>4, <1>8, SessionHelpers DEF Inv, DeleterHoldsMutex
  <1>10. DeleterOwnsFile'
    BY <1>8 DEF DeleterOwnsFile
  <1> QED BY <1>3, <1>5, <1>6, <1>7, <1>9, <1>10 DEF Inv

\* A registering server, which is no session, holds the mutex file by file.
LEMMA RegistrationInv ==
    ASSUME Inv, Registration \/ \E d \in Servers : register_storage_server(d)
    PROVE  Inv'
  <1> USE DEF Inv
  <1>1. ASSUME NEW n \in Names, RegisterFile(n) PROVE Inv'
    <2>1. mutex \in Servers /\ mutex \notin Sessions /\ find_file(n)
      BY <1>1, ConstantsAssumption DEF RegisterFile
    <2>2. /\ UNCHANGED <<users, ss_list, disk, mutex, sess, remote>>
          /\ todo' \in SUBSET Names
      BY <1>1 DEF RegisterFile, TypeOK
    <2>3. SessionsComplete' /\ DeleterHoldsMutex' /\ sess' \in [Sessions -> Session]
      BY <2>2 DEF SessionsComplete, DeleterHoldsMutex, TypeOK
    <2>4. CASE UNCHANGED <<heap, index>>
      <3>1. /\ lookup' \in [Names -> Blocks \cup {NULL}]
            /\ lru' \in Seq(Names)
            /\ CacheWellFormed'
            /\ CacheAgreesWithTable'
        BY <2>1, <2>4, CacheStep DEF index
      <3>2. TypeOK'
        BY <2>2, <2>4, <3>1 DEF TypeOK, index, remote
      <3>3. ListedComplete' /\ TableMatchesList' /\ SavedMetadataIsCurrent'
        BY <2>2, <2>4 DEF ListedComplete, TableMatchesList, ListedAs,
                          SavedMetadataIsCurrent, index
      <3>4. DeleterOwnsFile'
        BY <2>1, <2>2 DEF DeleterOwnsFile
      <3> QED BY <3>1, <3>2, <3>3, <3>4, <2>3
    <2>5. CASE Found(n) = NULL /\ \E b \in Blocks \ file_list :
                  Add(b, NewFile(b, n, SSOwner, mutex, NoAccess))
      <3>1. PICK b \in Blocks \ file_list : Add(b, NewFile(b, n, SSOwner, mutex, NoAccess))
        BY <2>5
      <3> DEFINE r == NewFile(b, n, SSOwner, mutex, NoAccess)
      <3>2. SSOwner \in Owners
        BY DEF Owners
      <3>3. r \in FileMetadata /\ r.filename = n /\ r.owner = SSOwner /\ r.ss = mutex
        BY <3>2, <2>1, AccessTypes, NewFileType
      <3> HIDE DEF r
      <3>4. Add(b, r)
        BY <3>1 DEF r
      <3> QED BY <3>2, <3>3, <3>4, <2>1, <2>2, <2>3, <2>5, AddStep
    <2> QED BY <2>4, <2>5, <1>1 DEF RegisterFile
  <1>2. CASE RegistrationDone
    <2>1. /\ mutex \in Servers /\ mutex' = NULL
          /\ ss_up' = [ss_up EXCEPT ![mutex] = TRUE]
          /\ UNCHANGED <<heap, file_list, table, lookup, lru, users, ss_list, disk,
                         todo, sess, phys, chk>>
      BY <1>2 DEF RegistrationDone, index, cache
    <2>2. TypeOK'
      BY <2>1 DEF TypeOK
    <2>3. (/\ ListedComplete /\ TableMatchesList /\ CacheWellFormed
           /\ CacheAgreesWithTable /\ SessionsComplete /\ SavedMetadataIsCurrent)'
      BY <2>1 DEF ListedComplete, TableMatchesList, ListedAs, CacheWellFormed,
                  CacheAgreesWithTable, ht_search, SessionsComplete, SavedMetadataIsCurrent
    <2>4. \A t \in Sessions : mutex' # t /\ mutex # t
      BY <2>1, ConstantsAssumption
    <2>5. DeleterHoldsMutex' /\ DeleterOwnsFile'
      BY <2>1, <2>4 DEF DeleterHoldsMutex, DeleterOwnsFile
    <2> QED BY <2>2, <2>3, <2>5
  <1>3. ASSUME NEW d \in Servers, register_storage_server(d) PROVE Inv'
    <2>1. /\ mutex = NULL /\ mutex' \in {NULL, d}
          /\ UNCHANGED <<heap, file_list, table, lookup, lru, users, disk,
                         sess, phys, chk>>
      BY <1>3 DEF register_storage_server, index, cache
    <2>2. ss_list' \in Seq(Servers) /\ todo' \in SUBSET Names
          /\ ss_up' \in [Servers -> BOOLEAN]
      <3>1. <<d>> \in Seq(Servers) /\ ss_list \in Seq(Servers)
        BY DEF TypeOK
      <3>2. <<d>> \o ss_list \in Seq(Servers)
        BY <3>1, ConcatProperties
      <3>3. phys[d] \in SUBSET Names /\ todo \in SUBSET Names
        BY DEF TypeOK
      <3>4. \/ ss_list' = ss_list /\ todo' = todo
            \/ ss_list' = <<d>> \o ss_list /\ todo' = phys[d]
        BY <1>3 DEF register_storage_server
      <3>5. ss_up' \in [Servers -> BOOLEAN]
        BY <1>3 DEF register_storage_server, TypeOK
      <3> HIDE DEF Inv
      <3> QED BY <3>1, <3>2, <3>3, <3>4, <3>5
    <2>3. TypeOK'
      BY <2>1, <2>2 DEF TypeOK
    <2>4. (/\ ListedComplete /\ TableMatchesList /\ CacheWellFormed
           /\ CacheAgreesWithTable /\ SessionsComplete /\ SavedMetadataIsCurrent)'
      BY <2>1 DEF ListedComplete, TableMatchesList, ListedAs, CacheWellFormed,
                  CacheAgreesWithTable, ht_search, SessionsComplete, SavedMetadataIsCurrent
    <2>5. \A t \in Sessions : mutex' # t /\ mutex # t
      BY <2>1, ConstantsAssumption
    <2>6. DeleterHoldsMutex' /\ DeleterOwnsFile'
      BY <2>1, <2>5 DEF DeleterHoldsMutex, DeleterOwnsFile
    <2> QED BY <2>3, <2>4, <2>6
  <1> QED BY <1>1, <1>2, <1>3 DEF Registration

\* A restart of the name server establishes the invariant again, and the death of
\* a storage server keeps it.
LEMMA CrashInv ==
    ASSUME Inv, NameServerCrash \/ \E d \in Servers : StorageServerCrash(d)
    PROVE  Inv'
  <1> USE DEF Inv
  <1>1. CASE NameServerCrash
    BY <1>1, RestartInv DEF NameServerCrash, TypeOK
  <1>2. ASSUME NEW d \in Servers, StorageServerCrash(d) PROVE Inv'
    <2> DEFINE Cut(s) == IF /\ sess[s].ss = d
                            /\ sess[s].pc \in {"call", "direct"}
                            /\ sess[s].reply \in {"none", "trunc"}
                         THEN [sess[s] EXCEPT !.reply = "fail"]
                         ELSE sess[s]
    <2>1. sess' = [s \in Sessions |-> Cut(s)]
      BY <1>2 DEF StorageServerCrash
    <2>2. \A s \in Sessions : /\ Cut(s) \in Session /\ Cut(s).pc = sess[s].pc
                              /\ Cut(s).req = sess[s].req /\ Cut(s).user = sess[s].user
                              /\ Cut(s).file = sess[s].file
      BY DEF TypeOK, Session
    <2> HIDE DEF Cut
    <2>3. /\ sess' \in [Sessions -> Session]
          /\ \A s \in Sessions : /\ sess'[s].pc = sess[s].pc /\ sess'[s].req = sess[s].req
                                 /\ sess'[s].user = sess[s].user
                                 /\ sess'[s].file = sess[s].file
      BY <2>1, <2>2
    <2>4. /\ UNCHANGED <<heap, file_list, table, lookup, lru, users, ss_list, disk,
                         mutex, todo, phys, chk>>
          /\ ss_up' \in [Servers -> BOOLEAN]
      BY <1>2 DEF StorageServerCrash, nameServer, index, cache, TypeOK
    <2>5. TypeOK'
      BY <2>3, <2>4 DEF TypeOK
    <2>6. (/\ ListedComplete /\ TableMatchesList /\ CacheWellFormed
           /\ CacheAgreesWithTable /\ SavedMetadataIsCurrent)'
      BY <2>4 DEF ListedComplete, TableMatchesList, ListedAs, CacheWellFormed,
                  CacheAgreesWithTable, ht_search, SavedMetadataIsCurrent
    <2>7. SessionsComplete' /\ DeleterHoldsMutex'
      BY <2>3, <2>4 DEF SessionsComplete, DeleterHoldsMutex
    <2>8. DeleterOwnsFile'
      BY <2>3, <2>4 DEF DeleterOwnsFile, ListedAs
    <2> QED BY <2>5, <2>6, <2>7, <2>8
  <1> QED BY <1>1, <1>2

-----------------------------------------------------------------------------
(* Theorems *)

\* Every step of the system preserves the invariant.
LEMMA NextInv == Inv /\ [Next]_vars => Inv'
  <1> SUFFICES ASSUME Inv, [Next]_vars PROVE Inv'
    OBVIOUS
  <1>1. CASE UNCHANGED vars
    BY <1>1 DEF vars, index, cache, remote, Inv, TypeOK, ListedComplete, TableMatchesList,
                ListedAs, CacheWellFormed, CacheAgreesWithTable, ht_search,
                SessionsComplete, DeleterHoldsMutex, DeleterOwnsFile,
                SavedMetadataIsCurrent
  <1>2. ASSUME NEW s \in Sessions, NEW f \in Names, LifecycleCommand(s, f) PROVE Inv'
    BY <1>2, CreateInv, CreateFolderInv, DeleteInv DEF LifecycleCommand
  <1>3. ASSUME NEW s \in Sessions, Return(s) PROVE Inv'
    BY <1>3, UpdateMetaInv, DeleteReturnsInv DEF Return
  <1> QED BY <1>1, <1>2, <1>3, SessionInv, MetadataInv, ForwardedInv, UpdateMetaInv,
             ServeInv, RegistrationInv, CrashInv
          DEF Next

\* The conjunction Inv of the name server's structural invariants holds in
\* every reachable state.
THEOREM InvHolds == Spec => []Inv
  BY InitInv, NextInv, PTL DEF Spec

\* Types; every saved line has an owner and a server.
THEOREM TypeCorrect == Spec => []TypeOK
  <1>1. Inv => TypeOK
    BY DEF Inv
  <1> QED BY <1>1, InvHolds, PTL

\* The hash table is an index of the file list, whatever is created, deleted,
\* registered and crashes in whatever order.
THEOREM TableIsIndex == Spec => []TableMatchesList
  <1>1. Inv => TableMatchesList
    BY DEF Inv
  <1> QED BY <1>1, InvHolds, PTL

\* The cache's table and list agree and stay within CACHE_SIZE.
THEOREM CacheIsWellFormed == Spec => []CacheWellFormed
  <1>1. Inv => CacheWellFormed
    BY DEF Inv
  <1> QED BY <1>1, InvHolds, PTL

\* A stale cache entry never shadows an existing file.
THEOREM CacheIsCoherent == Spec => []CacheAgreesWithTable
  <1>1. Inv => CacheAgreesWithTable
    BY DEF Inv
  <1> QED BY <1>1, InvHolds, PTL

\* data_mutex is held across a call exactly by the one DELETE in progress.
THEOREM MutexHeldByDeleter == Spec => []DeleterHoldsMutex
  <1>1. Inv => DeleterHoldsMutex
    BY DEF Inv
  <1> QED BY <1>1, InvHolds, PTL

\* The files on disk say what memory says about every file a user created.
THEOREM DiskIsCurrent == Spec => []SavedMetadataIsCurrent
  <1>1. Inv => SavedMetadataIsCurrent
    BY DEF Inv
  <1> QED BY <1>1, InvHolds, PTL

\* Which steps take a record off the list: a DELETE that returns, or a restart.
LEMMA Unlisting ==
    ASSUME Inv, Next, ss_list' # <<>>, NEW b \in file_list \ file_list'
    PROVE  \E s \in Sessions : DeleteReturns(s)
  <1>1. file_list' # file_list
    OBVIOUS
  <1>2. ASSUME NEW r, Add(b, r) \/ \E c \in Blocks : Add(c, r) PROVE FALSE
    BY <1>2 DEF Add
  <1>3. ~NameServerCrash /\ \A d : ~Restart(d)
    BY DEF NameServerCrash, Restart
  <1>4. ASSUME NEW s \in Sessions, NEW f \in Names, MetadataCommand(s, f) PROVE FALSE
    BY <1>1, <1>4 DEF MetadataCommand, handle_info, handle_req_access, handle_add_access,
                      handle_rem_access, handle_approve_req, handle_reject_req,
                      handle_annotate, Rewrite, index
  <1>5. ASSUME NEW s \in Sessions, NEW f \in Names, LifecycleCommand(s, f) PROVE FALSE
    <2>1. CASE handle_create(s, f)
      BY <2>1, <1>1, <1>2 DEF handle_create, index
    <2>2. CASE handle_create_folder(s, f)
      BY <2>2, <1>1, <1>2, <1>3 DEF handle_create_folder, index
    <2>3. CASE handle_delete(s, f)
      BY <2>3, <1>1 DEF handle_delete, index
    <2> QED BY <2>1, <2>2, <2>3, <1>5 DEF LifecycleCommand
  <1>6. ASSUME NEW s \in Sessions, NEW f \in Names, ForwardedCommand(s, f) PROVE FALSE
    BY <1>1, <1>6 DEF ForwardedCommand, handle_undo, handle_checkpoint, handle_revert,
                      handle_view_checkpoint, handle_exec, handle_read, handle_write,
                      Forward, index
  <1>7. ASSUME NEW s \in Sessions, Serve(s) PROVE FALSE
    BY <1>1, <1>7 DEF Serve, SS_CREATE, SS_DELETE, SS_UNDO, SS_CHECKPOINT, SS_REVERT,
                      SS_READ, SS_READ_CHECKPOINT, Unreachable, nameServer, index
  <1>8. ASSUME NEW s \in Sessions,
               \/ \E u \in Users : register_user(s, u)
               \/ Disconnect(s) \/ COMMIT_WRITE(s) \/ WriteEnds(s)
               \/ handle_update_meta(s) \/ CallReturns(s) \/ MetaReturns(s)
        PROVE  FALSE
    BY <1>1, <1>8 DEF register_user, Disconnect, COMMIT_WRITE, WriteEnds,
                      handle_update_meta, CallReturns, MetaReturns, nameServer, index
  <1>9. ASSUME NEW d \in Servers, register_storage_server(d) \/ StorageServerCrash(d)
        PROVE  FALSE
    BY <1>1, <1>9 DEF register_storage_server, StorageServerCrash, nameServer, index
  <1>10. ~Registration
    BY <1>1, <1>2 DEF Registration, RegisterFile, RegistrationDone, index
  <1> QED BY <1>3, <1>4, <1>5, <1>6, <1>7, <1>8, <1>9, <1>10 DEF Next, Return

\* Only the owner's DELETE takes a record off the list of a running name
\* server, although the handler waits for a storage server between its
\* permission check and the removal, and the record it checked may have come
\* from a stale cache entry.
THEOREM OnlyOwnersUnlist == Spec => OnlyOwnerUnlists
  <1> DEFINE Owned(b) == \E s \in Sessions : /\ mutex = s
                                             /\ sess[s].req = "DELETE"
                                             /\ sess[s].file = heap[b].filename
                                             /\ sess[s].user = heap[b].owner
             A == ss_list' # <<>> => \A b \in file_list \ file_list' : Owned(b)
  <1>1. ASSUME Inv, Next PROVE A
    <2> SUFFICES ASSUME ss_list' # <<>>, NEW b \in file_list \ file_list' PROVE Owned(b)
      OBVIOUS
    <2>1. PICK s \in Sessions : DeleteReturns(s)
      BY <1>1, Unlisting
    <2>2. mutex = s /\ sess[s].req = "DELETE"
      BY <1>1, <2>1 DEF DeleteReturns, Inv, DeleterHoldsMutex
    <2>3. DeleteMetadata(sess[s].file)
      BY <2>1 DEF DeleteReturns, index
    <2>4. b \in ListedAs(heap, file_list, sess[s].file)
      BY <2>3 DEF DeleteMetadata
    <2>5. sess[s].file = heap[b].filename
      BY <2>4 DEF ListedAs
    <2>6. sess[s].user = heap[b].owner
      BY <1>1, <2>2, <2>4 DEF Inv, DeleterOwnsFile
    <2> QED BY <2>2, <2>5, <2>6
  <1>2. Inv /\ [Next]_vars => [A]_vars
    BY <1>1
  <1>3. Spec => [][A]_vars
    BY <1>2, InvHolds, PTL DEF Spec
  <1> QED BY <1>3 DEF OnlyOwnerUnlists

=============================================================================
