------------------------- MODULE WriteSessionProofs -------------------------
(***************************************************************************)
(* Proofs about write sessions, for any documents, sentence numbers and    *)
(* updates: the variables keep their types, get_nth_sentence finds what    *)
(* counting terminators finds, a commit changes nothing outside of its     *)
(* sentence, updates of different words are all in it afterwards, harmless *)
(* ones leave the other sentences their numbers and texts, and the counts  *)
(* of INFO are current unless two UPDATE_META overlap.  What               *)
(* commit_changes does to a text is the subject of SentenceEditProofs and  *)
(* WordProofs.                                                             *)
(***************************************************************************)
EXTENDS WriteSession, WordProofs

-----------------------------------------------------------------------------
(* Types *)

\* Only in a session is there a sentence number.
LockedHasSentence ==
    \A c \in Clients : sess[c].pc = "locked" => sess[c].sentence \in Sentences

SessionInv == TypeOK /\ LockedHasSentence

\* The empty sequence is a text, and so is what commit_changes works on.
LEMMA ContentIsText ==
    ASSUME TypeOK
    PROVE  Content \in Text
<1>1. <<>> \in Text
  BY DEF Text
<1> QED BY <1>1 DEF TypeOK, Content

\* The counts of a text are numbers.
LEMMA CountsOfType ==
    ASSUME NEW t \in Text
    PROVE  CountsOf(t) \in Counts
<1>1. Len(Words(t)) \in Nat
  BY WordsType
<1>2. Len(t) + 1 \in Nat
  BY TextLength
<1> QED BY <1>1, <1>2 DEF CountsOf, Counts

\* Lists of updates are lists of WriteOps.
LEMMA UpdatesAreOps ==
    ASSUME NEW ops \in Seq(Updates)
    PROVE  ops \in Seq(WriteOp)
<1>1. \A o \in Updates : o \in WriteOp
  BY WriteSessionAssumption
<1>2. Len(ops) \in Nat /\ \A i \in 1..Len(ops) : ops[i] \in Updates
  OBVIOUS
<1>3. \A i \in 1..Len(ops) : ops[i] \in WriteOp
  BY <1>1, <1>2
<1>4. ops = [i \in 1..Len(ops) |-> ops[i]]
  OBVIOUS
<1> DEFINE n == Len(ops)
<1>5. n \in Nat /\ (\A i \in 1..n : ops[i] \in WriteOp) /\ ops = [i \in 1..n |-> ops[i]]
  BY <1>2, <1>3, <1>4
<1> HIDE DEF n
<1>6. [i \in 1..n |-> ops[i]] \in Seq(WriteOp)
  BY <1>5
<1> QED BY <1>5, <1>6

\* A client without a session.
LEMMA OffType == Off \in Session /\ Off.pc = "off"
<1>1. NoCounts \in Counts
  BY DEF NoCounts, Counts
<1>2. <<>> \in Seq(Updates)
  OBVIOUS
<1> QED BY <1>1, <1>2 DEF Off, Session

\* One session changes; the others keep their types.
LEMMA OneSession ==
    ASSUME SessionInv, NEW c \in Clients, NEW s \in Session,
           s.pc = "locked" => s.sentence \in Sentences,
           sess' = [sess EXCEPT ![c] = s]
    PROVE  sess' \in [Clients -> Session] /\ LockedHasSentence'
<1>1. sess \in [Clients -> Session]
  BY DEF SessionInv, TypeOK
<1>2. sess' \in [Clients -> Session]
  BY <1>1
<1>3. \A d \in Clients : sess'[d] = IF d = c THEN s ELSE sess[d]
  BY <1>1
<1> QED BY <1>2, <1>3 DEF SessionInv, LockedHasSentence

\* The fields of a session.
LEMMA SessionFields ==
    ASSUME TypeOK, NEW c \in Clients
    PROVE  /\ sess \in [Clients -> Session] /\ sess[c] \in Session
           /\ sess[c].ops \in Seq(Updates) /\ sess[c].typed \in Seq(Updates)
           /\ sess[c].got \in Counts /\ sess[c].sentence \in Sentences \cup {NULL}
<1>1. sess \in [Clients -> Session] /\ sess[c] \in Session
  BY DEF TypeOK
<1> QED BY <1>1 DEF Session

\* commit_changes makes a text of the content.
LEMMA CommitType ==
    ASSUME TypeOK, NEW n \in Sentences, NEW ops \in Seq(Updates)
    PROVE  commit_changes(Content, n, ops) \in Text
<1>1. n \in Int /\ ops \in Seq(WriteOp) /\ Content \in Text
  BY WriteSessionAssumption, UpdatesAreOps, ContentIsText
<1> DEFINE m == IF n < 0 THEN 0 ELSE n
<1>2. m \in Nat
  BY <1>1
<1> QED BY <1>1, <1>2, CommitKeeps

\* Every session starts in its initial state.
LEMMA InitInv == Init => SessionInv
<1> SUFFICES ASSUME Init PROVE SessionInv
  OBVIOUS
<1>1. text \in Text \cup {NULL} /\ bak \in Text \cup {NULL}
  BY WriteSessionAssumption DEF Init
<1>2. counts \in Counts /\ commits \in 0..MaxCommits
  BY WriteSessionAssumption DEF Init, Counts, NoCounts
<1>3. sess \in [Clients -> Session] /\ LockedHasSentence
  BY OffType DEF Init, LockedHasSentence
<1> QED BY <1>1, <1>2, <1>3 DEF SessionInv, TypeOK

\* Every action keeps the types, and the sentence number of a session.
LEMMA NextInv ==
    ASSUME SessionInv, [Next]_vars
    PROVE  SessionInv'
<1> USE DEF SessionInv
<1>1. ASSUME NEW c \in Clients, NEW n \in Sentences, SS_LOCK_SENTENCE(c, n)
      PROVE  SessionInv'
  <2> DEFINE s == [Off EXCEPT !.pc = "locked", !.sentence = n]
  <2>1. s \in Session /\ s.sentence = n
    BY OffType DEF Off, Session
  <2>2. sess' = [sess EXCEPT ![c] = s]
    BY <1>1 DEF SS_LOCK_SENTENCE
  <2> HIDE DEF s
  <2>3. sess' \in [Clients -> Session] /\ LockedHasSentence'
    BY <2>1, <2>2, OneSession
  <2> QED BY <1>1, <2>3 DEF SS_LOCK_SENTENCE, TypeOK
<1>2. ASSUME NEW c \in Clients, NEW op \in Updates, WRITE_DATA(c, op)
      PROVE  SessionInv'
  <2> DEFINE s == [sess[c] EXCEPT !.ops = <<op>> \o sess[c].ops,
                                  !.typed = Append(sess[c].typed, op)]
  <2>1. <<op>> \o sess[c].ops \in Seq(Updates) /\ Append(sess[c].typed, op) \in Seq(Updates)
    BY SessionFields
  <2>2. s \in Session /\ s.sentence = sess[c].sentence
    BY <2>1, SessionFields DEF Session
  <2>3. sess' = [sess EXCEPT ![c] = s]
    BY <1>2, SessionFields DEF WRITE_DATA, Session
  <2>4. sess[c].pc = "locked"
    BY <1>2 DEF WRITE_DATA
  <2> HIDE DEF s
  <2>5. s.sentence \in Sentences
    BY <2>2, <2>4 DEF LockedHasSentence
  <2>6. sess' \in [Clients -> Session] /\ LockedHasSentence'
    BY <2>2, <2>3, <2>5, OneSession
  <2> QED BY <1>2, <2>6 DEF WRITE_DATA, TypeOK
<1>3. ASSUME NEW c \in Clients, COMMIT_WRITE(c)
      PROVE  SessionInv'
  <2> DEFINE s == [Off EXCEPT !.pc = "meta"]
  <2>1. s \in Session /\ s.pc # "locked"
    BY OffType DEF Off, Session
  <2>2. sess' = [sess EXCEPT ![c] = s] /\ sess[c].pc = "locked"
    BY <1>3 DEF COMMIT_WRITE
  <2> HIDE DEF s
  <2>3. sess' \in [Clients -> Session] /\ LockedHasSentence'
    BY <2>1, <2>2, OneSession
  <2>4. commit_changes(Content, sess[c].sentence, sess[c].ops) \in Text
    BY <2>2, CommitType, SessionFields DEF LockedHasSentence
  <2>5. text' \in Text \cup {NULL} /\ bak' \in Text \cup {NULL}
    BY <1>3, <2>4 DEF COMMIT_WRITE, TypeOK
  <2>6. commits' \in 0..MaxCommits /\ counts' \in Counts
    BY <1>3, WriteSessionAssumption DEF COMMIT_WRITE, TypeOK
  <2> QED BY <2>3, <2>5, <2>6 DEF TypeOK
<1>4. ASSUME NEW c \in Clients, SessionEnds(c)
      PROVE  SessionInv'
  <2>1. sess' \in [Clients -> Session] /\ LockedHasSentence'
    BY <1>4, OffType, OneSession DEF SessionEnds
  <2> QED BY <1>4, <2>1 DEF SessionEnds, TypeOK
<1>5. ASSUME NEW c \in Clients, FetchText(c)
      PROVE  SessionInv'
  <2> DEFINE s == IF Len(text) <= MaxFetch
                  THEN [sess[c] EXCEPT !.pc = "fetched", !.got = CountsOf(text)]
                  ELSE [sess[c] EXCEPT !.pc = "hung"]
  <2>1. CountsOf(text) \in Counts
    BY <1>5, CountsOfType DEF FetchText, TypeOK
  <2>2. s \in Session /\ s.pc # "locked"
    BY <2>1, SessionFields DEF Session
  <2>3. sess' = [sess EXCEPT ![c] = s]
    BY <1>5, SessionFields DEF FetchText
  <2> HIDE DEF s
  <2>4. sess' \in [Clients -> Session] /\ LockedHasSentence'
    BY <2>2, <2>3, OneSession
  <2> QED BY <1>5, <2>4 DEF FetchText, TypeOK
<1>6. ASSUME NEW c \in Clients, StoreCounts(c)
      PROVE  SessionInv'
  <2>1. sess' \in [Clients -> Session] /\ LockedHasSentence'
    BY <1>6, OffType, OneSession DEF StoreCounts
  <2>2. counts' \in Counts
    BY <1>6, SessionFields DEF StoreCounts
  <2> QED BY <1>6, <2>1, <2>2 DEF StoreCounts, TypeOK
<1>7. ASSUME SS_UNDO
      PROVE  SessionInv'
  BY <1>7 DEF SS_UNDO, TypeOK, LockedHasSentence
<1>8. ASSUME UNCHANGED vars
      PROVE  SessionInv'
  BY <1>8 DEF vars, TypeOK, LockedHasSentence
<1> QED BY <1>1, <1>2, <1>3, <1>4, <1>5, <1>6, <1>7, <1>8 DEF Next

\* The types, and what a session must have, hold in every state.
THEOREM SessionInvariant == Spec => []SessionInv
<1>1. SessionInv /\ [Next]_vars => SessionInv'
  BY NextInv
<1> QED BY <1>1, InitInv, PTL DEF Spec

\* Every variable has its type: whatever is typed, commit_changes makes a text of
\* a text.
THEOREM TypeCorrect == Spec => []TypeOK
<1>1. SessionInv => TypeOK
  BY DEF SessionInv
<1> QED BY <1>1, SessionInvariant, PTL

-----------------------------------------------------------------------------
(* Sentences *)

\* get_nth_sentence agrees with counting, for any text.
LEMMA SentencesOf ==
    ASSUME NEW t \in Text, NEW n \in 0..(Stops(t) + 1)
    PROVE  LET s == get_nth_sentence(t, n)
           IN  IF n > Stops(t) THEN s.start = 0
               ELSE SubSeq(t, s.start, s.end - 1) = Sentence(t, n)
<1> DEFINE s == get_nth_sentence(t, n)
<1>1. n \in Int /\ n \in Nat /\ n = IF n < 0 THEN 0 ELSE n
  BY StopsType
<1>2. \/ n > Stops(t) /\ s.start = 0
      \/ /\ n <= Stops(t) /\ s.start # 0
         /\ \E q \in Nat : Begins(t, n, q, s.start)
         /\ Ends(t, n, s.start, s.end)
  BY <1>1, SentenceFound
<1> HIDE DEF s
<1>3. CASE n > Stops(t)
  <2>1. ~(n <= Stops(t))
    BY <1>1, <1>3, StopsType
  <2>2. s.start = 0
    BY <1>2, <2>1
  <2> QED BY <1>3, <2>2 DEF s
<1>4. CASE ~(n > Stops(t))
  <2>1. PICK q \in Nat : Begins(t, n, q, s.start)
    BY <1>2, <1>4
  <2>2. Ends(t, n, s.start, s.end)
    BY <1>2, <1>4
  <2>3. s.start \in Nat /\ s.end \in Nat
    <3>1. /\ Len(t) \in Nat /\ s.start \in 1..(Len(t) + 1)
          /\ s.end \in s.start..(Len(t) + 1)
      BY <2>1, <2>2, TextLength DEF Begins, Ends
    <3> QED BY <3>1
  <2>4. SubSeq(t, s.start, s.end - 1) = Sentence(t, n)
    BY <1>1, <2>1, <2>2, <2>3, SentenceIsThere
  <2> QED BY <1>4, <2>4 DEF s
<1> QED BY <1>3, <1>4

\* In every state get_nth_sentence finds in the document the sentences that
\* counting terminators finds there, and no others.
THEOREM SentencesFound == Spec => []SentencesAreFound
<1>1. ASSUME TypeOK PROVE SentencesAreFound
  <2>1. Content \in Text
    BY <1>1, ContentIsText
  <2> QED BY <2>1, SentencesOf DEF SentencesAreFound
<1> QED BY <1>1, TypeCorrect, PTL

-----------------------------------------------------------------------------
(* Commits *)

\* Only COMMIT_WRITE of the client itself takes it from "locked" to "meta".
LEMMA CommitsAre ==
    ASSUME SessionInv, [Next]_vars, NEW c \in Clients, Commits(c)
    PROVE  COMMIT_WRITE(c)
<1>1. sess \in [Clients -> Session]
  BY DEF SessionInv, TypeOK
<1>2. sess[c].pc = "locked" /\ sess'[c].pc = "meta"
  BY DEF Commits
<1>3. ASSUME NEW d \in Clients, NEW s, sess' = [sess EXCEPT ![d] = s], s.pc # "meta"
      PROVE  FALSE
  <2>1. sess'[c] = IF c = d THEN s ELSE sess[c]
    BY <1>1, <1>3
  <2> QED BY <1>2, <1>3, <2>1
<1>4. ASSUME NEW d \in Clients, NEW n \in Sentences, SS_LOCK_SENTENCE(d, n)
      PROVE  FALSE
  <2>1. [Off EXCEPT !.pc = "locked", !.sentence = n].pc # "meta"
    BY DEF Off
  <2> QED BY <1>3, <1>4, <2>1 DEF SS_LOCK_SENTENCE
<1>5. ASSUME NEW d \in Clients, NEW op \in Updates, WRITE_DATA(d, op)
      PROVE  FALSE
  <2>1. sess'[c].pc = sess[c].pc
    BY <1>1, <1>5 DEF WRITE_DATA, Session
  <2> QED BY <1>2, <2>1
<1>6. ASSUME NEW d \in Clients, COMMIT_WRITE(d)
      PROVE  d = c
  <2>1. d # c => sess'[c] = sess[c]
    BY <1>1, <1>6 DEF COMMIT_WRITE
  <2> QED BY <1>2, <2>1
<1>7. ASSUME NEW d \in Clients, SessionEnds(d) \/ StoreCounts(d)
      PROVE  FALSE
  BY <1>3, <1>7, OffType DEF SessionEnds, StoreCounts
<1>8. ASSUME NEW d \in Clients, FetchText(d)
      PROVE  FALSE
  <2>1. d # c => sess'[c] = sess[c]
    BY <1>1, <1>8 DEF FetchText
  <2>2. sess[d].pc = "meta"
    BY <1>8 DEF FetchText
  <2> QED BY <1>2, <2>1, <2>2
<1>9. ASSUME SS_UNDO \/ UNCHANGED vars
      PROVE  FALSE
  BY <1>2, <1>9 DEF SS_UNDO, vars
<1> QED BY <1>4, <1>5, <1>6, <1>7, <1>8, <1>9 DEF Next

\* What CommitsStayInPlace says of one step and one client.
StaysInPlace(c) ==
    LET n == Locked(c)
        before == {i \in 1..Len(Content) : StopsBefore(Content, i) < n}
        after == {i \in 1..Len(Content) : StopsBefore(Content, i) > n}
    IN  IF n > Stops(Content) THEN UNCHANGED <<text, bak>>
        ELSE /\ SubSeq(text', 1, Cardinality(before))
                  = SubSeq(Content, 1, Cardinality(before))
             /\ SubSeq(text', Len(text') - Cardinality(after) + 1, Len(text'))
                  = SubSeq(Content, Len(Content) - Cardinality(after) + 1, Len(Content))
             /\ text # NULL => bak' = text

\* A commit stays in its sentence.
LEMMA CommitStays ==
    ASSUME SessionInv, NEW c \in Clients, COMMIT_WRITE(c)
    PROVE  StaysInPlace(c)
<1> DEFINE n == sess[c].sentence
           m == Locked(c)
           ops == sess[c].ops
           b == Cardinality(Before(Content, m))
           a == Cardinality(After(Content, m))
           u == commit_changes(Content, n, ops)
<1>1. n \in Int /\ ops \in Seq(WriteOp) /\ Content \in Text
  <2>1. TypeOK /\ n \in Sentences
    BY DEF SessionInv, LockedHasSentence, COMMIT_WRITE
  <2>2. ops \in Seq(Updates)
    BY <2>1, SessionFields
  <2> QED BY <2>1, <2>2, WriteSessionAssumption, UpdatesAreOps, ContentIsText
<1>2. m \in Nat /\ m = IF n < 0 THEN 0 ELSE n
  BY <1>1 DEF Locked
<1>3. Stops(Content) \in Nat
  BY <1>1, StopsType
<1>4. /\ NotFound(Content, n) <=> m > Stops(Content)
      /\ m <= Stops(Content) => AgreeOutside(u, Content, b, a)
  <2> HIDE DEF m, n, ops
  <2> QED BY <1>1, <1>2, CommitKeeps
<1>5. CASE m > Stops(Content)
  <2>1. UNCHANGED <<text, bak>>
    BY <1>4, <1>5 DEF COMMIT_WRITE
  <2> QED BY <1>5, <2>1 DEF StaysInPlace
<1>6. CASE ~(m > Stops(Content))
  <2>1. m <= Stops(Content)
    BY <1>2, <1>3, <1>6
  <2>2. text' = u /\ (text # NULL => bak' = text)
    BY <1>4, <1>6 DEF COMMIT_WRITE
  <2>3. AgreeOutside(text', Content, b, a)
    BY <1>4, <2>1, <2>2
  <2> QED BY <1>6, <2>2, <2>3 DEF StaysInPlace, AgreeOutside, Before, After
<1> QED BY <1>5, <1>6

\* Whatever is typed, a commit changes nothing outside its sentence, and nothing
\* at all when there is no such sentence; the backup is the text it found.
THEOREM CommitsInPlace == Spec => CommitsStayInPlace
<1>1. ASSUME SessionInv, [Next]_vars
      PROVE  [\A c \in Clients : Commits(c) => StaysInPlace(c)]_vars
  BY <1>1, CommitsAre, CommitStays
<1>2. [\A c \in Clients : Commits(c) => StaysInPlace(c)]_vars
      <=> [\A c \in Clients : Commits(c) =>
             LET n == Locked(c)
                 before == {i \in 1..Len(Content) : StopsBefore(Content, i) < n}
                 after == {i \in 1..Len(Content) : StopsBefore(Content, i) > n}
             IN  IF n > Stops(Content) THEN UNCHANGED <<text, bak>>
                 ELSE /\ SubSeq(text', 1, Cardinality(before))
                           = SubSeq(Content, 1, Cardinality(before))
                      /\ SubSeq(text', Len(text') - Cardinality(after) + 1, Len(text'))
                           = SubSeq(Content, Len(Content) - Cardinality(after) + 1,
                                    Len(Content))
                      /\ text # NULL => bak' = text]_vars
  BY DEF StaysInPlace
<1> QED BY <1>1, <1>2, SessionInvariant, PTL DEF Spec, CommitsStayInPlace

-----------------------------------------------------------------------------
(* Updates *)

\* The list of WriteOps is what was typed, the last line first.
Reversed(ops, typed) ==
    /\ Len(ops) = Len(typed)
    /\ \A i \in 1..Len(typed) : ops[i] = typed[Len(typed) + 1 - i]

ListsAreReversed == \A c \in Clients : Reversed(sess[c].ops, sess[c].typed)

\* A new head is a new end of what was typed.
LEMMA ReversedStep ==
    ASSUME NEW ops \in Seq(Updates), NEW typed \in Seq(Updates), Reversed(ops, typed),
           NEW op \in Updates
    PROVE  Reversed(<<op>> \o ops, Append(typed, op))
<1> DEFINE n == Len(typed)
           a == <<op>> \o ops
           b == Append(typed, op)
<1>1. n \in Nat /\ Len(ops) = n /\ \A i \in 1..n : ops[i] = typed[n + 1 - i]
  BY DEF Reversed
<1>2. /\ Len(a) = n + 1 /\ a[1] = op /\ \A i \in 2..(n + 1) : a[i] = ops[i - 1]
  BY <1>1
<1>3. Len(b) = n + 1 /\ b[n + 1] = op /\ \A i \in 1..n : b[i] = typed[i]
  BY <1>1
<1> HIDE DEF a, b, n
<1>4. ASSUME NEW i \in 1..(n + 1) PROVE a[i] = b[(n + 1) + 1 - i]
  <2>1. CASE i = 1
    <3>1. (n + 1) + 1 - i = n + 1
      BY <1>1, <2>1
    <3> QED BY <1>2, <1>3, <2>1, <3>1
  <2>2. CASE i # 1
    <3>1. /\ i \in 2..(n + 1) /\ i - 1 \in 1..n /\ n + 1 - (i - 1) = (n + 1) + 1 - i
          /\ (n + 1) + 1 - i \in 1..n
      BY <1>1, <2>2
    <3>2. a[i] = ops[i - 1]
      BY <1>2, <3>1
    <3>3. ops[i - 1] = typed[n + 1 - (i - 1)]
      BY <1>1, <3>1
    <3>4. b[(n + 1) + 1 - i] = typed[(n + 1) + 1 - i]
      BY <1>3, <3>1
    <3> QED BY <3>1, <3>2, <3>3, <3>4
  <2> QED BY <2>1, <2>2
<1> QED BY <1>2, <1>3, <1>4 DEF Reversed, a, b

\* One session changes, or none.
LEMMA OtherLists ==
    ASSUME SessionInv, ListsAreReversed, NEW c \in Clients, NEW s,
           sess' = [sess EXCEPT ![c] = s], Reversed(s.ops, s.typed)
    PROVE  ListsAreReversed'
<1>1. \A d \in Clients : sess'[d] = IF d = c THEN s ELSE sess[d]
  BY DEF SessionInv, TypeOK
<1> QED BY <1>1 DEF ListsAreReversed

\* WRITE_DATA is the only action that makes a list longer.
LEMMA ReversedNext ==
    ASSUME SessionInv, ListsAreReversed, [Next]_vars
    PROVE  ListsAreReversed'
<1>1. sess \in [Clients -> Session] /\ TypeOK
  BY DEF SessionInv, TypeOK
<1>2. Reversed(<<>>, <<>>)
  BY DEF Reversed
<1>3. ASSUME NEW c \in Clients, NEW n \in Sentences, SS_LOCK_SENTENCE(c, n)
      PROVE  ListsAreReversed'
  <2> DEFINE s == [Off EXCEPT !.pc = "locked", !.sentence = n]
  <2>1. s.ops = <<>> /\ s.typed = <<>>
    BY DEF Off
  <2>2. sess' = [sess EXCEPT ![c] = s]
    BY <1>3 DEF SS_LOCK_SENTENCE
  <2> HIDE DEF s
  <2> QED BY <1>2, <2>1, <2>2, OtherLists
<1>4. ASSUME NEW c \in Clients, NEW op \in Updates, WRITE_DATA(c, op)
      PROVE  ListsAreReversed'
  <2> DEFINE s == [sess[c] EXCEPT !.ops = <<op>> \o sess[c].ops,
                                  !.typed = Append(sess[c].typed, op)]
  <2>1. s.ops = <<op>> \o sess[c].ops /\ s.typed = Append(sess[c].typed, op)
    BY <1>1 DEF Session
  <2>2. sess' = [sess EXCEPT ![c] = s]
    BY <1>1, <1>4 DEF WRITE_DATA, Session
  <2>3. Reversed(<<op>> \o sess[c].ops, Append(sess[c].typed, op))
    BY <1>1, SessionFields, ReversedStep DEF ListsAreReversed
  <2> HIDE DEF s
  <2> QED BY <2>1, <2>2, <2>3, OtherLists
<1>5. ASSUME NEW c \in Clients, COMMIT_WRITE(c)
      PROVE  ListsAreReversed'
  <2> DEFINE s == [Off EXCEPT !.pc = "meta"]
  <2>1. s.ops = <<>> /\ s.typed = <<>>
    BY DEF Off
  <2>2. sess' = [sess EXCEPT ![c] = s]
    BY <1>5 DEF COMMIT_WRITE
  <2> HIDE DEF s
  <2> QED BY <1>2, <2>1, <2>2, OtherLists
<1>6. ASSUME NEW c \in Clients, SessionEnds(c) \/ StoreCounts(c)
      PROVE  ListsAreReversed'
  <2>1. Off.ops = <<>> /\ Off.typed = <<>>
    BY DEF Off
  <2>2. sess' = [sess EXCEPT ![c] = Off]
    BY <1>6 DEF SessionEnds, StoreCounts
  <2> QED BY <1>2, <2>1, <2>2, OtherLists
<1>7. ASSUME NEW c \in Clients, FetchText(c)
      PROVE  ListsAreReversed'
  <2> DEFINE s == IF Len(text) <= MaxFetch
                  THEN [sess[c] EXCEPT !.pc = "fetched", !.got = CountsOf(text)]
                  ELSE [sess[c] EXCEPT !.pc = "hung"]
  <2>1. s.ops = sess[c].ops /\ s.typed = sess[c].typed
    BY <1>1 DEF Session
  <2>2. sess' = [sess EXCEPT ![c] = s]
    BY <1>1, <1>7 DEF FetchText
  <2> HIDE DEF s
  <2> QED BY <2>1, <2>2, OtherLists DEF ListsAreReversed
<1>8. ASSUME SS_UNDO \/ UNCHANGED vars
      PROVE  ListsAreReversed'
  BY <1>8 DEF SS_UNDO, vars, ListsAreReversed
<1> QED BY <1>3, <1>4, <1>5, <1>6, <1>7, <1>8 DEF Next

\* The server's list is what the client typed, the other way round.
THEOREM ListsReversed == Spec => []ListsAreReversed
<1>1. Init => ListsAreReversed
  BY DEF Init, Off, ListsAreReversed, Reversed
<1>2. SessionInv /\ ListsAreReversed /\ [Next]_vars => ListsAreReversed'
  BY ReversedNext
<1> QED BY <1>1, <1>2, SessionInvariant, PTL DEF Spec

\* Two lists hold the same updates.
SameList(ops, typed) ==
    /\ \A j \in 1..Len(ops) : \E i \in 1..Len(typed) : ops[j] = typed[i]
    /\ \A i \in 1..Len(typed) : \E j \in 1..Len(ops) : ops[j] = typed[i]

\* Every WriteOp of the list was typed, and every line that was typed is in it.
LEMMA SameUpdates ==
    ASSUME NEW ops, NEW typed, Reversed(ops, typed), Len(typed) \in Nat
    PROVE  SameList(ops, typed)
<1> DEFINE n == Len(typed)
<1>1. n \in Nat /\ Len(ops) = n /\ \A i \in 1..n : ops[i] = typed[n + 1 - i]
  BY DEF Reversed
<1> HIDE DEF n
<1>2. \A i \in 1..n : n + 1 - i \in 1..n /\ n + 1 - (n + 1 - i) = i
  BY <1>1
<1>3. \A j \in 1..n : \E i \in 1..n : ops[j] = typed[i]
  BY <1>1, <1>2
<1>4. ASSUME NEW i \in 1..n PROVE \E j \in 1..n : ops[j] = typed[i]
  <2> DEFINE j == n + 1 - i
  <2>1. j \in 1..n /\ n + 1 - j = i
    BY <1>2
  <2> HIDE DEF j
  <2>2. ops[j] = typed[i]
    BY <1>1, <2>1
  <2> QED BY <2>1, <2>2
<1> QED BY <1>1, <1>3, <1>4 DEF n, SameList

\* What a commit works on.
LEMMA CommitContext ==
    ASSUME SessionInv, ListsAreReversed, NEW c \in Clients, COMMIT_WRITE(c)
    PROVE  /\ sess[c].sentence \in Int /\ sess[c].ops \in Seq(WriteOp)
           /\ sess[c].typed \in Seq(WriteOp) /\ Content \in Text
           /\ Locked(c) \in Nat
           /\ Locked(c) = IF sess[c].sentence < 0 THEN 0 ELSE sess[c].sentence
           /\ Reversed(sess[c].ops, sess[c].typed)
           /\ ~NotFound(Content, sess[c].sentence) =>
                text' = commit_changes(Content, sess[c].sentence, sess[c].ops)
           /\ NotFound(Content, sess[c].sentence) => text' = text
<1>1. TypeOK /\ sess[c].sentence \in Sentences
  BY DEF SessionInv, LockedHasSentence, COMMIT_WRITE
<1>2. sess[c].ops \in Seq(Updates) /\ sess[c].typed \in Seq(Updates)
  BY <1>1, SessionFields
<1>3. /\ sess[c].sentence \in Int /\ sess[c].ops \in Seq(WriteOp)
      /\ sess[c].typed \in Seq(WriteOp) /\ Content \in Text
  BY <1>1, <1>2, WriteSessionAssumption, UpdatesAreOps, ContentIsText
<1>4. /\ Locked(c) = IF sess[c].sentence < 0 THEN 0 ELSE sess[c].sentence
      /\ Locked(c) \in Nat
  BY <1>3 DEF Locked
<1>5. /\ ~NotFound(Content, sess[c].sentence) =>
           text' = commit_changes(Content, sess[c].sentence, sess[c].ops)
      /\ NotFound(Content, sess[c].sentence) => text' = text
  BY DEF COMMIT_WRITE
<1> QED BY <1>3, <1>4, <1>5 DEF ListsAreReversed

\* What EditsStayInTheirSentence says of one step and one client.
EditStays(c) ==
    /\ Commits(c)
    /\ Len(Words(Sentence(Content, Locked(c)))) <= MaxWords
    /\ \A i \in 1..Len(sess[c].typed) :
          Harmless(sess[c].typed[i], Sentence(Content, Locked(c)))
    => \A k \in 0..Stops(Content) :
          k # Locked(c) => Sentence(Content', k) = Sentence(Content, k)

\* A commit of harmless updates leaves the other sentences alone.
LEMMA EditsAreLocal ==
    ASSUME SessionInv, ListsAreReversed, NEW c \in Clients, COMMIT_WRITE(c)
    PROVE  EditStays(c)
<1> DEFINE t == Content
           n == sess[c].sentence
           m == Locked(c)
           ops == sess[c].ops
           typed == sess[c].typed
<1> SUFFICES ASSUME Len(Words(Sentence(t, m))) <= MaxWords,
                    \A i \in 1..Len(typed) : Harmless(typed[i], Sentence(t, m)),
                    NEW k \in 0..Stops(t), k # m
             PROVE  Sentence(Content', k) = Sentence(t, k)
  BY DEF EditStays
<1>1. /\ n \in Int /\ ops \in Seq(WriteOp) /\ typed \in Seq(WriteOp) /\ t \in Text
      /\ m \in Nat /\ m = (IF n < 0 THEN 0 ELSE n) /\ Reversed(ops, typed)
      /\ ~NotFound(t, n) => text' = commit_changes(t, n, ops)
      /\ NotFound(t, n) => text' = text
  BY CommitContext
<1>2. CASE NotFound(t, n)
  <2>1. Content' = t
    BY <1>1, <1>2 DEF Content
  <2> QED BY <2>1
<1>3. CASE ~NotFound(t, n)
  <2>1. text' = commit_changes(t, n, ops) /\ commit_changes(t, n, ops) \in Text
    BY <1>1, <1>3, CommitKeeps
  <2>2. Content' = commit_changes(t, n, ops)
    <3>1. text' # NULL
      BY <2>1, WriteSessionAssumption
    <3> QED BY <2>1, <3>1 DEF Content
  <2>3. \A j \in 1..Len(ops) : HarmlessOp(ops[j], Sentence(t, m))
    <3>1. \A j \in 1..Len(ops) : \E i \in 1..Len(typed) : ops[j] = typed[i]
      <4> HIDE DEF t, n, m, ops, typed
      <4>1. Len(typed) \in Nat /\ Reversed(ops, typed)
        BY <1>1
      <4>2. SameList(ops, typed)
        BY <4>1, SameUpdates
      <4> QED BY <4>2 DEF SameList
    <3>2. \A i \in 1..Len(typed) : HarmlessOp(typed[i], Sentence(t, m))
      BY DEF Harmless, HarmlessOp
    <3> HIDE DEF t, m, ops, typed
    <3> QED BY <3>1, <3>2
  <2> HIDE DEF t, n, m, ops, typed
  <2>4. Sentence(commit_changes(t, n, ops), k) = Sentence(t, k)
    BY <1>1, <2>3, OthersStay
  <2> QED BY <2>2, <2>4
<1> QED BY <1>2, <1>3

\* Sessions on different sentences do not disturb each other's numbering, as long
\* as their updates are harmless.
THEOREM EditsStay == Spec => EditsStayInTheirSentence
<1>1. ASSUME SessionInv, ListsAreReversed, [Next]_vars
      PROVE  [\A c \in Clients : EditStays(c)]_vars
  <2>1. ASSUME NEW c \in Clients, Commits(c) PROVE EditStays(c)
    BY <1>1, <2>1, CommitsAre, EditsAreLocal
  <2>2. ASSUME NEW c \in Clients, ~Commits(c) PROVE EditStays(c)
    BY <2>2 DEF EditStays
  <2> QED BY <2>1, <2>2
<1>2. [\A c \in Clients : EditStays(c)]_vars
      <=> [\A c \in Clients :
             /\ Commits(c)
             /\ Len(Words(Sentence(Content, Locked(c)))) <= MaxWords
             /\ \A i \in 1..Len(sess[c].typed) :
                   Harmless(sess[c].typed[i], Sentence(Content, Locked(c)))
             => \A k \in 0..Stops(Content) :
                   k # Locked(c) => Sentence(Content', k) = Sentence(Content, k)]_vars
  BY DEF EditStays
<1> QED BY <1>1, <1>2, SessionInvariant, ListsReversed, PTL DEF Spec, EditsStayInTheirSentence

\* What DistinctUpdatesAreApplied says of one step and one client.
UpdatesAreIn(c) ==
    LET s == get_nth_sentence(Content, sess[c].sentence)
        old == Words(SubSeq(Content, s.start, s.end - 1))
        new == Words(SubSeq(text', s.start,
                            Len(text') - (Len(Content) + 1 - s.end)))
        typed == sess[c].typed
    IN  /\ Commits(c)
        /\ s.start # 0
        /\ Len(old) <= MaxWords
        /\ \A i \in 1..Len(old) : old[i] # <<Stop>>
        /\ \A i \in 1..Len(typed) :
             /\ typed[i].word_index \in 0..(Len(old) - 1)
             /\ Words(typed[i].content) = <<typed[i].content>>
             /\ typed[i].content # <<Stop>>
             /\ \A j \in 1..Len(typed) :
                  typed[i].word_index = typed[j].word_index => i = j
        => /\ Len(new) = Len(old)
           /\ \A k \in 1..Len(old) :
                \/ \E i \in 1..Len(typed) : /\ typed[i].word_index = k - 1
                                            /\ new[k] = typed[i].content
                \/ /\ \A i \in 1..Len(typed) : typed[i].word_index # k - 1
                   /\ new[k] = old[k]

\* A word that the list of WriteOps updated is one that a typed line updated.
LEMMA UpdatedAsTyped ==
    ASSUME NEW ops, NEW typed, Reversed(ops, typed), Len(typed) \in Nat,
           NEW new, NEW old, NEW k, Updated(new, old, ops, Len(ops), k)
    PROVE  \/ \E i \in 1..Len(typed) : /\ typed[i].word_index = k - 1
                                       /\ new[k] = typed[i].content
           \/ /\ \A i \in 1..Len(typed) : typed[i].word_index # k - 1
              /\ new[k] = old[k]
<1>1. /\ \A j \in 1..Len(ops) : \E i \in 1..Len(typed) : ops[j] = typed[i]
      /\ \A i \in 1..Len(typed) : \E j \in 1..Len(ops) : ops[j] = typed[i]
  <2>1. SameList(ops, typed)
    BY SameUpdates
  <2> QED BY <2>1 DEF SameList
<1>2. CASE \E j \in 1..Len(ops) : ops[j].word_index = k - 1 /\ new[k] = ops[j].content
  <2>1. PICK j \in 1..Len(ops) : ops[j].word_index = k - 1 /\ new[k] = ops[j].content
    BY <1>2
  <2>2. PICK i \in 1..Len(typed) : ops[j] = typed[i]
    BY <1>1
  <2> QED BY <2>1, <2>2
<1>3. CASE (\A j \in 1..Len(ops) : ops[j].word_index # k - 1) /\ new[k] = old[k]
  <2>1. ASSUME NEW i \in 1..Len(typed) PROVE typed[i].word_index # k - 1
    <3>1. PICK j \in 1..Len(ops) : ops[j] = typed[i]
      BY <1>1
    <3> QED BY <1>3, <3>1
  <2> QED BY <1>3, <2>1
<1> QED BY <1>2, <1>3 DEF Updated

\* After a commit the words are those typed, and the old ones elsewhere.
LEMMA CommitHasUpdates ==
    ASSUME SessionInv, ListsAreReversed, NEW c \in Clients, COMMIT_WRITE(c)
    PROVE  UpdatesAreIn(c)
<1> DEFINE t == Content
           n == sess[c].sentence
           m == Locked(c)
           ops == sess[c].ops
           typed == sess[c].typed
           s == get_nth_sentence(t, n)
           old == Words(SubSeq(t, s.start, s.end - 1))
           new == Words(SubSeq(text', s.start, Len(text') - (Len(t) + 1 - s.end)))
<1> SUFFICES ASSUME s.start # 0, Len(old) <= MaxWords,
                    \A i \in 1..Len(old) : old[i] # <<Stop>>,
                    \A i \in 1..Len(typed) :
                      /\ typed[i].word_index \in 0..(Len(old) - 1)
                      /\ Words(typed[i].content) = <<typed[i].content>>
                      /\ typed[i].content # <<Stop>>
             PROVE  /\ Len(new) = Len(old)
                    /\ \A k \in 1..Len(old) :
                         \/ \E i \in 1..Len(typed) : /\ typed[i].word_index = k - 1
                                                     /\ new[k] = typed[i].content
                         \/ /\ \A i \in 1..Len(typed) : typed[i].word_index # k - 1
                            /\ new[k] = old[k]
  BY DEF UpdatesAreIn
<1>1. /\ n \in Int /\ ops \in Seq(WriteOp) /\ typed \in Seq(WriteOp) /\ t \in Text
      /\ m \in Nat /\ m = (IF n < 0 THEN 0 ELSE n) /\ Reversed(ops, typed)
      /\ ~NotFound(t, n) => text' = commit_changes(t, n, ops)
  BY CommitContext
<1>2. text' = commit_changes(t, n, ops)
  BY <1>1 DEF NotFound
<1>3. \A i \in 1..Len(typed) :
         typed[i].word_index \in 0..(Len(old) - 1) /\ OneWordOp(typed[i])
  BY DEF OneWordOp
<1> HIDE DEF t, n, m, ops, typed, old, new
<1>4. \A j \in 1..Len(ops) : ops[j].word_index \in 0..(Len(old) - 1) /\ OneWordOp(ops[j])
  <2>1. Len(typed) \in Nat /\ Reversed(ops, typed)
    BY <1>1
  <2>2. \A j \in 1..Len(ops) : \E i \in 1..Len(typed) : ops[j] = typed[i]
    <3>1. SameList(ops, typed)
      BY <2>1, SameUpdates
    <3> QED BY <3>1 DEF SameList
  <2> QED BY <1>3, <2>2
<1>5. PICK q \in Nat, p \in Nat, e \in Nat : CommitAt(t, n, m, ops, text', q, p, e)
  BY <1>1, <1>2, CommitSplices
<1>6. s.start = p /\ s.end = e /\ SubSeq(t, p, e - 1) \in Text
  BY <1>5 DEF CommitAt
<1> DEFINE x == SubSeq(t, p, e - 1)
           y == Edited(x, ops)
<1>7. SubSeq(text', p, Len(text') - (Len(t) + 1 - e)) = y
  <2>1. EditedThere(text', t, p, e, ops)
    BY <1>1, <1>5, CommittedWords, Zenon
  <2> QED BY <2>1, Zenon DEF EditedThere
<1>8. old = Words(x) /\ new = Words(y) /\ x \in Text
  BY <1>6, <1>7, Zenon DEF old, new
<1> HIDE DEF x, s
<1>9. Len(new) = Len(old) /\ \A k \in 1..Len(old) : Updated(new, old, ops, Len(ops), k)
  <2>1. /\ Len(Words(y)) = Len(old)
        /\ \A k \in 1..Len(old) : Updated(Words(y), old, ops, Len(ops), k)
    BY <1>1, <1>4, <1>8, EditedWords
  <2> QED BY <1>8, <2>1, Zenon
<1>10. Len(typed) \in Nat
  BY <1>1
<1> QED BY <1>1, <1>9, <1>10, UpdatedAsTyped

\* The updates of a session that replace different words by single words are all
\* in the sentence that is committed, and the words in between are kept.
THEOREM UpdatesApplied == Spec => DistinctUpdatesAreApplied
<1>1. ASSUME SessionInv, ListsAreReversed, [Next]_vars
      PROVE  [\A c \in Clients : UpdatesAreIn(c)]_vars
  <2>1. ASSUME NEW c \in Clients, Commits(c) PROVE UpdatesAreIn(c)
    BY <1>1, <2>1, CommitsAre, CommitHasUpdates
  <2>2. ASSUME NEW c \in Clients, ~Commits(c) PROVE UpdatesAreIn(c)
    BY <2>2 DEF UpdatesAreIn
  <2> QED BY <2>1, <2>2
<1>2. [\A c \in Clients : UpdatesAreIn(c)]_vars
      <=> [\A c \in Clients :
             LET s == get_nth_sentence(Content, sess[c].sentence)
                 old == Words(SubSeq(Content, s.start, s.end - 1))
                 new == Words(SubSeq(text', s.start,
                                     Len(text') - (Len(Content) + 1 - s.end)))
                 typed == sess[c].typed
             IN  /\ Commits(c)
                 /\ s.start # 0
                 /\ Len(old) <= MaxWords
                 /\ \A i \in 1..Len(old) : old[i] # <<Stop>>
                 /\ \A i \in 1..Len(typed) :
                      /\ typed[i].word_index \in 0..(Len(old) - 1)
                      /\ Words(typed[i].content) = <<typed[i].content>>
                      /\ typed[i].content # <<Stop>>
                      /\ \A j \in 1..Len(typed) :
                           typed[i].word_index = typed[j].word_index => i = j
                 => /\ Len(new) = Len(old)
                    /\ \A k \in 1..Len(old) :
                         \/ \E i \in 1..Len(typed) : /\ typed[i].word_index = k - 1
                                                     /\ new[k] = typed[i].content
                         \/ /\ \A i \in 1..Len(typed) : typed[i].word_index # k - 1
                            /\ new[k] = old[k]]_vars
  BY DEF UpdatesAreIn
<1> QED BY <1>1, <1>2, SessionInvariant, ListsReversed, PTL DEF Spec, DistinctUpdatesAreApplied

-----------------------------------------------------------------------------
(* Counts *)

\* What was fetched, and what is stored once nobody is fetching, are the counts of
\* the document, as long as the last commit has not been taken back.
CountsInv ==
    /\ \A c \in Clients : sess[c].pc = "fetched" /\ bak # NULL => sess[c].got = CountsOf(text)
    /\ Refreshing = {} /\ bak # NULL => counts = CountsOf(text)

\* A step that leaves the document and the sessions in UPDATE_META alone.
LEMMA CountsUndisturbed ==
    ASSUME CountsInv, UNCHANGED <<text, bak, counts>>,
           \A d \in Clients : sess'[d].pc \in {"meta", "fetched"}
                                <=> sess[d].pc \in {"meta", "fetched"},
           \A d \in Clients : sess'[d].pc = "fetched" => sess'[d] = sess[d]
    PROVE  CountsInv'
<1>1. Refreshing' = Refreshing
  BY DEF Refreshing
<1>2. CountsOf(text)' = CountsOf(text)
  OBVIOUS
<1> QED BY <1>1, <1>2 DEF CountsInv

\* A step after which no two clients are in UPDATE_META keeps the counts current.
LEMMA CountsStep ==
    ASSUME SessionInv, CountsInv, OneAtATime', [Next]_vars
    PROVE  CountsInv'
<1>1. sess \in [Clients -> Session]
  BY DEF SessionInv, TypeOK
<1>2. ASSUME NEW c \in Clients, NEW n \in Sentences, SS_LOCK_SENTENCE(c, n)
      PROVE  CountsInv'
  <2>1. \A d \in Clients : d # c => sess'[d] = sess[d]
    BY <1>1, <1>2 DEF SS_LOCK_SENTENCE
  <2>2. sess'[c].pc = "locked" /\ sess[c].pc = "off"
    BY <1>1, <1>2 DEF SS_LOCK_SENTENCE, Off
  <2> QED BY <1>2, <2>1, <2>2, CountsUndisturbed DEF SS_LOCK_SENTENCE
<1>3. ASSUME NEW c \in Clients, NEW op \in Updates, WRITE_DATA(c, op)
      PROVE  CountsInv'
  <2>1. \A d \in Clients : d # c => sess'[d] = sess[d]
    BY <1>1, <1>3 DEF WRITE_DATA
  <2>2. sess'[c].pc = "locked" /\ sess[c].pc = "locked"
    BY <1>1, <1>3 DEF WRITE_DATA, Session
  <2> QED BY <1>3, <2>1, <2>2, CountsUndisturbed DEF WRITE_DATA
<1>4. ASSUME NEW c \in Clients, COMMIT_WRITE(c)
      PROVE  CountsInv'
  <2>1. sess'[c].pc = "meta"
    BY <1>1, <1>4 DEF COMMIT_WRITE, Off
  <2>2. c \in Refreshing'
    BY <2>1 DEF Refreshing
  <2>3. \A d \in Clients : sess'[d].pc # "fetched"
    <3> SUFFICES ASSUME NEW d \in Clients, sess'[d].pc = "fetched" PROVE FALSE
      OBVIOUS
    <3>1. d \in Refreshing'
      BY DEF Refreshing
    <3>2. c = d
      BY <2>2, <3>1 DEF OneAtATime
    <3> QED BY <2>1, <3>2
  <2> QED BY <2>2, <2>3 DEF CountsInv
<1>5. ASSUME NEW c \in Clients, SessionEnds(c)
      PROVE  CountsInv'
  <2>1. \A d \in Clients : d # c => sess'[d] = sess[d]
    BY <1>1, <1>5 DEF SessionEnds
  <2>2. sess'[c].pc = "off" /\ sess[c].pc \in {"locked", "hung"}
    BY <1>1, <1>5, OffType DEF SessionEnds
  <2> QED BY <1>5, <2>1, <2>2, CountsUndisturbed DEF SessionEnds
<1>6. ASSUME NEW c \in Clients, FetchText(c)
      PROVE  CountsInv'
  <2>1. \A d \in Clients : d # c => sess'[d] = sess[d]
    BY <1>1, <1>6 DEF FetchText
  <2>2. sess'[c].pc # "hung"
    BY DEF OneAtATime
  <2>3. sess'[c].pc = "fetched" /\ sess'[c].got = CountsOf(text)
    BY <1>1, <1>6, <2>2 DEF FetchText, Session
  <2>4. c \in Refreshing'
    BY <2>3 DEF Refreshing
  <2>5. UNCHANGED <<text, bak>>
    BY <1>6 DEF FetchText
  <2> QED BY <2>1, <2>3, <2>4, <2>5 DEF CountsInv
<1>7. ASSUME NEW c \in Clients, StoreCounts(c)
      PROVE  CountsInv'
  <2>1. \A d \in Clients : d # c => sess'[d] = sess[d]
    BY <1>1, <1>7 DEF StoreCounts
  <2>2. sess'[c].pc = "off" /\ sess[c].pc = "fetched" /\ counts' = sess[c].got
    BY <1>1, <1>7, OffType DEF StoreCounts
  <2>3. UNCHANGED <<text, bak>>
    BY <1>7 DEF StoreCounts
  <2> QED BY <2>1, <2>2, <2>3 DEF CountsInv
<1>8. ASSUME SS_UNDO
      PROVE  CountsInv'
  BY <1>8 DEF SS_UNDO, CountsInv
<1>9. ASSUME UNCHANGED vars
      PROVE  CountsInv'
  BY <1>9, CountsUndisturbed DEF vars
<1> QED BY <1>2, <1>3, <1>4, <1>5, <1>6, <1>7, <1>8, <1>9 DEF Next

\* If no second client is in UPDATE_META while one is, the counts of INFO are those
\* of the document whenever no UPDATE_META is pending.
THEOREM CountsCurrent == Spec => CountsAreCurrent
<1>1. Init => CountsInv
  BY DEF Init, CountsInv, Off
<1>2. SessionInv /\ CountsInv /\ OneAtATime' /\ [Next]_vars => CountsInv'
  BY CountsStep
<1>3. CountsInv => (Refreshing = {} /\ bak # NULL => counts = CountsOf(text))
  BY DEF CountsInv
<1> QED BY <1>1, <1>2, <1>3, SessionInvariant, PTL DEF Spec, CountsAreCurrent

=============================================================================
