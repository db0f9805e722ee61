---------------------------- MODULE SentenceEdit ----------------------------
(***************************************************************************)
(* What commit_changes (storage_server.c) does to the text of a document:  *)
(* find the sentence, split it into words, apply the buffered WriteOps,    *)
(* put the sentence together again.                                        *)
(*                                                                         *)
(* A text is a sequence of characters.  Space stands for " \t\n\r" and     *)
(* Stop for ".?!", which the code never tells apart; position Len(t) + 1   *)
(* is the terminating NUL of the C string.                                 *)
(***************************************************************************)
EXTENDS Integers, Sequences, FiniteSetsExt

CONSTANTS
    Letters,    \* ordinary characters
    Space,      \* blanks
    Stop,       \* sentence terminators
    MaxWords    \* MAX_WORDS * 2, the slots of the array of words

ASSUME CharactersAssumption ==
    /\ Space \notin Letters /\ Stop \notin Letters /\ Space # Stop
    /\ MaxWords \in Nat

Char == Letters \cup {Space, Stop}
Text == Seq(Char)

\* A WriteOp: the word of this index becomes content.
WriteOp == [word_index : Int, content : Text]

-----------------------------------------------------------------------------
(* Finding a sentence *)

\* strpbrk(t + i, ".?!"), 0 for NULL.
NextStop(t, i) ==
    LET stops == {j \in i..Len(t) : t[j] = Stop}
    IN  IF stops = {} THEN 0 ELSE Min(stops)

SkipBlanks(t, i) == Min({j \in i..Len(t) : t[j] # Space} \cup {Len(t) + 1})

\* Faulty variant: the search goes on from the terminator it found.
SentenceStartStuck(t, n) ==
    LET m == IF n < 0 THEN 0 ELSE n
        start[i \in 0..m] ==
          IF i = 0 THEN 1
          ELSE IF start[i - 1] = 0 THEN 0 ELSE NextStop(t, start[i - 1])
    IN  start[m]

\* Where the loop of get_nth_sentence arrives for n, 0 for NULL; a negative n
\* does not enter it.
SentenceStart(t, n) ==
    LET m == IF n < 0 THEN 0 ELSE n
        start[i \in 0..m] ==
          IF i = 0 THEN 1
          ELSE IF start[i - 1] = 0 \/ NextStop(t, start[i - 1]) = 0 THEN 0
          ELSE SkipBlanks(t, NextStop(t, start[i - 1]) + 1)
    IN  start[m]

\* Faulty variant: end_ptr is left on the terminator.
get_nth_sentenceShort(t, n) ==
    LET start == SentenceStart(t, n)
        stop == IF start = 0 THEN 0 ELSE NextStop(t, start)
    IN  [start |-> start, end |-> IF stop = 0 THEN Len(t) + 1 ELSE stop]

\* Start and end of the sentence; a NULL end_ptr means the end of the text.
get_nth_sentence(t, n) ==
    LET start == SentenceStart(t, n)
        stop == IF start = 0 THEN 0 ELSE NextStop(t, start)
    IN  [start |-> start, end |-> IF stop = 0 THEN Len(t) + 1 ELSE stop + 1]

-----------------------------------------------------------------------------
(* Editing its words *)

\* strtok(s, " \t\n\r") until it returns NULL.
Words(s) ==
    LET starts == {i \in 1..Len(s) : s[i] # Space /\ (i = 1 \/ s[i - 1] = Space)}
        End(i) == Min({j \in i..Len(s) : s[j] = Space} \cup {Len(s) + 1}) - 1
    IN  [k \in 1..Cardinality(starts) |->
           LET i == CHOOSE i \in starts : Cardinality({j \in starts : j <= i}) = k
           IN  SubSeq(s, i, End(i))]

\* What does not fit into the array is not read.
FirstWords(s) == LET w == Words(s) IN SubSeq(w, 1, Min({Len(w), MaxWords}))

\* One WriteOp: replace a word, append one, or only warn.
Apply(w, op) ==
    LET i == op.word_index IN
    IF i >= 0 /\ i < Len(w) THEN [w EXCEPT ![i + 1] = op.content]
    ELSE IF i = Len(w) /\ Len(w) < MaxWords THEN Append(w, op.content)
    ELSE w

\* The loop over the list, head first.
ApplyAll(w, ops) ==
    LET done[i \in 0..Len(ops)] ==
          IF i = 0 THEN w ELSE Apply(done[i - 1], ops[i])
    IN  done[Len(ops)]

\* A blank between two words, except before a lone terminator.
Join(w) ==
    LET joined[i \in 0..Len(w)] ==
          IF i = 0 THEN <<>>
          ELSE joined[i - 1] \o (IF i = 1 \/ w[i] = <<Stop>>
                                 THEN <<>> ELSE <<Space>>) \o w[i]
    IN  joined[Len(w)]

NotFound(t, n) == get_nth_sentence(t, n).start = 0

\* The text commit_changes writes for sentence n and the list ops, head first.
\* (Sentence 0 is always found, so the branch for it is never taken.)
commit_changes(t, n, ops) ==
    LET s == get_nth_sentence(t, n)
        words == FirstWords(SubSeq(t, s.start, s.end - 1))
    IN  IF s.start = 0 THEN t
        ELSE SubSeq(t, 1, s.start - 1) \o Join(ApplyAll(words, ops))
                                       \o SubSeq(t, s.end, Len(t))

-----------------------------------------------------------------------------
(* Sentences by counting terminators, to compare the code with *)

StopsBefore(t, i) == Cardinality({j \in 1..(i - 1) : t[j] = Stop})
Stops(t) == StopsBefore(t, Len(t) + 1)

\* The characters with exactly k terminators before them, the blanks that
\* separate them from the sentence before left out.
Sentence(t, k) ==
    LET all == {i \in 1..Len(t) : StopsBefore(t, i) = k}
        some == IF k = 0 THEN all
                ELSE {i \in all : \E j \in all : j <= i /\ t[j] # Space}
    IN  IF some = {} THEN <<>> ELSE SubSeq(t, Min(some), Max(some))

=============================================================================
