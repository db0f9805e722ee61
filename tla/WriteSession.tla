---------------------------- MODULE WriteSession ----------------------------
(***************************************************************************)
(* Write sessions on one document, word by word: handle_ss_write_session   *)
(* of the clients, the commands SS_LOCK_SENTENCE, WRITE_DATA and           *)
(* COMMIT_WRITE of the storage server, and UPDATE_META, by which the name  *)
(* server counts the words and characters of what was written.             *)
(*                                                                         *)
(* A commit is one step here: that concurrent commits behave like that is  *)
(* what module StorageServer shows (ImplementsAtomicFile).  UPDATE_META is *)
(* two, because data_mutex is released between the fetch and the store.    *)
(***************************************************************************)
EXTENDS SentenceEdit

CONSTANTS
    Clients,    \* clients with a connection to the storage server
    Documents,  \* texts the document may start with, NULL for no file
    Sentences,  \* sentence numbers clients type
    Updates,    \* the lines <word_index> <content> clients type
    MaxUpdates, \* bound on the lines of a session
    MaxCommits, \* bound on the commits of a behaviour
    MaxFetch,   \* longest text that SS_RESPONSE_LEN has room for
    NULL

ASSUME WriteSessionAssumption ==
    /\ Documents \subseteq Text \cup {NULL}
    /\ Sentences \subseteq Int
    /\ Updates \subseteq {o \in WriteOp : o.content # <<>>}
    /\ MaxUpdates \in Nat /\ MaxCommits \in Nat /\ MaxFetch \in Nat
    /\ NULL \notin Text

VARIABLES
    text,       \* the document, NULL when there is no file
    bak,        \* its backup, or NULL
    counts,     \* word_count and char_count in the metadata
    sess,       \* what each client and its threads are doing
    commits     \* number of commits so far

vars == <<text, bak, counts, sess, commits>>

Counts == [words : Nat, chars : Nat]
NoCounts == [words |-> 0, chars |-> 0]

\* pc: "off"; "locked" between ACK_LOCK and ETIRW; "meta" UPDATE_META is sent;
\* "fetched" the name server has the text and not yet data_mutex; "hung" the
\* client waits for an answer that will not come.
\* ops is the server's list of WriteOps, head first; typed is the history: the
\* lines that were acknowledged, in the order they were typed.
Session ==
    [pc : {"off", "locked", "meta", "fetched", "hung"},
     sentence : Sentences \cup {NULL}, ops : Seq(Updates), typed : Seq(Updates),
     got : Counts]

Off == [pc |-> "off", sentence |-> NULL, ops |-> <<>>, typed |-> <<>>,
        got |-> NoCounts]

-----------------------------------------------------------------------------
(* The storage server *)

\* No lock is taken: the number is noted in the thread's own variables.
SS_LOCK_SENTENCE(c, n) ==
    /\ sess[c].pc = "off" /\ commits < MaxCommits
    /\ sess' = [sess EXCEPT ![c] = [Off EXCEPT !.pc = "locked", !.sentence = n]]
    /\ UNCHANGED <<text, bak, counts, commits>>

\* Faulty variant: the new WriteOp does not point at the ones before it.
WRITE_DATAUnlinked(c, op) ==
    /\ sess[c].pc = "locked" /\ Len(sess[c].typed) < MaxUpdates
    /\ sess' = [sess EXCEPT ![c].ops = <<op>>, ![c].typed = Append(@, op)]
    /\ UNCHANGED <<text, bak, counts, commits>>

\* The new WriteOp becomes the head of the list.
WRITE_DATA(c, op) ==
    /\ sess[c].pc = "locked" /\ Len(sess[c].typed) < MaxUpdates
    /\ sess' = [sess EXCEPT ![c].ops = <<op>> \o @, ![c].typed = Append(@, op)]
    /\ UNCHANGED <<text, bak, counts, commits>>

\* The text commit_changes works on: no file is an empty one.
Content == IF text = NULL THEN <<>> ELSE text

\* Faulty variant: a missing sentence is not noticed before the backup is made.
COMMIT_WRITEAnyway(c) ==
    /\ sess[c].pc = "locked" /\ commits < MaxCommits
    /\ text' = commit_changes(Content, sess[c].sentence, sess[c].ops)
    /\ bak' = IF text = NULL THEN bak ELSE text
    /\ sess' = [sess EXCEPT ![c] = [Off EXCEPT !.pc = "meta"]]
    /\ commits' = commits + 1
    /\ UNCHANGED counts

\* ETIRW: ACK_COMMIT is sent in all cases.  There is a backup if there was a
\* file.
COMMIT_WRITE(c) ==
    /\ sess[c].pc = "locked" /\ commits < MaxCommits
    /\ IF NotFound(Content, sess[c].sentence)
       THEN UNCHANGED <<text, bak>>
       ELSE /\ text' = commit_changes(Content, sess[c].sentence, sess[c].ops)
            /\ bak' = IF text = NULL THEN bak ELSE text
    /\ sess' = [sess EXCEPT ![c] = [Off EXCEPT !.pc = "meta"]]
    /\ commits' = commits + 1
    /\ UNCHANGED counts

\* The client leaves without ETIRW, and the list is freed; or the user kills a
\* client that got no answer.
SessionEnds(c) ==
    /\ sess[c].pc \in {"locked", "hung"}
    /\ sess' = [sess EXCEPT ![c] = Off]
    /\ UNCHANGED <<text, bak, counts, commits>>

\* UNDO, by whoever may: the counts are not brought up to date.
SS_UNDO ==
    /\ bak # NULL
    /\ text' = bak
    /\ bak' = NULL
    /\ UNCHANGED <<counts, sess, commits>>

-----------------------------------------------------------------------------
(* UPDATE_META *)

\* Faulty variant: the gaps between the words are counted.
CountsOfGaps(t) == [words |-> Len(Words(t)) - 1, chars |-> Len(t) + 1]

\* SS_READ adds a newline, which strlen counts and strtok skips.
CountsOf(t) == [words |-> Len(Words(t)), chars |-> Len(t) + 1]

\* handle_update_meta up to connect_and_send_to_ss.  A text too long for the
\* buffer is a failed call, and the client is not answered; the error reply for
\* a missing file lacks its end token, and there is no step at all.
FetchText(c) ==
    /\ sess[c].pc = "meta"
    /\ text # NULL
    /\ sess' = [sess EXCEPT ![c] =
                  IF Len(text) <= MaxFetch
                  THEN [@ EXCEPT !.pc = "fetched", !.got = CountsOf(text)]
                  ELSE [@ EXCEPT !.pc = "hung"]]
    /\ UNCHANGED <<text, bak, counts, commits>>

\* Faulty variant: the number of characters is not stored.
StoreCountsWords(c) ==
    /\ sess[c].pc = "fetched"
    /\ counts' = [counts EXCEPT !.words = sess[c].got.words]
    /\ sess' = [sess EXCEPT ![c] = Off]
    /\ UNCHANGED <<text, bak, commits>>

\* The rest of handle_update_meta, with data_mutex, and the client's return.
StoreCounts(c) ==
    /\ sess[c].pc = "fetched"
    /\ counts' = sess[c].got
    /\ sess' = [sess EXCEPT ![c] = Off]
    /\ UNCHANGED <<text, bak, commits>>

-----------------------------------------------------------------------------
(* Specification *)

\* A document nobody has counted yet: just created, or brought by its server.
Init ==
    /\ text \in Documents
    /\ bak = NULL
    /\ counts = NoCounts
    /\ sess = [c \in Clients |-> Off]
    /\ commits = 0

Next ==
    \/ \E c \in Clients :
          \/ \E n \in Sentences : SS_LOCK_SENTENCE(c, n)
          \/ \E op \in Updates : WRITE_DATA(c, op)
          \/ COMMIT_WRITE(c)
          \/ SessionEnds(c)
          \/ FetchText(c)
          \/ StoreCounts(c)
    \/ SS_UNDO

Spec == Init /\ [][Next]_vars

-----------------------------------------------------------------------------
(* Properties *)

\* Every variable has its type; above all, commit_changes makes a text of a
\* text, whatever indices and sentence numbers are typed.
TypeOK ==
    /\ text \in Text \cup {NULL}
    /\ bak \in Text \cup {NULL}
    /\ counts \in Counts
    /\ sess \in [Clients -> Session]
    /\ commits \in 0..MaxCommits

\* get_nth_sentence finds what counting terminators finds: sentence n exists
\* when the text has at least n terminators, and is what follows the n-th, up
\* to and including the next one.
SentencesAreFound ==
    \A n \in 0..(Stops(Content) + 1) :
       LET s == get_nth_sentence(Content, n)
       IN  IF n > Stops(Content) THEN s.start = 0
           ELSE SubSeq(Content, s.start, s.end - 1) = Sentence(Content, n)

\* Client c sends ETIRW for sentence n (a negative number means sentence 0).
Commits(c) == sess[c].pc = "locked" /\ sess'[c].pc = "meta"
Locked(c) == IF sess[c].sentence < 0 THEN 0 ELSE sess[c].sentence

\* Whatever is typed, a commit changes nothing outside its sentence: the
\* characters up to the terminator before it stay where they are, those after
\* its own terminator are still the end of the text; and when there is no such
\* sentence, file and backup are left alone, although ACK_COMMIT is sent.
CommitsStayInPlace ==
    [][\A c \in Clients : Commits(c) =>
         LET n == Locked(c)
             before == {i \in 1..Len(Content) : StopsBefore(Content, i) < n}
             after == {i \in 1..Len(Content) : StopsBefore(Content, i) > n}
         IN  IF n > Stops(Content) THEN UNCHANGED <<text, bak>>
             ELSE /\ SubSeq(text', 1, Cardinality(before))
                       = SubSeq(Content, 1, Cardinality(before))
                  /\ SubSeq(text', Len(text') - Cardinality(after) + 1, Len(text'))
                       = SubSeq(Content, Len(Content) - Cardinality(after) + 1,
                                Len(Content))
                  /\ text # NULL => bak' = text]_vars

\* An update that cannot move a sentence boundary: it types no terminator, and
\* it neither replaces nor follows the word that carries the sentence's own.
\* A sentence with more than MaxWords words loses its end in any case.
Harmless(op, s) ==
    /\ \A i \in 1..Len(op.content) : op.content[i] # Stop
    /\ Stops(s) = 0 \/ op.word_index + 1 < Len(Words(s))

\* Sessions on different sentences do not disturb each other's numbering, as
\* long as their updates are harmless: after such a commit every other sentence
\* still has its number and its text.
EditsStayInTheirSentence ==
    [][\A c \in Clients :
         /\ Commits(c)
         /\ Len(Words(Sentence(Content, Locked(c)))) <= MaxWords
         /\ \A i \in 1..Len(sess[c].typed) :
               Harmless(sess[c].typed[i], Sentence(Content, Locked(c)))
         => \A k \in 0..Stops(Content) :
               k # Locked(c) => Sentence(Content', k) = Sentence(Content, k)]_vars

\* All the updates of a session are in the sentence when it is committed, in
\* spite of the order in which the list keeps them, if they replace different
\* words by single words; the words in between are kept.  (A word that is only a
\* terminator is glued to the one before it.)
DistinctUpdatesAreApplied ==
    [][\A c \in Clients :
         LET s == get_nth_sentence(Content, sess[c].sentence)
             old == Words(SubSeq(Content, s.start, s.end - 1))
             new == Words(SubSeq(text', s.start,
                                 Len(text') - (Len(Content) + 1 - s.end)))
             typed == sess[c].typed
         IN  /\ Commits(c)
             /\ s.start # 0
             /\ Len(old) <= MaxWords
             /\ \A i \in 1..Len(old) : old[i] # <<Stop>>
             /\ \A i \in 1..Len(typed) :
                  /\ typed[i].word_index \in 0..(Len(old) - 1)
                  /\ Words(typed[i].content) = <<typed[i].content>>
                  /\ typed[i].content # <<Stop>>
                  /\ \A j \in 1..Len(typed) :
                       typed[i].word_index = typed[j].word_index => i = j
             => /\ Len(new) = Len(old)
                /\ \A k \in 1..Len(old) :
                     \/ \E i \in 1..Len(typed) : /\ typed[i].word_index = k - 1
                                                 /\ new[k] = typed[i].content
                     \/ /\ \A i \in 1..Len(typed) : typed[i].word_index # k - 1
                        /\ new[k] = old[k]]_vars

\* handle_update_meta stores what it fetched without the mutex held in between.
\* If no second client is in UPDATE_META meanwhile, and the text fits, the
\* counts of INFO are those of the document whenever no UPDATE_META is pending
\* (until an UNDO takes the commit back), with one character too many, the
\* newline of SS_READ.  Sessions may otherwise overlap as they like.
Refreshing == {c \in Clients : sess[c].pc \in {"meta", "fetched"}}

OneAtATime ==
    /\ \A c, d \in Refreshing : c = d
    /\ \A c \in Clients : sess[c].pc # "hung"

CountsAreCurrent ==
    []OneAtATime => [](Refreshing = {} /\ bak # NULL => counts = CountsOf(text))

-----------------------------------------------------------------------------
(* What the documentation and a comment say, and the code does not do *)

\* "Client sends one or more <word_index> <content> updates" and "FIX 4:
\* Corrected WriteOp logic to handle appends": the updates of a session take
\* effect one after the other, as they were typed and acknowledged.
UpdatesApplyInOrder ==
    [][\A c \in Clients :
         Commits(c) /\ ~NotFound(Content, sess[c].sentence) =>
            text' = commit_changes(Content, sess[c].sentence, sess[c].typed)]_vars

=============================================================================
