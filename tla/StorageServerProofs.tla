------------------------ MODULE StorageServerProofs ------------------------
(***************************************************************************)
(* The storage server keeps its invariant for any number of threads,       *)
(* inodes and commits: whatever runs beside commit_changes without the     *)
(* mutex, the version that a commit publishes is its own edit.             *)
(***************************************************************************)
EXTENDS StorageServer, SequenceTheorems, TLAPS

-----------------------------------------------------------------------------
(* Facts about the types *)

\* NULL is none of the other values.
LEMMA NullDistinct ==
    NULL \notin Inodes /\ NULL \notin Threads /\ NULL \notin Nat
        /\ NULL \notin Seq(Version) /\ NULL # "live"
BY StorageAssumption DEF Version, Paths

\* An empty file is a file, and so is an edited one.
LEMMA ContentTypes ==
    /\ Empty \in Content
    /\ \A c \in Content, n \in Nat : Edited(c, n) \in Content
<1>1. Empty \in Content
  BY DEF Empty, Content, Version
<1>2. ASSUME NEW c \in Content, NEW n \in Nat
      PROVE  Edited(c, n) \in Content
  BY DEF Edited, Content, Version
<1> QED BY <1>1, <1>2

\* A thread between commands is well typed and has no stream open.
LEMMA IdleType ==
    /\ Idle \in Thread
    /\ Idle.pc = "idle" /\ Idle.src = NULL /\ Idle.dst = NULL
BY ContentTypes DEF Idle, Thread

\* Opening a path for writing yields an inode: the one it names already, or one
\* that no path and no stream refers to.
LEMMA OpenedInode ==
    ASSUME TypeOK, NEW p \in Paths, CanOpen(p)
    PROVE  /\ Opened(p) \in Inodes
           /\ Opened(p) = dir[p] \/ Opened(p) \notin InUse
BY DEF TypeOK, CanOpen, Opened

-----------------------------------------------------------------------------
(* Every step preserves the invariant *)

\* The state after SS_CREATE of a new document satisfies the invariant.
LEMMA InitInv == Init => Inv
<1> SUFFICES ASSUME Init PROVE Inv
  OBVIOUS
<1> USE NullDistinct, IdleType, ContentTypes
<1>1. dir["live"] \in Inodes /\ \A p \in Paths : p # "live" => dir[p] = NULL
  BY StorageAssumption DEF Init, Paths
<1>2. TypeOK
  BY <1>1 DEF Init, TypeOK, Paths
<1>3. StreamsOpen /\ CommitIsExclusive /\ CommitPublishesItsEdit
  BY DEF Init, StreamsOpen, CommitIsExclusive, CommitPublishesItsEdit, Committing
<1>4. TmpIsPrivate
  BY <1>1 DEF Init, TmpIsPrivate, Paths
<1> QED BY <1>2, <1>3, <1>4 DEF Inv

\* A step of a thread that is not inside commit_changes, before or after, and
\* that touches neither the files nor the mutex, keeps the invariant when the
\* thread's new state is well formed.
LEMMA ThreadStepInv ==
    ASSUME Inv, NEW t \in Threads, NEW r \in Thread,
           thr' = [thr EXCEPT ![t] = r],
           thr[t].pc \notin Committing, r.pc \notin Committing,
           r.pc \in {"read", "dest", "copy"} =>
              r.src \in Inodes /\ r.got \in Seq(Version) /\ Len(r.got) < 2,
           r.pc \in {"dest", "copy"} => r.path \in {"live", "chk"},
           r.pc = "copy" => r.dst \in Inodes,
           dir["tmp"] # NULL => dir["tmp"] \notin {r.src, r.dst},
           UNCHANGED <<dir, data, mutex, commits, acked>>
    PROVE  Inv'
<1> USE DEF Inv
<1>1. TypeOK'
  BY DEF TypeOK
<1>2. thr'[t] = r /\ \A u \in Threads : u # t => thr'[u] = thr[u]
  BY DEF TypeOK
<1>3. StreamsOpen'
  BY <1>2 DEF StreamsOpen
<1>4. CommitIsExclusive'
  BY <1>2 DEF CommitIsExclusive
<1>5. TmpIsPrivate'
  BY <1>2 DEF TmpIsPrivate
<1>6. CommitPublishesItsEdit'
  BY <1>2 DEF CommitPublishesItsEdit, Committing
<1> QED BY <1>1, <1>3, <1>4, <1>5, <1>6

\* A session that starts, is given up, a reader that opens a file or sends a
\* block, and a copy that opens its source only change their thread's state.
LEMMA SessionInv ==
    ASSUME Inv, NEW t \in Threads,
           \/ \E s \in Sentences : SS_LOCK_SENTENCE(t, s)
           \/ SessionAbandoned(t)
    PROVE  Inv'
<1> USE IdleType, NullDistinct
<1>1. CASE SessionAbandoned(t)
  BY <1>1, ThreadStepInv, Zenon DEF SessionAbandoned, Committing
<1>2. ASSUME NEW s \in Sentences, SS_LOCK_SENTENCE(t, s)
      PROVE  Inv'
  <2> DEFINE r == [Idle EXCEPT !.pc = "locked", !.sentence = s]
  <2>1. r \in Thread /\ r.pc = "locked" /\ r.src = NULL /\ r.dst = NULL
    BY DEF Idle, Thread
  <2>2. thr' = [thr EXCEPT ![t] = r] /\ thr[t].pc \notin Committing
        /\ UNCHANGED <<dir, data, mutex, commits, acked>>
    BY <1>2 DEF SS_LOCK_SENTENCE, Committing
  <2> HIDE DEF r
  <2> QED BY <2>1, <2>2, ThreadStepInv DEF Committing
<1> QED BY <1>1, <1>2

\* Opening a path other than the .tmp file for reading.
LEMMA OpenInv ==
    ASSUME Inv, NEW t \in Threads, NEW p \in {"live", "chk"}, OpenForRead(t, p)
    PROVE  Inv'
<1> USE NullDistinct
<1> DEFINE r == IF dir[p] = NULL
                THEN [Idle EXCEPT !.path = p, !.got = NULL]
                ELSE [Idle EXCEPT !.path = p, !.pc = "read", !.src = dir[p]]
<1>1. dir[p] \in Inodes \cup {NULL} /\ (dir[p] # NULL => dir[p] # dir["tmp"])
  BY DEF Inv, TypeOK, TmpIsPrivate, Paths
<1>2. r \in Thread /\ r.pc \in {"idle", "read"} /\ r.dst = NULL
      /\ (r.pc = "read" => r.got = <<>> /\ r.src = dir[p] /\ r.src \in Inodes)
      /\ (r.src # NULL => r.src # dir["tmp"])
  BY <1>1, IdleType DEF Idle, Thread, Content, Version
<1>3. thr' = [thr EXCEPT ![t] = r] /\ thr[t].pc \notin Committing
      /\ UNCHANGED <<dir, data, mutex, commits, acked>>
  BY DEF OpenForRead, Committing
<1>4. <<>> \in Seq(Version) /\ Len(<<>>) < 2
  OBVIOUS
<1> HIDE DEF r
<1> QED BY <1>2, <1>3, <1>4, ThreadStepInv DEF Committing

\* One block of a file being sent.
LEMMA SendInv ==
    ASSUME Inv, NEW t \in Threads, SendBlock(t)
    PROVE  Inv'
<1> USE NullDistinct
<1> DEFINE k == Len(thr[t].got) + 1
           g == Append(thr[t].got, data[thr[t].src][k])
           r == [thr[t] EXCEPT !.got = g,
                               !.pc = IF k = 2 THEN "idle" ELSE @,
                               !.src = IF k = 2 THEN NULL ELSE @]
<1>1. thr[t] \in Thread /\ thr[t].pc = "read" /\ thr[t].src \in Inodes
      /\ thr[t].got \in Seq(Version) /\ Len(thr[t].got) < 2
  BY DEF Inv, TypeOK, StreamsOpen, SendBlock
<1>2. k \in 1..2 /\ g \in Seq(Version) /\ Len(g) = k
  <2>1. Len(thr[t].got) \in Nat
    BY <1>1
  <2>2. k \in 1..2
    BY <1>1, <2>1
  <2>3. data[thr[t].src][k] \in Version
    BY <1>1, <2>2 DEF Inv, TypeOK, Content
  <2> HIDE DEF k
  <2>4. g \in Seq(Version) /\ Len(g) = Len(thr[t].got) + 1
    BY <1>1, <2>3
  <2> QED BY <2>2, <2>4 DEF k
<1>3. thr' = [thr EXCEPT ![t] = r] /\ UNCHANGED <<dir, data, mutex, commits, acked>>
  BY DEF SendBlock, Inv, TypeOK
<1> HIDE DEF k, g
<1>4. r \in Thread /\ r.pc \in {"idle", "read"} /\ r.got = g
      /\ (r.pc = "read" => k # 2 /\ r.src = thr[t].src)
      /\ r.src \in {thr[t].src, NULL} /\ r.dst = thr[t].dst
  BY <1>1, <1>2 DEF Thread
<1>5. dir["tmp"] # NULL => dir["tmp"] \notin {r.src, r.dst}
  BY <1>4 DEF Inv, TmpIsPrivate
<1>6. k # 2 => k < 2
  BY <1>2
<1> HIDE DEF r
<1> QED BY <1>1, <1>2, <1>3, <1>4, <1>5, <1>6, ThreadStepInv DEF Committing

\* copy_file opening its source.
LEMMA CopyBeginsInv ==
    ASSUME Inv, NEW t \in Threads, NEW p \in {"live", "chk"},
           NEW q \in {"live", "chk"}, CopyBegins(t, p, q)
    PROVE  Inv'
<1> USE NullDistinct
<1> DEFINE r == [Idle EXCEPT !.pc = "dest", !.path = q, !.src = dir[p]]
<1>1. dir[p] \in Inodes /\ dir[p] # dir["tmp"]
  BY DEF Inv, TypeOK, TmpIsPrivate, Paths, CopyBegins
<1>2. r \in Thread /\ r.pc = "dest" /\ r.dst = NULL /\ r.path = q
      /\ r.got = <<>> /\ r.src = dir[p]
  BY <1>1, IdleType DEF Idle, Thread, Content, Version
<1>3. thr' = [thr EXCEPT ![t] = r] /\ thr[t].pc \notin Committing
      /\ UNCHANGED <<dir, data, mutex, commits, acked>>
  BY DEF CopyBegins, Committing
<1>4. <<>> \in Seq(Version) /\ Len(<<>>) < 2
  OBVIOUS
<1> HIDE DEF r
<1> QED BY <1>1, <1>2, <1>3, <1>4, ThreadStepInv DEF Committing

-----------------------------------------------------------------------------
(* commit_changes *)

\* The steps of commit_changes: the mutex follows the thread in and out, the
\* .tmp file is written by its holder alone, and the renames move it whole.
LEMMA CommitInv ==
    ASSUME Inv, NEW t \in Threads, CommitStep(t)
    PROVE  Inv'
<1> USE NullDistinct, IdleType DEF Inv
<1>0. thr[t] \in Thread /\ t # NULL
  BY DEF TypeOK
<1>1. CASE CommitBegins(t)
  <2>0. thr[t].pc = "locked" /\ mutex = NULL /\ mutex' = t
        /\ UNCHANGED <<dir, data, commits, acked>>
    BY <1>1 DEF CommitBegins
  <2>1. Base \in Content
    BY ContentTypes DEF Base, TypeOK, Paths
  <2>2. /\ thr'[t].pc = "edit" /\ thr'[t].src = thr[t].src /\ thr'[t].dst = thr[t].dst
        /\ \A u \in Threads : u # t => thr'[u] = thr[u]
        /\ thr' \in [Threads -> Thread]
    <3> DEFINE e == dir["live"] # NULL
               x == [thr[t] EXCEPT !.pc = "edit", !.buf = Base, !.existed = e]
    <3>1. /\ x \in Thread /\ x.pc = "edit" /\ x.src = thr[t].src /\ x.dst = thr[t].dst
      <4>1. e \in BOOLEAN
        OBVIOUS
      <4> HIDE DEF e
      <4> QED BY <1>0, <2>1, <4>1 DEF Thread
    <3>2. thr' = [thr EXCEPT ![t] = x]
      BY <1>0, <1>1 DEF CommitBegins, TypeOK, Thread
    <3>3. thr \in [Threads -> Thread]
      BY DEF TypeOK
    <3> HIDE DEF x
    <3> QED BY <3>1, <3>2, <3>3
  <2>3. TypeOK'
    BY <2>0, <2>2 DEF TypeOK
  <2>4. StreamsOpen'
    BY <2>2 DEF StreamsOpen
  <2>5. CommitIsExclusive'
    BY <2>0, <2>2 DEF CommitIsExclusive, Committing
  <2>6. TmpIsPrivate'
    BY <2>0, <2>2 DEF TmpIsPrivate
  <2>7. CommitPublishesItsEdit'
    BY <2>0, <2>2 DEF CommitPublishesItsEdit, CommitIsExclusive, Committing
  <2> QED BY <2>3, <2>4, <2>5, <2>6, <2>7
<1>2. CASE SentenceNotFound(t)
  <2>0. thr[t].pc = "edit" /\ mutex' = NULL /\ UNCHANGED <<dir, data, commits, acked>>
    BY <1>2 DEF SentenceNotFound
  <2>2. /\ thr'[t] = Idle
        /\ \A u \in Threads : u # t => thr'[u] = thr[u]
        /\ thr' \in [Threads -> Thread]
    BY <1>0, <1>2 DEF SentenceNotFound, TypeOK
  <2>3. TypeOK'
    BY <2>0, <2>2 DEF TypeOK
  <2>4. StreamsOpen'
    BY <2>2 DEF StreamsOpen
  <2>5. CommitIsExclusive'
    BY <2>0, <2>2 DEF CommitIsExclusive, Committing
  <2>6. TmpIsPrivate'
    BY <2>0, <2>2 DEF TmpIsPrivate
  <2>7. CommitPublishesItsEdit'
    BY <2>0, <2>2 DEF CommitPublishesItsEdit
  <2> QED BY <2>3, <2>4, <2>5, <2>6, <2>7
<1>3. CASE WriteTmp(t)
  <2> DEFINE i == Opened("tmp")
  <2>0. /\ thr[t].pc = "edit" /\ CanOpen("tmp") /\ UNCHANGED <<mutex, acked>>
        /\ dir' = [dir EXCEPT !["tmp"] = i] /\ commits' = commits + 1
        /\ data' = [data EXCEPT ![i] = Edited(thr[t].buf, commits + 1)]
    BY <1>3 DEF WriteTmp
  <2>1. i \in Inodes /\ (i = dir["tmp"] \/ i \notin InUse)
    BY <2>0, OpenedInode DEF Paths
  <2>2. /\ \A p \in Paths : p # "tmp" => dir[p] # i
        /\ \A u \in Threads : i \notin {thr[u].src, thr[u].dst}
    BY <2>1 DEF InUse, TmpIsPrivate, Paths
  <2> HIDE DEF i
  <2>3. /\ thr'[t].pc = "backup" /\ thr'[t].src = thr[t].src
        /\ thr'[t].dst = thr[t].dst /\ thr'[t].buf = thr[t].buf
        /\ \A u \in Threads : u # t => thr'[u] = thr[u]
        /\ thr' \in [Threads -> Thread]
    BY <1>0, <1>3 DEF WriteTmp, TypeOK, Thread
  <2>4. thr[t].buf \in Content /\ commits + 1 \in Nat
    BY <1>0 DEF Thread, TypeOK
  <2>5. /\ dir' \in [Paths -> Inodes \cup {NULL}] /\ dir'["tmp"] = i
        /\ \A p \in Paths : p # "tmp" => dir'[p] = dir[p]
    BY <2>0, <2>1 DEF TypeOK, Paths
  <2>6. TypeOK'
    BY <2>0, <2>1, <2>3, <2>4, <2>5, ContentTypes DEF TypeOK
  <2>7. StreamsOpen'
    BY <2>3 DEF StreamsOpen
  <2>8. CommitIsExclusive'
    BY <2>0, <2>3 DEF CommitIsExclusive, Committing
  <2>9. TmpIsPrivate'
    BY <2>2, <2>3, <2>5 DEF TmpIsPrivate
  <2>10. CommitPublishesItsEdit'
    <3>1. data'[i] = Edited(thr[t].buf, commits')
      BY <2>0, <2>1 DEF TypeOK
    <3>2. \A u \in Threads : u # t => thr[u].pc \notin {"backup", "publish"}
      BY <2>0 DEF CommitIsExclusive, Committing
    <3> QED BY <2>1, <2>3, <2>5, <3>1, <3>2 DEF CommitPublishesItsEdit
  <2> QED BY <2>6, <2>7, <2>8, <2>9, <2>10
<1>4. CASE BackupRename(t)
  <2>0. thr[t].pc = "backup" /\ UNCHANGED <<data, mutex, commits, acked>>
        /\ (dir' = dir \/ (dir["live"] # NULL /\ dir' = rename("live", "bak")))
    BY <1>4 DEF BackupRename
  <2>1. /\ dir' \in [Paths -> Inodes \cup {NULL}] /\ dir'["tmp"] = dir["tmp"]
        /\ \A p, q \in Paths : p # q /\ dir'[p] # NULL => dir'[p] # dir'[q]
    BY <2>0 DEF rename, TypeOK, Paths, TmpIsPrivate
  <2>2. /\ thr'[t].pc = "publish" /\ thr'[t].src = thr[t].src
        /\ thr'[t].dst = thr[t].dst /\ thr'[t].buf = thr[t].buf
        /\ \A u \in Threads : u # t => thr'[u] = thr[u]
        /\ thr' \in [Threads -> Thread]
    BY <1>0, <1>4 DEF BackupRename, TypeOK, Thread
  <2>3. TypeOK'
    BY <2>0, <2>1, <2>2 DEF TypeOK
  <2>4. StreamsOpen'
    BY <2>2 DEF StreamsOpen
  <2>5. CommitIsExclusive'
    BY <2>0, <2>2 DEF CommitIsExclusive, Committing
  <2>6. TmpIsPrivate'
    BY <2>1, <2>2 DEF TmpIsPrivate
  <2>7. CommitPublishesItsEdit'
    BY <2>0, <2>1, <2>2 DEF CommitPublishesItsEdit
  <2> QED BY <2>3, <2>4, <2>5, <2>6, <2>7
<1>5. CASE Publish(t)
  <2>0. thr[t].pc = "publish" /\ mutex' = NULL /\ UNCHANGED <<data, commits>>
        /\ acked' = acked \cup {commits} /\ dir' = rename("tmp", "live")
    BY <1>5 DEF Publish
  <2>1. /\ dir' \in [Paths -> Inodes \cup {NULL}] /\ dir'["tmp"] = NULL
        /\ \A p, q \in Paths : p # q /\ dir'[p] # NULL => dir'[p] # dir'[q]
    BY <2>0 DEF rename, TypeOK, Paths, TmpIsPrivate
  <2>2. /\ thr'[t] = Idle
        /\ \A u \in Threads : u # t => thr'[u] = thr[u]
        /\ thr' \in [Threads -> Thread]
    BY <1>0, <1>5 DEF Publish, TypeOK
  <2>3. TypeOK'
    BY <2>0, <2>1, <2>2 DEF TypeOK
  <2>4. StreamsOpen'
    BY <2>2 DEF StreamsOpen
  <2>5. CommitIsExclusive'
    BY <2>0, <2>2 DEF CommitIsExclusive, Committing
  <2>6. TmpIsPrivate'
    BY <2>1 DEF TmpIsPrivate
  <2>7. CommitPublishesItsEdit'
    BY <2>0, <2>2 DEF CommitPublishesItsEdit, CommitIsExclusive, Committing
  <2> QED BY <2>3, <2>4, <2>5, <2>6, <2>7
<1> QED BY <1>1, <1>2, <1>3, <1>4, <1>5 DEF CommitStep

-----------------------------------------------------------------------------
(* What runs beside it without the mutex *)

\* Steps that leave every thread inside commit_changes, the mutex and the .tmp
\* file alone keep what a commit relies on.
LEMMA BesideCommit ==
    ASSUME Inv, TypeOK', StreamsOpen',
           \A u \in Threads : \/ thr'[u] = thr[u]
                               \/ {thr[u].pc, thr'[u].pc} \cap Committing = {},
           dir'["tmp"] = dir["tmp"],
           dir["tmp"] # NULL => data'[dir["tmp"]] = data[dir["tmp"]],
           \A p, q \in Paths : p # q /\ dir'[p] # NULL => dir'[p] # dir'[q],
           dir["tmp"] # NULL =>
              \A u \in Threads : dir["tmp"] \notin {thr'[u].src, thr'[u].dst},
           UNCHANGED <<mutex, commits>>
    PROVE  Inv'
<1> USE DEF Inv
<1>1. CommitIsExclusive'
  BY DEF CommitIsExclusive
<1>2. TmpIsPrivate'
  BY DEF TmpIsPrivate
<1>3. CommitPublishesItsEdit'
  BY DEF CommitPublishesItsEdit, Committing
<1> QED BY <1>1, <1>2, <1>3

\* copy_file truncating its destination: never the .tmp file.
LEMMA CopyTruncatesInv ==
    ASSUME Inv, NEW t \in Threads, CopyTruncates(t)
    PROVE  Inv'
<1> USE NullDistinct
<1> DEFINE q == thr[t].path
           i == Opened(q)
<1>0. thr[t] \in Thread /\ thr[t].pc = "dest" /\ CanOpen(q) /\ q \in {"live", "chk"}
      /\ thr[t].src \in Inodes /\ thr[t].got \in Seq(Version) /\ Len(thr[t].got) < 2
  BY DEF CopyTruncates, Inv, TypeOK, StreamsOpen
<1>1. i \in Inodes /\ (i = dir[q] \/ i \notin InUse)
  BY <1>0, OpenedInode DEF Paths, Inv
<1>2. \A p \in Paths : p # q => dir[p] # i
  BY <1>0, <1>1 DEF InUse, Inv, TmpIsPrivate, Paths
<1>3. /\ dir' = [dir EXCEPT ![q] = i] /\ data' = [data EXCEPT ![i] = Empty]
      /\ UNCHANGED <<mutex, commits, acked>>
  BY DEF CopyTruncates
<1> HIDE DEF i
<1>4. /\ thr'[t] = [thr[t] EXCEPT !.pc = "copy", !.dst = i]
      /\ \A u \in Threads : u # t => thr'[u] = thr[u]
      /\ thr' \in [Threads -> Thread]
  BY <1>0, <1>1 DEF CopyTruncates, i, Inv, TypeOK, Thread
<1> HIDE DEF q
<1>5. /\ dir' \in [Paths -> Inodes \cup {NULL}] /\ dir'[q] = i
      /\ \A p \in Paths : p # q => dir'[p] = dir[p]
  BY <1>0, <1>1, <1>3 DEF Inv, TypeOK, Paths
<1>6. TypeOK'
  BY <1>1, <1>3, <1>4, <1>5, ContentTypes DEF Inv, TypeOK
<1>7. /\ thr'[t].pc = "copy" /\ thr'[t].src = thr[t].src /\ thr'[t].dst = i
      /\ thr'[t].path = q /\ thr'[t].got = thr[t].got
  BY <1>0, <1>4 DEF Thread, q
<1>8. StreamsOpen'
  BY <1>0, <1>1, <1>4, <1>7 DEF Inv, StreamsOpen
<1>9. dir["tmp"] # i /\ dir'["tmp"] = dir["tmp"]
  BY <1>0, <1>2, <1>5 DEF Paths
<1>10. dir["tmp"] # NULL => data'[dir["tmp"]] = data[dir["tmp"]]
  BY <1>1, <1>3, <1>9 DEF Inv, TypeOK, Paths
<1>11. \A p, r \in Paths : p # r /\ dir'[p] # NULL => dir'[p] # dir'[r]
  BY <1>2, <1>5 DEF Inv, TmpIsPrivate
<1>12. dir["tmp"] # NULL =>
          \A u \in Threads : dir["tmp"] \notin {thr'[u].src, thr'[u].dst}
  <2>1. dir["tmp"] # NULL =>
          \A u \in Threads : dir["tmp"] \notin {thr[u].src, thr[u].dst}
    BY DEF Inv, TmpIsPrivate
  <2>2. \A u \in Threads : thr'[u].src = thr[u].src /\ thr'[u].dst \in {thr[u].dst, i}
    BY <1>4, <1>7
  <2> QED BY <1>9, <2>1, <2>2
<1>13. \A u \in Threads : \/ thr'[u] = thr[u]
                           \/ {thr[u].pc, thr'[u].pc} \cap Committing = {}
  BY <1>0, <1>4, <1>7 DEF Committing
<1> QED BY <1>3, <1>6, <1>8, <1>9, <1>10, <1>11, <1>12, <1>13, BesideCommit

\* copy_file writing a block to its destination.
LEMMA CopyBlockInv ==
    ASSUME Inv, NEW t \in Threads, CopyBlock(t)
    PROVE  Inv'
<1> USE NullDistinct, IdleType
<1> DEFINE k == Len(thr[t].got) + 1
           block == data[thr[t].src][k]
           j == thr[t].dst
<1>0. thr[t] \in Thread /\ thr[t].pc = "copy" /\ j \in Inodes
      /\ thr[t].path \in {"live", "chk"}
      /\ thr[t].src \in Inodes /\ thr[t].got \in Seq(Version) /\ Len(thr[t].got) < 2
  BY DEF CopyBlock, Inv, TypeOK, StreamsOpen
<1>1. k \in 1..2
  <2>1. Len(thr[t].got) \in Nat
    BY <1>0
  <2> QED BY <1>0, <2>1
<1>2. block \in Version
  BY <1>0, <1>1 DEF Inv, TypeOK, Content
<1>3. /\ data' = [data EXCEPT ![j] = [@ EXCEPT ![k] = block]]
      /\ thr' = [thr EXCEPT ![t] = IF k = 2 THEN Idle
                     ELSE [thr[t] EXCEPT !.got = Append(thr[t].got, block)]]
      /\ UNCHANGED <<dir, mutex, commits, acked>>
  BY DEF CopyBlock
<1>4. k # 2 => Append(thr[t].got, block) \in Seq(Version)
               /\ Len(Append(thr[t].got, block)) < 2
  <2> HIDE DEF block
  <2>1. Append(thr[t].got, block) \in Seq(Version)
        /\ Len(Append(thr[t].got, block)) = Len(thr[t].got) + 1
    BY <1>0, <1>2
  <2> QED BY <1>1, <2>1
<1> HIDE DEF k, block, j
<1>5. /\ \A u \in Threads : u # t => thr'[u] = thr[u]
      /\ thr'[t] = IF k = 2 THEN Idle
                   ELSE [thr[t] EXCEPT !.got = Append(thr[t].got, block)]
  BY <1>3 DEF Inv, TypeOK
<1>6. /\ thr'[t] \in Thread /\ thr'[t].pc \in {"idle", "copy"}
      /\ thr'[t].src \in {thr[t].src, NULL} /\ thr'[t].dst \in {j, NULL}
      /\ (thr'[t].pc = "copy" =>
            /\ thr'[t].src = thr[t].src /\ thr'[t].dst = j
            /\ thr'[t].path = thr[t].path
            /\ thr'[t].got \in Seq(Version) /\ Len(thr'[t].got) < 2)
  <2>1. CASE k = 2
    BY <1>5, <2>1
  <2>2. CASE k # 2
    BY <1>0, <1>4, <1>5, <2>2 DEF Thread, j
  <2> QED BY <2>1, <2>2
<1>7. data' \in [Inodes -> Content] /\ \A i \in Inodes : i # j => data'[i] = data[i]
  <2>1. [data[j] EXCEPT ![k] = block] \in Content
    BY <1>0, <1>1, <1>2 DEF Inv, TypeOK, Content
  <2> QED BY <1>0, <1>3, <2>1 DEF Inv, TypeOK
<1>8. TypeOK'
  BY <1>3, <1>5, <1>6, <1>7 DEF Inv, TypeOK
<1>9. StreamsOpen'
  BY <1>0, <1>5, <1>6 DEF Inv, StreamsOpen
<1>10. dir["tmp"] # NULL =>
          \A u \in Threads : dir["tmp"] \notin {thr'[u].src, thr'[u].dst}
  BY <1>5, <1>6 DEF Inv, TmpIsPrivate, j
<1>11. dir["tmp"] # NULL => data'[dir["tmp"]] = data[dir["tmp"]]
  BY <1>7 DEF Inv, TypeOK, TmpIsPrivate, Paths, j
<1>12. \A u \in Threads : \/ thr'[u] = thr[u]
                           \/ {thr[u].pc, thr'[u].pc} \cap Committing = {}
  BY <1>0, <1>5, <1>6 DEF Committing
<1> QED BY <1>3, <1>8, <1>9, <1>10, <1>11, <1>12, BesideCommit DEF Inv, TmpIsPrivate

\* SS_CREATE, SS_DELETE and SS_UNDO move names, never the .tmp file's.
LEMMA NamesInv ==
    ASSUME Inv, SS_CREATE \/ SS_DELETE \/ SS_UNDO
    PROVE  Inv'
<1> USE NullDistinct
<1>0. UNCHANGED <<mutex, thr, commits, acked>>
  BY DEF SS_CREATE, SS_DELETE, SS_UNDO
<1>1. /\ dir' \in [Paths -> Inodes \cup {NULL}] /\ dir'["tmp"] = dir["tmp"]
      /\ \A p, q \in Paths : p # q /\ dir'[p] # NULL => dir'[p] # dir'[q]
      /\ data' \in [Inodes -> Content]
      /\ dir["tmp"] # NULL => data'[dir["tmp"]] = data[dir["tmp"]]
  <2>1. CASE SS_CREATE
    <3> DEFINE i == Opened("live")
    <3>1. /\ dir' = [dir EXCEPT !["live"] = i] /\ data' = [data EXCEPT ![i] = Empty]
          /\ dir["live"] = NULL /\ CanOpen("live")
      BY <2>1 DEF SS_CREATE
    <3>2. i \in Inodes /\ i \notin InUse
      BY <3>1, OpenedInode DEF Paths, Inv
    <3>3. \A p \in Paths : dir[p] # i
      BY <3>2 DEF InUse
    <3> HIDE DEF i
    <3> QED BY <3>1, <3>2, <3>3, ContentTypes DEF Inv, TypeOK, TmpIsPrivate, Paths
  <2>2. CASE SS_DELETE
    BY <2>2 DEF SS_DELETE, Inv, TypeOK, TmpIsPrivate, Paths
  <2>3. CASE SS_UNDO
    BY <2>3 DEF SS_UNDO, rename, Inv, TypeOK, TmpIsPrivate, Paths
  <2> QED BY <2>1, <2>2, <2>3
<1>2. TypeOK'
  BY <1>0, <1>1 DEF Inv, TypeOK
<1>3. StreamsOpen'
  BY <1>0 DEF Inv, StreamsOpen
<1> QED BY <1>0, <1>1, <1>2, <1>3, BesideCommit DEF Inv, TmpIsPrivate

\* After a crash nobody commits, and a .tmp file that was left is nobody's.
LEMMA CrashInv ==
    ASSUME Inv, Crash
    PROVE  Inv'
<1> USE NullDistinct, IdleType DEF Inv
<1>1. TypeOK'
  BY DEF Crash, TypeOK
<1>2. StreamsOpen' /\ CommitIsExclusive' /\ CommitPublishesItsEdit'
  BY DEF Crash, StreamsOpen, CommitIsExclusive, CommitPublishesItsEdit, Committing
<1>3. TmpIsPrivate'
  BY DEF Crash, TmpIsPrivate
<1> QED BY <1>1, <1>2, <1>3

\* Every step preserves the invariant.
LEMMA NextInv == Inv /\ [Next]_vars => Inv'
<1> SUFFICES ASSUME Inv, [Next]_vars PROVE Inv'
  OBVIOUS
<1>1. CASE UNCHANGED vars
  BY <1>1 DEF vars, Inv, TypeOK, StreamsOpen, CommitIsExclusive, TmpIsPrivate,
              CommitPublishesItsEdit
<1>2. ASSUME NEW t \in Threads,
             \/ \E s \in Sentences : SS_LOCK_SENTENCE(t, s)
             \/ SessionAbandoned(t)
             \/ CommitStep(t)
      PROVE  Inv'
  BY <1>2, SessionInv, CommitInv
<1>3. ASSUME NEW t \in Threads, SS_READ(t) \/ SS_READ_CHECKPOINT(t) \/ SendBlock(t)
      PROVE  Inv'
  BY <1>3, OpenInv, SendInv DEF SS_READ, SS_READ_CHECKPOINT
<1>4. ASSUME NEW t \in Threads,
             SS_CHECKPOINT(t) \/ SS_REVERT(t) \/ CopyTruncates(t) \/ CopyBlock(t)
      PROVE  Inv'
  BY <1>4, CopyBeginsInv, CopyTruncatesInv, CopyBlockInv DEF SS_CHECKPOINT, SS_REVERT
<1>5. CASE SS_CREATE \/ SS_DELETE \/ SS_UNDO \/ Crash
  BY <1>5, NamesInv, CrashInv
<1> QED BY <1>1, <1>2, <1>3, <1>4, <1>5 DEF Next

\* In every reachable state of the storage server the mutex is held by exactly
\* the thread inside commit_changes, and what that thread is about to rename
\* into place is the edit of the text it read.
THEOREM InvHolds == Spec => []Inv
BY InitInv, NextInv, PTL DEF Spec

-----------------------------------------------------------------------------
(* Readers *)

\* What the proof about readers carries along.
ReadInv == DocumentIsWhole /\ ReadersSeeWholeVersions

\* An empty file is whole, and so is the edit of a whole one.
LEMMA WholeEdits ==
    /\ Whole(Empty)
    /\ \A c \in Content, n \in Nat : Whole(c) => Whole(Edited(c, n))
<1>1. Whole(Empty)
  BY DEF Whole, Empty
<1>2. ASSUME NEW c \in Content, NEW n \in Nat, Whole(c)
      PROVE  Whole(Edited(c, n))
  BY <1>2 DEF Whole, Edited
<1> QED BY <1>1, <1>2

\* A thread that does not read, copy or edit afterwards, beside files that are
\* left alone, cannot disturb the readers.
LEMMA ReadThreadStep ==
    ASSUME Inv, ReadInv, NEW t \in Threads, NEW r,
           thr' = [thr EXCEPT ![t] = r], UNCHANGED <<dir, data>>,
           r.pc \in {"idle", "locked", "backup", "publish"},
           r.pc = "idle" /\ r.path = "live" /\ r.got # NULL => r.got[1] = r.got[2]
    PROVE  ReadInv'
<1>1. thr'[t] = r /\ \A u \in Threads : u # t => thr'[u] = thr[u]
  BY DEF Inv, TypeOK
<1>2. DocumentIsWhole'
  BY <1>1 DEF ReadInv, DocumentIsWhole
<1>3. ReadersSeeWholeVersions'
  BY <1>1 DEF ReadInv, ReadersSeeWholeVersions
<1> QED BY <1>2, <1>3 DEF ReadInv

\* Opening the document or its checkpoint for reading.
LEMMA ReadOpen ==
    ASSUME Inv, ReadInv, NEW t \in Threads, NEW p \in {"live", "chk"},
           OpenForRead(t, p)
    PROVE  ReadInv'
<1> USE NullDistinct, IdleType
<1> DEFINE r == IF dir[p] = NULL
                THEN [Idle EXCEPT !.path = p, !.got = NULL]
                ELSE [Idle EXCEPT !.path = p, !.pc = "read", !.src = dir[p]]
<1>0. thr' = [thr EXCEPT ![t] = r] /\ UNCHANGED <<dir, data>>
  BY DEF OpenForRead
<1>1. CASE dir[p] = NULL
  <2>1. r.pc = "idle" /\ r.got = NULL
    BY <1>1 DEF Idle
  <2> HIDE DEF r
  <2> QED BY <1>0, <2>1, ReadThreadStep
<1>2. CASE dir[p] # NULL
  <2>1. r.pc = "read" /\ r.path = p /\ r.src = dir[p] /\ r.got = <<>>
    BY <1>2 DEF Idle
  <2> HIDE DEF r
  <2>2. thr'[t] = r /\ \A u \in Threads : u # t => thr'[u] = thr[u]
    BY <1>0 DEF Inv, TypeOK
  <2>3. p = "live" => dir[p] # dir["chk"]
    BY <1>2 DEF Inv, TmpIsPrivate, Paths
  <2>4. DocumentIsWhole'
    BY <1>0, <1>2, <2>1, <2>2, <2>3 DEF ReadInv, DocumentIsWhole, Document
  <2>5. ReadersSeeWholeVersions'
    BY <2>1, <2>2 DEF ReadInv, ReadersSeeWholeVersions
  <2> QED BY <2>4, <2>5 DEF ReadInv
<1> QED BY <1>1, <1>2

\* Sending a block: the second comes from the inode the first came from, which
\* has not changed in between.
LEMMA ReadSend ==
    ASSUME Inv, ReadInv, NEW t \in Threads, SendBlock(t)
    PROVE  ReadInv'
<1> USE NullDistinct
<1> DEFINE k == Len(thr[t].got) + 1
           b == data[thr[t].src][k]
           g == Append(thr[t].got, b)
           r == [thr[t] EXCEPT !.got = g,
                               !.pc = IF k = 2 THEN "idle" ELSE @,
                               !.src = IF k = 2 THEN NULL ELSE @]
<1>1. thr[t] \in Thread /\ thr[t].pc = "read" /\ thr[t].src \in Inodes
      /\ thr[t].got \in Seq(Version) /\ Len(thr[t].got) < 2
  BY DEF Inv, TypeOK, StreamsOpen, SendBlock
<1>2. Len(thr[t].got) = 0 \/ Len(thr[t].got) = 1
  <2>1. Len(thr[t].got) \in Nat /\ Len(thr[t].got) < 2
    BY <1>1
  <2>2. \A n \in Nat : n < 2 => n = 0 \/ n = 1
    OBVIOUS
  <2> QED BY <2>1, <2>2, Zenon
<1>3. b \in Version
  BY <1>1, <1>2 DEF Inv, TypeOK, Content
<1>4. thr' = [thr EXCEPT ![t] = r] /\ UNCHANGED <<dir, data>>
  BY DEF SendBlock, Inv, TypeOK
<1>5. thr'[t] = r /\ \A u \in Threads : u # t => thr'[u] = thr[u]
  BY <1>4 DEF Inv, TypeOK
<1> HIDE DEF b
<1>6. /\ g \in Seq(Version) /\ Len(g) = Len(thr[t].got) + 1
      /\ g[Len(thr[t].got) + 1] = b
      /\ Len(thr[t].got) = 1 => g[1] = thr[t].got[1]
  BY <1>1, <1>3
<1> HIDE DEF g
<1>7. r.got = g /\ r.path = thr[t].path
      /\ (k = 2 => r.pc = "idle") /\ (k # 2 => r.pc = "read" /\ r.src = thr[t].src)
  BY <1>1 DEF Thread
<1> HIDE DEF r
<1>8. CASE Len(thr[t].got) = 1
  <2>1. thr[t].path = "live" => g[1] = g[2]
    BY <1>1, <1>6, <1>8 DEF ReadInv, DocumentIsWhole, Whole, b
  <2>2. r.pc = "idle" /\ r.got = g /\ r.path = thr[t].path
    BY <1>7, <1>8
  <2> QED BY <1>4, <2>1, <2>2, ReadThreadStep
<1>9. CASE Len(thr[t].got) = 0
  <2>1. r.pc = "read" /\ r.src = thr[t].src /\ g[1] = data[thr[t].src][1]
    BY <1>6, <1>7, <1>9 DEF b
  <2>2. DocumentIsWhole'
    BY <1>1, <1>4, <1>5, <1>7, <2>1 DEF ReadInv, DocumentIsWhole
  <2>3. ReadersSeeWholeVersions'
    BY <1>5, <2>1 DEF ReadInv, ReadersSeeWholeVersions
  <2> QED BY <2>2, <2>3 DEF ReadInv
<1> QED BY <1>2, <1>8, <1>9

\* Steps that rename and remove the document's paths among themselves, or give
\* one of them a fresh whole inode, while no thread starts to read or copy.
LEMMA ReadNames ==
    ASSUME Inv, ReadInv, dir'["chk"] = dir["chk"],
           NEW i,
           \A p \in Document : \/ dir'[p] = NULL \/ dir'[p] = i
                               \/ \E q \in Document : dir'[p] = dir[q],
           \A j \in Inodes : j # i => data'[j] = data[j],
           i # NULL => i \in Inodes /\ Whole(data'[i]),
           \A u \in Threads : i # NULL => i \notin {thr[u].src, thr[u].dst},
           \A u \in Threads :
              \/ thr'[u] = thr[u]
              \/ thr'[u].pc \in {"backup", "publish"}
              \/ thr'[u].pc = "idle" /\ thr'[u].path = NULL
    PROVE  ReadInv'
<1> USE NullDistinct
<1>1. \A p \in Document : dir'[p] # NULL => Whole(data'[dir'[p]])
  <2> SUFFICES ASSUME NEW p \in Document, dir'[p] # NULL PROVE Whole(data'[dir'[p]])
    OBVIOUS
  <2>1. CASE dir'[p] = i
    BY <2>1
  <2>2. CASE dir'[p] # i
    <3>1. PICK q \in Document : dir'[p] = dir[q]
      BY <2>2
    <3>2. dir[q] \in Inodes
      BY <3>1 DEF Inv, TypeOK, Paths, Document
    <3> QED BY <2>2, <3>1, <3>2 DEF ReadInv, DocumentIsWhole
  <2> QED BY <2>1, <2>2
<1>2. ASSUME NEW t \in Threads, thr'[t] = thr[t], thr[t].pc = "copy"
      PROVE  \A p \in Document : dir'[p] # thr[t].dst
  <2>1. thr[t].dst \in Inodes
    BY <1>2 DEF Inv, StreamsOpen
  <2> QED BY <1>2, <2>1 DEF ReadInv, DocumentIsWhole
<1>3. ASSUME NEW t \in Threads, thr'[t] = thr[t], thr[t].pc = "read"
      PROVE  data'[thr[t].src] = data[thr[t].src]
  <2>1. thr[t].src \in Inodes
    BY <1>3 DEF Inv, StreamsOpen
  <2> QED BY <2>1
<1>4. DocumentIsWhole'
  BY <1>1, <1>2, <1>3 DEF ReadInv, DocumentIsWhole
<1>5. ReadersSeeWholeVersions'
  BY DEF ReadInv, ReadersSeeWholeVersions
<1> QED BY <1>4, <1>5 DEF ReadInv

\* A commit reads a whole file, edits it into an inode of its own and moves
\* names.
LEMMA ReadCommit ==
    ASSUME Inv, ReadInv, NEW t \in Threads, CommitStep(t)
    PROVE  ReadInv'
<1> USE NullDistinct, IdleType
<1>0. thr[t] \in Thread
  BY DEF Inv, TypeOK
<1>1. CASE CommitBegins(t)
  <2>1. Whole(Base)
    BY WholeEdits DEF ReadInv, DocumentIsWhole, Base, Document
  <2>2. thr'[t].pc = "edit" /\ thr'[t].buf = Base /\ UNCHANGED <<dir, data>>
        /\ \A u \in Threads : u # t => thr'[u] = thr[u]
    BY <1>0, <1>1 DEF CommitBegins, Inv, TypeOK, Thread
  <2>3. DocumentIsWhole'
    BY <2>1, <2>2 DEF ReadInv, DocumentIsWhole
  <2>4. ReadersSeeWholeVersions'
    BY <2>2 DEF ReadInv, ReadersSeeWholeVersions
  <2> QED BY <2>3, <2>4 DEF ReadInv
<1>2. CASE SentenceNotFound(t)
  <2>1. Idle.path = NULL
    BY DEF Idle
  <2> QED BY <1>2, <2>1, ReadThreadStep DEF SentenceNotFound
<1>3. CASE WriteTmp(t)
  <2> DEFINE i == Opened("tmp")
  <2>1. /\ thr[t].pc = "edit" /\ CanOpen("tmp") /\ dir' = [dir EXCEPT !["tmp"] = i]
        /\ data' = [data EXCEPT ![i] = Edited(thr[t].buf, commits + 1)]
    BY <1>3 DEF WriteTmp
  <2>2. i \in Inodes /\ (i = dir["tmp"] \/ i \notin InUse)
    BY <2>1, OpenedInode DEF Paths, Inv
  <2>3. \A u \in Threads : i \notin {thr[u].src, thr[u].dst}
    BY <2>2 DEF InUse, Inv, TmpIsPrivate
  <2> HIDE DEF i
  <2>4. thr[t].buf \in Content /\ commits + 1 \in Nat
    BY <1>0 DEF Thread, Inv, TypeOK
  <2>5. Whole(data'[i])
    BY <2>1, <2>2, <2>4, WholeEdits DEF Inv, TypeOK, ReadInv, DocumentIsWhole
  <2>6. /\ thr'[t].pc = "backup" /\ \A u \in Threads : u # t => thr'[u] = thr[u]
    BY <1>0, <1>3 DEF WriteTmp, Inv, TypeOK, Thread
  <2>7. /\ dir'["chk"] = dir["chk"]
        /\ \A p \in Document : dir'[p] = i \/ dir'[p] = dir[p]
    BY <2>1 DEF Inv, TypeOK, Paths, Document
  <2>8. \A j \in Inodes : j # i => data'[j] = data[j]
    BY <2>1 DEF Inv, TypeOK
  <2> QED BY <2>2, <2>3, <2>5, <2>6, <2>7, <2>8, ReadNames
<1>4. CASE BackupRename(t)
  <2>1. /\ dir'["chk"] = dir["chk"] /\ data' = data
        /\ \A p \in Document : \/ dir'[p] = NULL
                               \/ \E q \in Document : dir'[p] = dir[q]
    BY <1>4 DEF BackupRename, rename, Inv, TypeOK, Paths, Document
  <2>2. thr'[t].pc = "publish" /\ \A u \in Threads : u # t => thr'[u] = thr[u]
    BY <1>0, <1>4 DEF BackupRename, Inv, TypeOK, Thread
  <2> QED BY <2>1, <2>2, ReadNames
<1>5. CASE Publish(t)
  <2>1. /\ dir'["chk"] = dir["chk"] /\ data' = data
        /\ \A p \in Document : \/ dir'[p] = NULL
                               \/ \E q \in Document : dir'[p] = dir[q]
    BY <1>5 DEF Publish, rename, Inv, TypeOK, Paths, Document
  <2>2. thr'[t] = Idle /\ Idle.path = NULL
        /\ \A u \in Threads : u # t => thr'[u] = thr[u]
    BY <1>5 DEF Publish, Inv, TypeOK, Idle
  <2> QED BY <2>1, <2>2, ReadNames
<1> QED BY <1>1, <1>2, <1>3, <1>4, <1>5 DEF CommitStep

\* Creating, deleting and undoing.
LEMMA ReadNaming ==
    ASSUME Inv, ReadInv, SS_CREATE \/ SS_DELETE \/ SS_UNDO
    PROVE  ReadInv'
<1> USE NullDistinct
<1>0. thr' = thr
  BY DEF SS_CREATE, SS_DELETE, SS_UNDO
<1>1. CASE SS_CREATE
  <2> DEFINE i == Opened("live")
  <2>1. /\ dir' = [dir EXCEPT !["live"] = i] /\ data' = [data EXCEPT ![i] = Empty]
        /\ dir["live"] = NULL /\ CanOpen("live")
    BY <1>1 DEF SS_CREATE
  <2>2. i \in Inodes /\ i \notin InUse
    BY <2>1, OpenedInode DEF Paths, Inv
  <2>3. \A u \in Threads : i \notin {thr[u].src, thr[u].dst}
    BY <2>2 DEF InUse
  <2> HIDE DEF i
  <2>4. Whole(data'[i]) /\ \A j \in Inodes : j # i => data'[j] = data[j]
    BY <2>1, <2>2, WholeEdits DEF Inv, TypeOK
  <2>5. /\ dir'["chk"] = dir["chk"]
        /\ \A p \in Document : dir'[p] = i \/ dir'[p] = dir[p]
    BY <2>1 DEF Inv, TypeOK, Paths, Document
  <2> QED BY <1>0, <2>2, <2>3, <2>4, <2>5, ReadNames
<1>2. CASE SS_DELETE \/ SS_UNDO
  <2>1. /\ dir'["chk"] = dir["chk"] /\ data' = data
        /\ \A p \in Document : \/ dir'[p] = NULL
                               \/ \E q \in Document : dir'[p] = dir[q]
    BY <1>2 DEF SS_DELETE, SS_UNDO, rename, Inv, TypeOK, Paths, Document
  <2> QED BY <1>0, <2>1, ReadNames
<1> QED BY <1>1, <1>2

\* A copy, which without REVERT goes to the checkpoint, leaves the document's
\* inodes and those its readers have open alone.
LEMMA ReadCopy ==
    ASSUME Inv, ReadInv, NEW t \in Threads, "REVERT" \notin Ops,
           SS_CHECKPOINT(t) \/ SS_REVERT(t) \/ CopyTruncates(t) \/ CopyBlock(t)
    PROVE  ReadInv'
<1> USE NullDistinct, IdleType
<1>0. thr[t] \in Thread
  BY DEF Inv, TypeOK
<1>1. CASE SS_CHECKPOINT(t)
  <2>1. thr'[t].pc = "dest" /\ thr'[t].path = "chk" /\ UNCHANGED <<dir, data>>
        /\ \A u \in Threads : u # t => thr'[u] = thr[u]
    BY <1>1 DEF SS_CHECKPOINT, CopyBegins, Inv, TypeOK, Idle
  <2>2. DocumentIsWhole'
    BY <2>1 DEF ReadInv, DocumentIsWhole
  <2>3. ReadersSeeWholeVersions'
    BY <2>1 DEF ReadInv, ReadersSeeWholeVersions
  <2> QED BY <2>2, <2>3 DEF ReadInv
<1>2. CASE CopyTruncates(t)
  <2> DEFINE i == Opened("chk")
  <2>1. thr[t].pc = "dest" /\ thr[t].path = "chk" /\ CanOpen("chk")
    BY <1>2 DEF CopyTruncates, ReadInv, DocumentIsWhole
  <2>2. i \in Inodes /\ (i = dir["chk"] \/ i \notin InUse)
    BY <2>1, OpenedInode DEF Paths, Inv
  <2>3. /\ dir' = [dir EXCEPT !["chk"] = i] /\ data' = [data EXCEPT ![i] = Empty]
        /\ thr' = [thr EXCEPT ![t].pc = "copy", ![t].dst = i]
    BY <1>2, <2>1 DEF CopyTruncates
  <2>4. /\ \A p \in Document : dir[p] # i
        /\ \A u \in Threads : thr[u].pc = "read" /\ thr[u].path = "live" => thr[u].src # i
    BY <2>2 DEF InUse, Inv, TmpIsPrivate, Paths, Document, ReadInv, DocumentIsWhole
  <2> HIDE DEF i
  <2>5. /\ dir'["chk"] = i /\ \A p \in Document : dir'[p] = dir[p]
        /\ \A j \in Inodes : j # i => data'[j] = data[j]
    BY <2>3 DEF Inv, TypeOK, Paths, Document
  <2>6. /\ thr'[t].pc = "copy" /\ thr'[t].path = "chk" /\ thr'[t].dst = i
        /\ \A u \in Threads : u # t => thr'[u] = thr[u]
    BY <1>0, <2>1, <2>3 DEF Inv, TypeOK, Thread
  <2>7. \A p \in Document : dir[p] # NULL => dir[p] \in Inodes
    BY DEF Inv, TypeOK, Paths, Document
  <2>8. \A u \in Threads : thr[u].pc = "read" => thr[u].src \in Inodes
    BY DEF Inv, StreamsOpen
  <2>9. DocumentIsWhole'
    BY <2>4, <2>5, <2>6, <2>7, <2>8 DEF ReadInv, DocumentIsWhole
  <2>10. ReadersSeeWholeVersions'
    BY <2>6 DEF ReadInv, ReadersSeeWholeVersions
  <2> QED BY <2>9, <2>10 DEF ReadInv
<1>3. CASE CopyBlock(t)
  <2> DEFINE j == thr[t].dst
  <2>1. thr[t].pc = "copy" /\ dir' = dir
        /\ \A i \in Inodes : i # j => data'[i] = data[i]
    BY <1>3 DEF CopyBlock, Inv, TypeOK
  <2>2. /\ \A p \in Document : dir[p] # j
        /\ \A u \in Threads : thr[u].pc = "read" /\ thr[u].path = "live" => thr[u].src # j
        /\ thr[t].path = "chk"
    BY <2>1 DEF ReadInv, DocumentIsWhole
  <2>3. /\ \A u \in Threads : u # t => thr'[u] = thr[u]
        /\ \/ thr'[t] = Idle
           \/ thr'[t].pc = "copy" /\ thr'[t].path = "chk" /\ thr'[t].dst = j
    BY <1>0, <1>3, <2>1, <2>2 DEF CopyBlock, Inv, TypeOK, Thread
  <2>4. Idle.path = NULL
    BY DEF Idle
  <2> HIDE DEF j
  <2>5. \A p \in Document : dir[p] # NULL => dir[p] \in Inodes
    BY DEF Inv, TypeOK, Paths, Document
  <2>6. \A u \in Threads : thr[u].pc = "read" => thr[u].src \in Inodes
    BY DEF Inv, StreamsOpen
  <2>7. \A u \in Threads : thr'[u].pc = "copy" => thr[u].pc = "copy" /\ thr'[u].dst = thr[u].dst
    BY <2>1, <2>3 DEF j
  <2>8. DocumentIsWhole'
    BY <2>1, <2>2, <2>3, <2>5, <2>6, <2>7 DEF ReadInv, DocumentIsWhole
  <2>9. ReadersSeeWholeVersions'
    BY <2>3, <2>4 DEF ReadInv, ReadersSeeWholeVersions
  <2> QED BY <2>8, <2>9 DEF ReadInv
<1> QED BY <1>1, <1>2, <1>3 DEF SS_REVERT

\* Every step preserves what the readers rely on.
LEMMA NextRead ==
    Inv /\ ReadInv /\ "REVERT" \notin Ops /\ [Next]_vars => ReadInv'
<1> SUFFICES ASSUME Inv, ReadInv, "REVERT" \notin Ops, [Next]_vars PROVE ReadInv'
  OBVIOUS
<1> USE NullDistinct, IdleType
<1>0. Idle.path = NULL
  BY DEF Idle
<1>1. CASE UNCHANGED vars
  BY <1>1 DEF vars, ReadInv, DocumentIsWhole, ReadersSeeWholeVersions
<1>2. ASSUME NEW t \in Threads, NEW s \in Sentences, SS_LOCK_SENTENCE(t, s)
      PROVE  ReadInv'
  <2> DEFINE r == [Idle EXCEPT !.pc = "locked", !.sentence = s]
  <2>1. r.pc = "locked" /\ thr' = [thr EXCEPT ![t] = r] /\ UNCHANGED <<dir, data>>
    BY <1>2 DEF SS_LOCK_SENTENCE, Idle
  <2> HIDE DEF r
  <2> QED BY <2>1, ReadThreadStep
<1>3. ASSUME NEW t \in Threads, SessionAbandoned(t)
      PROVE  ReadInv'
  BY <1>0, <1>3, ReadThreadStep DEF SessionAbandoned
<1>4. ASSUME NEW t \in Threads,
             SS_READ(t) \/ SS_READ_CHECKPOINT(t) \/ SendBlock(t) \/ CommitStep(t)
      PROVE  ReadInv'
  BY <1>4, ReadOpen, ReadSend, ReadCommit DEF SS_READ, SS_READ_CHECKPOINT
<1>5. ASSUME NEW t \in Threads,
             SS_CHECKPOINT(t) \/ SS_REVERT(t) \/ CopyTruncates(t) \/ CopyBlock(t)
      PROVE  ReadInv'
  BY <1>5, ReadCopy
<1>6. CASE SS_CREATE \/ SS_DELETE \/ SS_UNDO
  BY <1>6, ReadNaming
<1>7. CASE Crash
  <2>1. DocumentIsWhole'
    BY <1>7 DEF Crash, ReadInv, DocumentIsWhole
  <2>2. ReadersSeeWholeVersions'
    BY <1>0, <1>7 DEF Crash, ReadersSeeWholeVersions
  <2> QED BY <2>1, <2>2 DEF ReadInv
<1> QED BY <1>1, <1>2, <1>3, <1>4, <1>5, <1>6, <1>7 DEF Next

\* A new document is whole, and nobody has read it yet.
LEMMA InitRead == Init => ReadInv
<1> SUFFICES ASSUME Init PROVE ReadInv
  OBVIOUS
<1>1. Idle.pc = "idle" /\ Idle.path = NULL
  BY DEF Idle
<1>2. \A i \in Inodes : Whole(data[i])
  BY WholeEdits DEF Init
<1>3. \A p \in Document : dir[p] # NULL => dir[p] \in Inodes
  BY InitInv DEF Inv, TypeOK, Paths, Document
<1>4. DocumentIsWhole
  BY <1>1, <1>2, <1>3 DEF Init, DocumentIsWhole
<1>5. ReadersSeeWholeVersions
  BY <1>1, NullDistinct DEF Init, ReadersSeeWholeVersions
<1> QED BY <1>4, <1>5 DEF ReadInv

\* As long as no client REVERTs, whoever reads the document receives one of its
\* versions, however commits, undos, deletions, new creations, checkpoints and
\* crashes fall between the blocks that are sent.
THEOREM ReadersAreSafe ==
    ASSUME "REVERT" \notin Ops
    PROVE  Spec => []ReadersSeeWholeVersions
<1>1. Inv /\ ReadInv /\ [Next]_vars => ReadInv'
  BY NextRead
<1>2. ReadInv => ReadersSeeWholeVersions
  BY DEF ReadInv
<1> QED BY <1>1, <1>2, InitRead, InvHolds, PTL DEF Spec

=============================================================================
