-------------------------- MODULE AtomicFileProofs --------------------------
(***************************************************************************)
(* Write sessions on a storage server implement AtomicFile, for any number *)
(* of threads, inodes and commits, as long as nobody deletes, undoes or    *)
(* reverts the document and the process does not die.  The abstract commit *)
(* happens at the first of the two renames; all other steps of             *)
(* commit_changes, of readers, of checkpoints and of an SS_CREATE that     *)
(* comes between the renames change nothing of what AtomicFile describes.  *)
(***************************************************************************)
EXTENDS StorageServerProofs

\* The operations beside which the promise is kept.
Undisturbed == Ops \cap {"DELETE", "UNDO", "REVERT", "CRASH"} = {}

\* What the refinement needs beyond the invariants of StorageServer: the
\* document is missing only between the two renames; whoever holds the mutex
\* edits its latest version; and a version is as long as there were commits.
CommitHistory ==
    /\ (\A t \in Threads : thr[t].pc # "publish") => dir["live"] # NULL
    /\ \A t \in Threads : thr[t].pc \in {"edit", "backup"} =>
          thr[t].existed /\ thr[t].buf = data[dir["live"]]
    /\ \A t \in Threads : thr[t].pc \in {"backup", "publish"} =>
          Len(thr[t].buf[1]) + 1 = commits
    /\ (\A t \in Threads : thr[t].pc \notin {"backup", "publish"}) =>
          Len(data[dir["live"]][1]) = commits

RefInv == Inv /\ ReadInv /\ CommitHistory

\* A step that changes neither the variables of AtomicFile nor what the history
\* of commits is about.
Stutter ==
    /\ CommitHistory'
    /\ UNCHANGED <<VersionIn(Current), VersionIn(dir["bak"]), acked>>

-----------------------------------------------------------------------------
(* Steps beside commit_changes *)

\* The paths of the document have inodes when they exist.
LEMMA DocumentInodes ==
    ASSUME Inv
    PROVE  /\ \A p \in Document : dir[p] # NULL => dir[p] \in Inodes
           /\ {"live", "bak", "tmp"} = Document /\ Document \subseteq Paths
BY DEF Inv, TypeOK, Paths, Document

\* What leaves the threads inside commit_changes and the document's three files
\* alone is a stutter; the live path may get a name between the two renames.
LEMMA BesideStutter ==
    ASSUME RefInv, commits' = commits, acked' = acked,
           \A u \in Threads : \/ thr'[u] = thr[u]
                               \/ {thr[u].pc, thr'[u].pc} \cap Committing = {},
           \A p \in Document :
              \/ dir'[p] = dir[p]
              \/ p = "live" /\ \E u \in Threads : thr[u].pc = "publish",
           \A p \in Document : dir[p] # NULL => data'[dir[p]] = data[dir[p]]
    PROVE  Stutter
<1> USE DocumentInodes DEF RefInv
<1>1. \A u \in Threads : thr'[u].pc \in Committing \/ thr[u].pc \in Committing =>
         thr'[u] = thr[u]
  OBVIOUS
<1>2. \A u \in Threads : \A c \in Committing : thr'[u].pc = c <=> thr[u].pc = c
  BY <1>1
<1>3. (\E u \in Threads : thr'[u].pc = "publish")
         <=> (\E u \in Threads : thr[u].pc = "publish")
  BY <1>2 DEF Committing
<1>4. dir'["bak"] = dir["bak"] /\ dir'["tmp"] = dir["tmp"]
  BY DEF Document
<1>5. CASE \E u \in Threads : thr[u].pc = "publish"
  <2>1. PICK w \in Threads : thr[w].pc = "publish"
    BY <1>5
  <2>2. \A u \in Threads : u # w => thr[u].pc \notin Committing
    BY <2>1 DEF Inv, CommitIsExclusive, Committing
  <2>3. thr'[w] = thr[w] /\ \A u \in Threads : u # w => thr'[u].pc \notin Committing
    BY <1>1, <2>1, <2>2 DEF Committing
  <2>4. CommitHistory'
    BY <2>1, <2>3 DEF CommitHistory, Committing
  <2>5. Current = dir["tmp"] /\ Current' = dir["tmp"]
    BY <1>3, <1>4, <1>5 DEF Current
  <2> QED BY <1>4, <2>4, <2>5 DEF Stutter, VersionIn, Document
<1>6. CASE \A u \in Threads : thr[u].pc # "publish"
  <2>1. dir["live"] # NULL /\ dir'["live"] = dir["live"]
        /\ data'[dir["live"]] = data[dir["live"]]
    BY <1>6 DEF CommitHistory, Document
  <2>2. CommitHistory'
    BY <1>1, <1>2, <1>6, <2>1 DEF CommitHistory, Committing
  <2>3. Current = dir["live"] /\ Current' = dir["live"]
    BY <1>3, <1>6, <2>1 DEF Current
  <2> QED BY <1>4, <2>1, <2>2, <2>3 DEF Stutter, VersionIn, Document
<1> QED BY <1>5, <1>6

\* Sessions that begin or are given up, and readers.
LEMMA ThreadStutter ==
    ASSUME RefInv, NEW t \in Threads,
           \/ \E s \in Sentences : SS_LOCK_SENTENCE(t, s)
           \/ SessionAbandoned(t)
           \/ SS_READ(t) \/ SS_READ_CHECKPOINT(t) \/ SendBlock(t)
           \/ SS_CHECKPOINT(t)
    PROVE  Stutter
<1>0. thr[t] \in Thread
  BY DEF RefInv, Inv, TypeOK
<1>1. UNCHANGED <<dir, data, commits, acked>>
      /\ thr[t].pc \notin Committing /\ thr'[t].pc \notin Committing
      /\ \A u \in Threads : u # t => thr'[u] = thr[u]
  <2>1. CASE \E s \in Sentences : SS_LOCK_SENTENCE(t, s)
    BY <2>1 DEF SS_LOCK_SENTENCE, Idle, Committing, RefInv, Inv, TypeOK
  <2>2. CASE SessionAbandoned(t)
    BY <2>2 DEF SessionAbandoned, Idle, Committing, RefInv, Inv, TypeOK
  <2>3. CASE SS_READ(t) \/ SS_READ_CHECKPOINT(t)
    <3>1. PICK p : OpenForRead(t, p)
      BY <2>3 DEF SS_READ, SS_READ_CHECKPOINT
    <3> DEFINE x == IF dir[p] = NULL
                    THEN [Idle EXCEPT !.path = p, !.got = NULL]
                    ELSE [Idle EXCEPT !.path = p, !.pc = "read", !.src = dir[p]]
    <3>2. x.pc \in {"idle", "read"}
      BY DEF Idle
    <3>3. /\ thr[t].pc = "idle" /\ thr' = [thr EXCEPT ![t] = x]
          /\ UNCHANGED <<dir, data, commits, acked>>
      BY <3>1 DEF OpenForRead
    <3>4. thr \in [Threads -> Thread]
      BY DEF RefInv, Inv, TypeOK
    <3> HIDE DEF x
    <3> QED BY <3>2, <3>3, <3>4 DEF Committing
  <2>4. CASE SendBlock(t)
    BY <1>0, <2>4 DEF SendBlock, Thread, Committing, RefInv, Inv, TypeOK
  <2>5. CASE SS_CHECKPOINT(t)
    BY <2>5 DEF SS_CHECKPOINT, CopyBegins, Idle, Committing, RefInv, Inv, TypeOK
  <2> QED BY <2>1, <2>2, <2>3, <2>4, <2>5
<1> QED BY <1>1, BesideStutter

\* copy_file writes to the checkpoint, whose inode is none of the document's.
LEMMA CopyStutter ==
    ASSUME RefInv, NEW t \in Threads, CopyTruncates(t) \/ CopyBlock(t)
    PROVE  Stutter
<1> USE DocumentInodes DEF RefInv
<1>0. thr[t] \in Thread
  BY DEF Inv, TypeOK
<1>1. CASE CopyTruncates(t)
  <2> DEFINE i == Opened("chk")
  <2>1. thr[t].pc = "dest" /\ thr[t].path = "chk" /\ CanOpen("chk")
    BY <1>1 DEF CopyTruncates, ReadInv, DocumentIsWhole
  <2>2. i \in Inodes /\ (i = dir["chk"] \/ i \notin InUse)
    BY <2>1, OpenedInode DEF Paths, Inv
  <2>3. /\ dir' = [dir EXCEPT !["chk"] = i] /\ data' = [data EXCEPT ![i] = Empty]
        /\ thr' = [thr EXCEPT ![t].pc = "copy", ![t].dst = i]
        /\ UNCHANGED <<commits, acked>>
    BY <1>1, <2>1 DEF CopyTruncates
  <2>4. \A p \in Document : dir[p] # NULL => dir[p] # i
    BY <2>2 DEF InUse, Inv, TmpIsPrivate, Paths, Document
  <2> HIDE DEF i
  <2>5. \A p \in Document : dir'[p] = dir[p]
    BY <2>3 DEF Inv, TypeOK, Paths, Document
  <2>6. \A p \in Document : dir[p] # NULL => data'[dir[p]] = data[dir[p]]
    BY <2>3, <2>4 DEF Inv, TypeOK
  <2>7. thr'[t].pc = "copy" /\ \A u \in Threads : u # t => thr'[u] = thr[u]
    BY <1>0, <2>3 DEF Inv, TypeOK, Thread
  <2> QED BY <2>1, <2>3, <2>5, <2>6, <2>7, BesideStutter DEF Committing
<1>2. CASE CopyBlock(t)
  <2> DEFINE j == thr[t].dst
  <2>1. thr[t].pc = "copy" /\ UNCHANGED <<dir, commits, acked>>
        /\ \A i \in Inodes : i # j => data'[i] = data[i]
    BY <1>2 DEF CopyBlock, Inv, TypeOK
  <2>2. \A p \in Document : dir[p] # j
    BY <2>1 DEF ReadInv, DocumentIsWhole
  <2>3. /\ \A u \in Threads : u # t => thr'[u] = thr[u]
        /\ thr'[t].pc \in {"idle", "copy"}
    BY <1>0, <1>2, <2>1, IdleType DEF CopyBlock, Inv, TypeOK, Thread
  <2> HIDE DEF j
  <2> QED BY <2>1, <2>2, <2>3, BesideStutter DEF Committing
<1> QED BY <1>1, <1>2

\* SS_CREATE finds no document only between the two renames of a commit.
LEMMA CreateStutter ==
    ASSUME RefInv, SS_CREATE
    PROVE  Stutter
<1> USE DocumentInodes DEF RefInv
<1> DEFINE i == Opened("live")
<1>1. /\ dir' = [dir EXCEPT !["live"] = i] /\ data' = [data EXCEPT ![i] = Empty]
      /\ dir["live"] = NULL /\ CanOpen("live") /\ UNCHANGED <<thr, commits, acked>>
  BY DEF SS_CREATE
<1>2. i \in Inodes /\ i \notin InUse
  BY <1>1, OpenedInode, NullDistinct DEF Paths, Inv
<1>3. \A p \in Document : dir[p] # i
  BY <1>2 DEF InUse
<1> HIDE DEF i
<1>4. \E u \in Threads : thr[u].pc = "publish"
  BY <1>1 DEF CommitHistory
<1>5. \A p \in Document : p # "live" => dir'[p] = dir[p]
  BY <1>1 DEF Inv, TypeOK, Paths, Document
<1>6. \A p \in Document : dir[p] # NULL => data'[dir[p]] = data[dir[p]]
  BY <1>1, <1>3 DEF Inv, TypeOK
<1> QED BY <1>1, <1>4, <1>5, <1>6, BesideStutter

-----------------------------------------------------------------------------
(* commit_changes *)

\* Before the first rename the document is the version the commit has read.
LEMMA BeforeRename ==
    ASSUME RefInv, NEW t \in Threads, thr[t].pc \in {"edit", "backup"}
    PROVE  /\ \A u \in Threads : u # t => thr[u].pc \notin Committing
           /\ dir["live"] \in Inodes /\ Current = dir["live"]
           /\ thr[t].existed /\ thr[t].buf = data[dir["live"]]
           /\ thr[t].buf \in Content /\ Whole(thr[t].buf)
<1> USE DocumentInodes DEF RefInv
<1>1. \A u \in Threads : u # t => thr[u].pc \notin Committing
  BY DEF Inv, CommitIsExclusive, Committing
<1>2. \A u \in Threads : thr[u].pc # "publish"
  BY <1>1 DEF Committing
<1>3. dir["live"] \in Inodes /\ Current = dir["live"]
  BY <1>2 DEF CommitHistory, Current
<1>4. thr[t].existed /\ thr[t].buf = data[dir["live"]]
  BY DEF CommitHistory
<1>5. thr[t].buf \in Content
  BY DEF Inv, TypeOK, Thread
<1>6. Whole(thr[t].buf)
  BY <1>3, <1>4, NullDistinct DEF ReadInv, DocumentIsWhole
<1> QED BY <1>1, <1>3, <1>4, <1>5, <1>6

\* Taking the mutex, failing to find the sentence and writing the .tmp file do
\* not show.
LEMMA EditStutter ==
    ASSUME RefInv, NEW t \in Threads,
           CommitBegins(t) \/ SentenceNotFound(t) \/ WriteTmp(t)
    PROVE  Stutter
<1> USE DocumentInodes, NullDistinct DEF RefInv
<1>0. thr[t] \in Thread
  BY DEF Inv, TypeOK
<1>1. CASE CommitBegins(t)
  <2>1. thr[t].pc = "locked" /\ mutex = NULL /\ UNCHANGED <<dir, data, commits, acked>>
    BY <1>1 DEF CommitBegins
  <2>2. \A u \in Threads : thr[u].pc \notin Committing
    BY <2>1 DEF Inv, CommitIsExclusive
  <2>3. dir["live"] # NULL /\ Current = dir["live"]
        /\ Len(data[dir["live"]][1]) = commits
    BY <2>2 DEF CommitHistory, Current, Committing
  <2>4. /\ thr'[t].pc = "edit" /\ thr'[t].existed /\ thr'[t].buf = data[dir["live"]]
        /\ \A u \in Threads : u # t => thr'[u] = thr[u]
    BY <1>0, <1>1, <2>3 DEF CommitBegins, Base, Inv, TypeOK, Thread
  <2>5. \A u \in Threads : thr'[u].pc \notin {"backup", "publish"}
    BY <2>2, <2>4 DEF Committing
  <2>6. CommitHistory'
    BY <2>1, <2>2, <2>3, <2>4, <2>5 DEF CommitHistory, Committing
  <2>7. Current' = dir["live"]
    BY <2>1, <2>5 DEF Current
  <2> QED BY <2>1, <2>3, <2>6, <2>7 DEF Stutter, VersionIn
<1>2. CASE SentenceNotFound(t)
  <2>1. thr[t].pc = "edit" /\ UNCHANGED <<dir, data, commits, acked>>
    BY <1>2 DEF SentenceNotFound
  <2>2. thr'[t].pc = "idle" /\ \A u \in Threads : u # t => thr'[u] = thr[u]
    BY <1>2, IdleType DEF SentenceNotFound, Inv, TypeOK
  <2>3. \A u \in Threads : u # t => thr[u].pc \notin Committing
    BY <2>1, BeforeRename
  <2>4. \A u \in Threads : thr'[u].pc \notin Committing
    BY <2>2, <2>3 DEF Committing
  <2>5. dir["live"] # NULL /\ Len(data[dir["live"]][1]) = commits
    BY <2>1, <2>3 DEF CommitHistory, Committing
  <2>6. CommitHistory'
    BY <2>1, <2>4, <2>5 DEF CommitHistory, Committing
  <2>7. Current = dir["live"] /\ Current' = dir["live"]
    BY <2>1, <2>4, BeforeRename DEF Current, Committing
  <2> QED BY <2>1, <2>6, <2>7 DEF Stutter, VersionIn
<1>3. CASE WriteTmp(t)
  <2> DEFINE i == Opened("tmp")
  <2>1. /\ thr[t].pc = "edit" /\ CanOpen("tmp") /\ dir' = [dir EXCEPT !["tmp"] = i]
        /\ data' = [data EXCEPT ![i] = Edited(thr[t].buf, commits + 1)]
        /\ commits' = commits + 1 /\ acked' = acked
    BY <1>3 DEF WriteTmp
  <2>2. i \in Inodes /\ (i = dir["tmp"] \/ i \notin InUse)
    BY <2>1, OpenedInode DEF Paths, Inv
  <2>3. dir["live"] # i /\ dir["bak"] # i
    BY <2>2 DEF InUse, Inv, TmpIsPrivate, Paths
  <2> HIDE DEF i
  <2>4. /\ dir'["live"] = dir["live"] /\ dir'["bak"] = dir["bak"]
        /\ data'[dir["live"]] = data[dir["live"]]
        /\ dir["bak"] # NULL => data'[dir["bak"]] = data[dir["bak"]]
    BY <2>1, <2>3, BeforeRename DEF Inv, TypeOK, Paths, Document
  <2>5. /\ thr'[t].pc = "backup" /\ thr'[t].existed = thr[t].existed
        /\ thr'[t].buf = thr[t].buf
        /\ \A u \in Threads : u # t => thr'[u] = thr[u]
    BY <1>0, <1>3 DEF WriteTmp, Inv, TypeOK, Thread
  <2>6. \A u \in Threads : u # t => thr'[u].pc \notin Committing
    BY <2>1, <2>5, BeforeRename
  <2>7. Len(thr[t].buf[1]) = commits
    BY <2>1, BeforeRename DEF CommitHistory, Committing
  <2>8. CommitHistory'
    <3>1. /\ dir'["live"] # NULL /\ thr'[t].pc = "backup" /\ thr'[t].existed
          /\ thr'[t].buf = data'[dir'["live"]]
      BY <2>1, <2>4, <2>5, BeforeRename
    <3>2. Len(thr'[t].buf[1]) + 1 = commits'
      BY <2>1, <2>5, <2>7
    <3>3. \A u \in Threads : thr'[u].pc \in Committing => u = t
      BY <2>6
    <3> QED BY <3>1, <3>2, <3>3 DEF CommitHistory, Committing
  <2>9. Current = dir["live"]
    BY <2>1, BeforeRename DEF Current, Committing
  <2>10. \A u \in Threads : thr'[u].pc # "publish"
    BY <2>5, <2>6 DEF Committing
  <2>11. Current' = dir["live"]
    BY <2>4, <2>10 DEF Current
  <2> QED BY <2>1, <2>4, <2>8, <2>9, <2>11 DEF Stutter, VersionIn
<1> QED BY <1>1, <1>2, <1>3

\* The first rename is the abstract commit: the document's content becomes the
\* edit in the .tmp file, and the version it was made from is the backup.
LEMMA RenameCommits ==
    ASSUME RefInv, NEW t \in Threads, BackupRename(t)
    PROVE  CommitHistory' /\ Atomic!Commit
<1> USE DocumentInodes, NullDistinct DEF RefInv
<1>0. thr[t] \in Thread /\ thr[t].pc = "backup"
  BY DEF BackupRename, Inv, TypeOK
<1> DEFINE b == thr[t].buf
<1>1. /\ \A u \in Threads : u # t => thr[u].pc \notin Committing
      /\ dir["live"] \in Inodes /\ Current = dir["live"]
      /\ thr[t].existed /\ b = data[dir["live"]] /\ b \in Content /\ Whole(b)
  BY <1>0, BeforeRename
<1>2. Len(b[1]) + 1 = commits /\ b[1] \in Seq(Nat) /\ b[1] = b[2]
  BY <1>0, <1>1 DEF CommitHistory, Content, Version, Whole
<1>3. dir["tmp"] \in Inodes /\ data[dir["tmp"]] = Edited(b, commits)
  BY <1>0 DEF Inv, CommitPublishesItsEdit, Document
<1>4. dir' = rename("live", "bak") /\ UNCHANGED <<data, commits, acked>>
  BY <1>1 DEF BackupRename
<1>5. dir'["bak"] = dir["live"] /\ dir'["tmp"] = dir["tmp"]
  BY <1>4 DEF rename, Inv, TypeOK, Paths
<1>6. /\ thr'[t].pc = "publish" /\ thr'[t].buf = b
      /\ \A u \in Threads : u # t => thr'[u] = thr[u]
  BY <1>0 DEF BackupRename, Inv, TypeOK, Thread
<1>7. CommitHistory'
  BY <1>1, <1>2, <1>4, <1>6 DEF CommitHistory, Committing
<1>8. VersionIn(Current) = b[1]
  BY <1>1 DEF VersionIn
<1>9. VersionIn(dir["bak"])' = b[1]
  BY <1>1, <1>4, <1>5 DEF VersionIn
<1>10. VersionIn(Current)' = Append(b[1], Len(b[1]) + 1)
  <2>1. Current' = dir["tmp"]
    BY <1>5, <1>6 DEF Current
  <2>2. data'[dir["tmp"]][1] = Append(b[1], commits)
        /\ data'[dir["tmp"]][2] = Append(b[2], commits)
    BY <1>3, <1>4 DEF Edited
  <2> QED BY <1>2, <1>3, <2>1, <2>2 DEF VersionIn, Whole
<1> QED BY <1>4, <1>7, <1>8, <1>9, <1>10 DEF Atomic!Commit

\* The second rename puts that content under the document's own name, and the
\* commit that is acknowledged is the last one in it.
LEMMA PublishAcknowledges ==
    ASSUME RefInv, NEW t \in Threads, Publish(t)
    PROVE  CommitHistory' /\ Atomic!Acknowledge
<1> USE DocumentInodes, NullDistinct DEF RefInv
<1>0. thr[t] \in Thread /\ thr[t].pc = "publish"
  BY DEF Publish, Inv, TypeOK
<1> DEFINE b == thr[t].buf
<1>1. \A u \in Threads : u # t => thr[u].pc \notin Committing
  BY <1>0 DEF Inv, CommitIsExclusive, Committing
<1>2. Len(b[1]) + 1 = commits /\ b[1] \in Seq(Nat) /\ commits \in Nat
  <2>1. b \in Content /\ commits \in Nat
    BY <1>0 DEF Thread, Inv, TypeOK
  <2>2. Len(b[1]) + 1 = commits
    BY <1>0 DEF CommitHistory
  <2> QED BY <2>1, <2>2 DEF Content, Version
<1>3. dir["tmp"] \in Inodes /\ data[dir["tmp"]] = Edited(b, commits)
      /\ Whole(data[dir["tmp"]])
  BY <1>0 DEF Inv, CommitPublishesItsEdit, Document, ReadInv, DocumentIsWhole
<1>4. dir' = rename("tmp", "live") /\ UNCHANGED <<data, commits>>
      /\ acked' = acked \cup {commits}
  BY DEF Publish
<1>5. dir'["live"] = dir["tmp"] /\ dir'["bak"] = dir["bak"]
  BY <1>4 DEF rename, Inv, TypeOK, Paths
<1>6. thr'[t].pc = "idle" /\ \A u \in Threads : u # t => thr'[u] = thr[u]
  BY IdleType DEF Publish, Inv, TypeOK
<1>7. \A u \in Threads : thr'[u].pc \notin Committing
  BY <1>1, <1>6 DEF Committing
<1>8. data[dir["tmp"]][1] = Append(b[1], commits)
  BY <1>3 DEF Edited
<1>9. Len(data[dir["tmp"]][1]) = commits
  BY <1>2, <1>8
<1>10. CommitHistory'
  BY <1>3, <1>4, <1>5, <1>7, <1>9 DEF CommitHistory, Committing
<1>11. Current = dir["tmp"] /\ Current' = dir["tmp"]
  BY <1>0, <1>5, <1>7 DEF Current, Committing
<1>12. VersionIn(Current) = data[dir["tmp"]][1] /\ UNCHANGED VersionIn(Current)
       /\ UNCHANGED VersionIn(dir["bak"])
  BY <1>3, <1>4, <1>5, <1>11 DEF VersionIn
<1> QED BY <1>4, <1>9, <1>10, <1>12 DEF Atomic!Acknowledge

-----------------------------------------------------------------------------
(* The refinement *)

\* A new document is the abstract one before any commit.
LEMMA InitRefines == Init => CommitHistory /\ Atomic!Init
<1> SUFFICES ASSUME Init PROVE CommitHistory /\ Atomic!Init
  OBVIOUS
<1> USE NullDistinct, IdleType
<1>1. dir["live"] \in Inodes /\ dir["bak"] = NULL
  BY StorageAssumption DEF Init, Paths
<1>2. \A t \in Threads : thr[t].pc = "idle"
  BY DEF Init
<1>3. data[dir["live"]] = Empty /\ Empty[1] = <<>> /\ Empty[2] = <<>>
  BY <1>1 DEF Init, Empty
<1>4. CommitHistory
  BY <1>1, <1>2, <1>3 DEF CommitHistory, Init
<1>5. Current = dir["live"]
  BY <1>2 DEF Current
<1>6. VersionIn(Current) = <<>> /\ VersionIn(dir["bak"]) = <<0>>
  BY <1>1, <1>3, <1>5 DEF VersionIn, Whole
<1> QED BY <1>4, <1>6 DEF Atomic!Init, Atomic!NoBackup, Init

\* Every step is one of AtomicFile or changes nothing it describes.
LEMMA StepRefines ==
    ASSUME Undisturbed, RefInv, [Next]_vars
    PROVE  CommitHistory' /\ [Atomic!Next]_(Atomic!vars)
<1>1. Stutter => CommitHistory' /\ UNCHANGED Atomic!vars
  BY DEF Stutter, Atomic!vars
<1>2. CASE UNCHANGED vars
  <2>1. CommitHistory' /\ Current' = Current
    BY <1>2 DEF vars, RefInv, CommitHistory, Current
  <2>2. UNCHANGED <<VersionIn(Current), VersionIn(dir["bak"]), acked>>
    BY <1>2, <2>1 DEF vars, VersionIn
  <2> QED BY <1>1, <2>1, <2>2 DEF Stutter
<1>3. ASSUME NEW t \in Threads,
             \/ \E s \in Sentences : SS_LOCK_SENTENCE(t, s)
             \/ SessionAbandoned(t)
             \/ SS_READ(t) \/ SS_READ_CHECKPOINT(t) \/ SendBlock(t)
             \/ SS_CHECKPOINT(t) \/ CopyTruncates(t) \/ CopyBlock(t)
      PROVE  Stutter
  BY <1>3, ThreadStutter, CopyStutter
<1>4. ASSUME NEW t \in Threads, CommitStep(t)
      PROVE  CommitHistory' /\ [Atomic!Next]_(Atomic!vars)
  BY <1>1, <1>4, EditStutter, RenameCommits, PublishAcknowledges
     DEF CommitStep, Atomic!Next
<1>5. ~(\E t \in Threads : SS_REVERT(t)) /\ ~SS_DELETE /\ ~SS_UNDO /\ ~Crash
  BY DEF Undisturbed, SS_REVERT, SS_DELETE, SS_UNDO, Crash
<1>6. SS_CREATE => Stutter
  BY CreateStutter
<1> QED BY <1>1, <1>2, <1>3, <1>4, <1>5, <1>6 DEF Next

\* Concurrent write sessions, with readers, checkpoints and creations beside
\* them, implement an AtomicFile: every commit edits the latest version, leaves
\* the version before it as the backup, and is acknowledged when it is in the
\* document.
THEOREM WritesAreAtomic ==
    ASSUME Undisturbed
    PROVE  Spec => ImplementsAtomicFile
<1>1. "REVERT" \notin Ops
  BY DEF Undisturbed
<1>2. Inv /\ ReadInv /\ [Next]_vars => ReadInv'
  BY <1>1, NextRead
<1>3. Inv /\ ReadInv /\ CommitHistory /\ [Next]_vars =>
        CommitHistory' /\ [Atomic!Next]_(Atomic!vars)
  BY StepRefines DEF RefInv
<1>4. ImplementsAtomicFile <=> Atomic!Init /\ [][Atomic!Next]_(Atomic!vars)
  BY DEF ImplementsAtomicFile, Atomic!Spec
<1> QED BY <1>2, <1>3, <1>4, InitRead, InitRefines, InvHolds, PTL DEF Spec

=============================================================================
