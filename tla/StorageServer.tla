--------------------------- MODULE StorageServer ---------------------------
(***************************************************************************)
(* One document on a storage server (storage_server.c): the threads of     *)
(* handle_ss_connection working on its files at the same time.             *)
(*                                                                         *)
(* The document lives under four paths: the file itself, its .bak, its     *)
(* .tmp and one checkpoint.  A path names an inode; rename and remove move *)
(* or drop names, an open stream keeps the inode it was opened on, and     *)
(* fopen(..., "w") truncates the inode the path names.  commit_changes     *)
(* takes file_system_mutex; no other operation does.                       *)
(*                                                                         *)
(* The text is abstracted to its history: a version is the sequence of the *)
(* commits that led to it, and a file is stored in two blocks, each        *)
(* holding the version it was last written from, so that a file caught     *)
(* half written or half read shows as two different versions.              *)
(***************************************************************************)
EXTENDS Naturals, Sequences

CONSTANTS
    Threads,    \* connection threads of the server
    Inodes,     \* inodes of the file system
    Sentences,  \* sentence numbers a client may lock
    Ops,        \* the operations the clients of an instance use
    MaxCommits, \* bound on the commits of a behaviour
    NULL

Paths == {"live", "bak", "tmp", "chk"}

ASSUME StorageAssumption ==
    /\ Inodes # {}
    /\ Sentences \subseteq Nat
    /\ MaxCommits \in Nat
    /\ NULL \notin Inodes \cup Threads \cup Nat \cup Seq(Seq(Nat))
    /\ NULL \notin Paths

VARIABLES
    dir,        \* the inode each path names, or NULL
    data,       \* the contents of every inode
    mutex,      \* the thread holding file_system_mutex, or NULL
    thr,        \* what each connection thread is doing
    commits,    \* number of versions written so far
    acked       \* the versions' commits that were acknowledged (ACK_COMMIT)

vars == <<dir, data, mutex, thr, commits, acked>>

-----------------------------------------------------------------------------
(* Types *)

Version == Seq(Nat)
Content == [1..2 -> Version]
Empty == [k \in 1..2 |-> <<>>]
Whole(c) == c[1] = c[2]

\* pc: "idle" between commands; "locked" in a write session, the WriteOps
\* buffered; "edit", "backup" and "publish" inside commit_changes; "read" in
\* the loop that sends a file; "dest" and "copy" inside copy_file.
\* path: the path a read opened or a copy writes.  got: the blocks read or
\* copied so far, NULL when the file was not found.
Thread ==
    [pc : {"idle", "locked", "edit", "backup", "publish", "read", "dest", "copy"},
     sentence : Sentences \cup {NULL}, buf : Content, existed : BOOLEAN,
     path : {"live", "chk", NULL}, src : Inodes \cup {NULL}, dst : Inodes \cup {NULL},
     got : Seq(Version) \cup {NULL}]

Idle == [pc |-> "idle", sentence |-> NULL, buf |-> Empty, existed |-> FALSE,
         path |-> NULL, src |-> NULL, dst |-> NULL, got |-> <<>>]

Committing == {"edit", "backup", "publish"}

-----------------------------------------------------------------------------
(* The file system *)

InUse == {dir[p] : p \in Paths} \cup {thr[t].src : t \in Threads}
                                \cup {thr[t].dst : t \in Threads}

\* The inode fopen(p, "w") or open(p, O_CREAT) ends up with.
Opened(p) ==
    IF dir[p] # NULL THEN dir[p] ELSE CHOOSE i \in Inodes : i \notin InUse

CanOpen(p) == dir[p] # NULL \/ ~(Inodes \subseteq InUse)

\* Faulty variant: the old name keeps the inode, as link would leave it.
renameLinks(p, q) == [dir EXCEPT ![q] = dir[p]]

rename(p, q) == [dir EXCEPT ![q] = dir[p], ![p] = NULL]

-----------------------------------------------------------------------------
(* Write sessions: SS_LOCK_SENTENCE, WRITE_DATA, COMMIT_WRITE *)

\* The lock is noted in the thread's own variables: nothing is excluded.
SS_LOCK_SENTENCE(t, s) ==
    /\ "COMMIT" \in Ops /\ thr[t].pc = "idle"
    /\ thr' = [thr EXCEPT ![t] = [Idle EXCEPT !.pc = "locked", !.sentence = s]]
    /\ UNCHANGED <<dir, data, mutex, commits, acked>>

\* The client leaves the session without ETIRW; its WriteOps are freed.
SessionAbandoned(t) ==
    /\ thr[t].pc = "locked"
    /\ thr' = [thr EXCEPT ![t] = Idle]
    /\ UNCHANGED <<dir, data, mutex, commits, acked>>

Base == IF dir["live"] = NULL THEN Empty ELSE data[dir["live"]]

\* Faulty variant: the mutex is not waited for.
CommitBeginsUnlocked(t) ==
    /\ thr[t].pc = "locked" /\ commits < MaxCommits
    /\ mutex' = t
    /\ thr' = [thr EXCEPT ![t].pc = "edit", ![t].buf = Base,
                          ![t].existed = dir["live"] # NULL]
    /\ UNCHANGED <<dir, data, commits, acked>>

\* commit_changes: lock the mutex and read the whole file.
CommitBegins(t) ==
    /\ thr[t].pc = "locked" /\ mutex = NULL /\ commits < MaxCommits
    /\ mutex' = t
    /\ thr' = [thr EXCEPT ![t].pc = "edit", ![t].buf = Base,
                          ![t].existed = dir["live"] # NULL]
    /\ UNCHANGED <<dir, data, commits, acked>>

\* Faulty variant: the early return forgets to unlock.
SentenceNotFoundLocked(t) ==
    /\ thr[t].pc = "edit" /\ thr[t].sentence # 0
    /\ thr' = [thr EXCEPT ![t] = Idle]
    /\ UNCHANGED <<dir, data, mutex, commits, acked>>

\* A sentence other than the first may be missing, and is from an empty file.
\* COMMIT_WRITE then still answers ACK_COMMIT, for no version at all.
SentenceNotFound(t) ==
    /\ thr[t].pc = "edit" /\ thr[t].sentence # 0
    /\ mutex' = NULL
    /\ thr' = [thr EXCEPT ![t] = Idle]
    /\ UNCHANGED <<dir, data, commits, acked>>

Edited(c, n) == [k \in 1..2 |-> Append(c[k], n)]

\* Faulty variant: the file is overwritten where it stands.
WriteTmpInPlace(t) ==
    /\ thr[t].pc = "edit" /\ CanOpen("live")
    /\ thr[t].sentence = 0 \/ thr[t].buf # Empty
    /\ commits' = commits + 1
    /\ dir' = [dir EXCEPT !["live"] = Opened("live")]
    /\ data' = [data EXCEPT ![Opened("live")] = Edited(thr[t].buf, commits + 1)]
    /\ mutex' = NULL
    /\ acked' = acked \cup {commits + 1}
    /\ thr' = [thr EXCEPT ![t] = Idle]

\* The edited text goes to the .tmp file, which a crash may have left behind.
WriteTmp(t) ==
    /\ thr[t].pc = "edit" /\ CanOpen("tmp")
    /\ thr[t].sentence = 0 \/ thr[t].buf # Empty
    /\ commits' = commits + 1
    /\ dir' = [dir EXCEPT !["tmp"] = Opened("tmp")]
    /\ data' = [data EXCEPT ![Opened("tmp")] = Edited(thr[t].buf, commits + 1)]
    /\ thr' = [thr EXCEPT ![t].pc = "backup"]
    /\ UNCHANGED <<mutex, acked>>

\* The first rename; ENOENT is ignored.
BackupRename(t) ==
    /\ thr[t].pc = "backup"
    /\ dir' = IF thr[t].existed /\ dir["live"] # NULL
              THEN rename("live", "bak") ELSE dir
    /\ thr' = [thr EXCEPT ![t].pc = "publish"]
    /\ UNCHANGED <<data, mutex, commits, acked>>

\* The second rename, the unlock and ACK_COMMIT.
Publish(t) ==
    /\ thr[t].pc = "publish"
    /\ dir' = rename("tmp", "live")
    /\ mutex' = NULL
    /\ acked' = acked \cup {commits}
    /\ thr' = [thr EXCEPT ![t] = Idle]
    /\ UNCHANGED <<data, commits>>

-----------------------------------------------------------------------------
(* Reading: SS_READ, SS_STREAM, SS_READ_CHECKPOINT *)

OpenForRead(t, p) ==
    /\ thr[t].pc = "idle"
    /\ thr' = [thr EXCEPT ![t] =
                 IF dir[p] = NULL
                 THEN [Idle EXCEPT !.path = p, !.got = NULL]
                 ELSE [Idle EXCEPT !.path = p, !.pc = "read", !.src = dir[p]]]
    /\ UNCHANGED <<dir, data, mutex, commits, acked>>

SS_READ(t) == "READ" \in Ops /\ OpenForRead(t, "live")
SS_READ_CHECKPOINT(t) == "VIEW" \in Ops /\ OpenForRead(t, "chk")

SendBlock(t) ==
    LET k == Len(thr[t].got) + 1 IN
    /\ thr[t].pc = "read"
    /\ thr' = [thr EXCEPT ![t].got = Append(@, data[thr[t].src][k]),
                          ![t].pc = IF k = 2 THEN "idle" ELSE @,
                          ![t].src = IF k = 2 THEN NULL ELSE @]
    /\ UNCHANGED <<dir, data, mutex, commits, acked>>

-----------------------------------------------------------------------------
(* copy_file: SS_CHECKPOINT and SS_REVERT *)

CopyBegins(t, p, q) ==
    /\ thr[t].pc = "idle" /\ dir[p] # NULL
    /\ thr' = [thr EXCEPT ![t] = [Idle EXCEPT !.pc = "dest", !.path = q,
                                              !.src = dir[p]]]
    /\ UNCHANGED <<dir, data, mutex, commits, acked>>

SS_CHECKPOINT(t) == "CHECKPOINT" \in Ops /\ CopyBegins(t, "live", "chk")
SS_REVERT(t) == "REVERT" \in Ops /\ CopyBegins(t, "chk", "live")

\* fopen(dest, "wb") truncates the file that is there.
CopyTruncates(t) ==
    LET i == Opened(thr[t].path) IN
    /\ thr[t].pc = "dest" /\ CanOpen(thr[t].path)
    /\ dir' = [dir EXCEPT ![thr[t].path] = i]
    /\ data' = [data EXCEPT ![i] = Empty]
    /\ thr' = [thr EXCEPT ![t].pc = "copy", ![t].dst = i]
    /\ UNCHANGED <<mutex, commits, acked>>

CopyBlock(t) ==
    LET k == Len(thr[t].got) + 1
        block == data[thr[t].src][k] IN
    /\ thr[t].pc = "copy"
    /\ data' = [data EXCEPT ![thr[t].dst] = [@ EXCEPT ![k] = block]]
    /\ thr' = [thr EXCEPT ![t] = IF k = 2 THEN Idle
                                 ELSE [thr[t] EXCEPT !.got = Append(@, block)]]
    /\ UNCHANGED <<dir, mutex, commits, acked>>

-----------------------------------------------------------------------------
(* One system call each, without the mutex: SS_CREATE, SS_DELETE, SS_UNDO *)

SS_CREATE ==
    /\ "CREATE" \in Ops /\ dir["live"] = NULL /\ CanOpen("live")
    /\ dir' = [dir EXCEPT !["live"] = Opened("live")]
    /\ data' = [data EXCEPT ![Opened("live")] = Empty]
    /\ UNCHANGED <<mutex, thr, commits, acked>>

SS_DELETE ==
    /\ "DELETE" \in Ops /\ dir["live"] # NULL
    /\ dir' = [dir EXCEPT !["live"] = NULL]
    /\ UNCHANGED <<data, mutex, thr, commits, acked>>

SS_UNDO ==
    /\ "UNDO" \in Ops /\ dir["bak"] # NULL
    /\ dir' = rename("bak", "live")
    /\ UNCHANGED <<data, mutex, thr, commits, acked>>

\* The process dies and is started again; the files stay as they are.
Crash ==
    /\ "CRASH" \in Ops
    /\ thr' = [t \in Threads |-> Idle]
    /\ mutex' = NULL
    /\ UNCHANGED <<dir, data, commits, acked>>

-----------------------------------------------------------------------------
\* A document that SS_CREATE has just created.
Init ==
    /\ dir = [p \in Paths |->
                IF p = "live" THEN CHOOSE i \in Inodes : TRUE ELSE NULL]
    /\ data = [i \in Inodes |-> Empty]
    /\ mutex = NULL
    /\ thr = [t \in Threads |-> Idle]
    /\ commits = 0
    /\ acked = {}

CommitStep(t) ==
    CommitBegins(t) \/ SentenceNotFound(t) \/ WriteTmp(t) \/ BackupRename(t)
      \/ Publish(t)

Next ==
    \/ \E t \in Threads :
         \/ \E s \in Sentences : SS_LOCK_SENTENCE(t, s)
         \/ SessionAbandoned(t)
         \/ CommitStep(t)
         \/ SS_READ(t) \/ SS_READ_CHECKPOINT(t) \/ SendBlock(t)
         \/ SS_CHECKPOINT(t) \/ SS_REVERT(t) \/ CopyTruncates(t) \/ CopyBlock(t)
    \/ SS_CREATE \/ SS_DELETE \/ SS_UNDO \/ Crash

Spec == Init /\ [][Next]_vars

\* A thread that is inside commit_changes with the mutex waits for nobody.  When
\* a client commits, or whether it does, is up to its user.
Fairness ==
    \A t \in Threads : WF_vars(thr[t].pc \in Committing /\ CommitStep(t))

FairSpec == Spec /\ Fairness

-----------------------------------------------------------------------------
(* Invariants *)

TypeOK ==
    /\ dir \in [Paths -> Inodes \cup {NULL}]
    /\ data \in [Inodes -> Content]
    /\ mutex \in Threads \cup {NULL}
    /\ thr \in [Threads -> Thread]
    /\ commits \in Nat
    /\ acked \subseteq Nat

\* The mutex is held by exactly the thread that is inside commit_changes: every
\* way out of it unlocks, and nobody else enters meanwhile.
CommitIsExclusive ==
    \A t \in Threads : thr[t].pc \in Committing <=> mutex = t

\* A thread that reads or copies has its streams open and blocks left to do.
StreamsOpen ==
    \A t \in Threads :
        /\ thr[t].pc \in {"read", "dest", "copy"} =>
              /\ thr[t].src \in Inodes
              /\ thr[t].got \in Seq(Version) /\ Len(thr[t].got) < 2
        /\ thr[t].pc \in {"dest", "copy"} => thr[t].path \in {"live", "chk"}
        /\ thr[t].pc = "copy" => thr[t].dst \in Inodes

\* No two paths name one inode, and no stream is open on the .tmp file: what
\* commit_changes writes there cannot be reached before the rename.
TmpIsPrivate ==
    /\ \A p, q \in Paths : p # q /\ dir[p] # NULL => dir[p] # dir[q]
    /\ dir["tmp"] # NULL =>
         \A t \in Threads : dir["tmp"] \notin {thr[t].src, thr[t].dst}

\* Whatever UNDO, DELETE, CREATE, REVERT and the other sessions do between two
\* system calls of commit_changes, the file it renames into place is the edit
\* of the text it read, and the .tmp file is there to be renamed.
CommitPublishesItsEdit ==
    \A t \in Threads : thr[t].pc \in {"backup", "publish"} =>
        /\ dir["tmp"] # NULL
        /\ data[dir["tmp"]] = Edited(thr[t].buf, commits)

\* What every step of a storage server preserves.
Inv ==
    /\ TypeOK
    /\ StreamsOpen
    /\ CommitIsExclusive
    /\ TmpIsPrivate
    /\ CommitPublishesItsEdit

\* A client that READs or STREAMs a document receives one version of it, never
\* the beginning of one and the end of another, whatever commits, undos and
\* deletions replace the file while it is being sent.
ReadersSeeWholeVersions ==
    \A t \in Threads :
        LET r == thr[t] IN
        r.pc = "idle" /\ r.path = "live" /\ r.got # NULL => r.got[1] = r.got[2]

\* Why it is so, as long as nobody REVERTs: the document's inodes are written
\* once, before they get their name, and the copies of its checkpoint go to
\* other inodes than the ones a reader or a path of the document refers to.
Document == {"live", "bak", "tmp"}

DocumentIsWhole ==
    /\ \A p \in Document : dir[p] # NULL => Whole(data[dir[p]])
    /\ \A t \in Threads :
         /\ thr[t].pc = "edit" => Whole(thr[t].buf)
         /\ thr[t].pc \in {"dest", "copy"} => thr[t].path = "chk"
         /\ thr[t].pc = "copy" => \A p \in Document : dir[p] # thr[t].dst
         /\ thr[t].pc = "read" /\ thr[t].path = "live" =>
              /\ Whole(data[thr[t].src])
              /\ Len(thr[t].got) = 1 => thr[t].got[1] = data[thr[t].src][1]
              /\ thr[t].src # dir["chk"]
              /\ \A u \in Threads : thr[u].pc = "copy" => thr[u].dst # thr[t].src

-----------------------------------------------------------------------------
(* Refinement and liveness *)

\* Once the old version has been renamed away, the new one in the .tmp file is
\* the document's content.
Current ==
    IF \E t \in Threads : thr[t].pc = "publish"
    THEN dir["tmp"] ELSE dir["live"]

\* A torn file is no version at all.
VersionIn(i) == IF i # NULL /\ Whole(data[i]) THEN data[i][1] ELSE <<0>>

Atomic == INSTANCE AtomicFile WITH
    file <- VersionIn(Current), backup <- VersionIn(dir["bak"])

\* Concurrent write sessions, with readers and checkpoints beside them, implement
\* an AtomicFile: every commit edits the latest version, the backup is the
\* version before it, and ACK_COMMIT is sent for a commit that is in the document.
ImplementsAtomicFile == Atomic!Spec

\* file_system_mutex is always released again.
MutexReleased == mutex # NULL ~> mutex = NULL

-----------------------------------------------------------------------------
(* Claims of the documentation that the code does not keep *)

\* README.md: "The system is crash-resilient."  A commit that was acknowledged
\* is still in one of the document's files.
AcknowledgedCommitsSurvive ==
    \A n \in acked : \E p \in Paths :
        dir[p] # NULL /\ \E k \in 1..Len(data[dir[p]][1]) : data[dir[p]][1][k] = n

\* Project_plan.txt: "The UNDO <filename> command will revert the file to this
\* saved state", its state before the last WRITE.  With no commit under way,
\* the version UNDO restores is one the file has gone through.
UndoGoesBack ==
    [][SS_UNDO /\ mutex = NULL /\ dir["live"] # NULL =>
         LET old == data[dir["bak"]][1]
             new == data[dir["live"]][1]
         IN Len(old) <= Len(new) /\ SubSeq(new, 1, Len(old)) = old]_vars

=============================================================================
