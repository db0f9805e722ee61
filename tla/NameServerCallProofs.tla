------------------------ MODULE NameServerCallProofs ------------------------
(***************************************************************************)
(* What the name server's handlers rely on across the calls they make      *)
(* without data_mutex: that the storage server they call is one they know, *)
(* and that UPDATE_META finds the file that WRITE was given.               *)
(*                                                                         *)
(* A step of the system is first summed up by what it may do to the        *)
(* records, the cache, the table, the mutex and the sessions; the          *)
(* invariants then follow from the summary.                                *)
(***************************************************************************)
EXTENDS NameServerProofs

\* Server d is on the list l.
KnownIn(l, d) == \E i \in 1..Len(l) : l[i] = d

\* Registered servers stay registered.
KnownStep == \A d \in Servers : KnownIn(ss_list, d) => KnownIn(ss_list', d)

\* A record's ss is only set to a registered server or to the one registering.
HeapStep ==
    \A b \in Blocks :
       \/ heap'[b].ss = heap[b].ss
       \/ heap'[b].ss \in Servers /\ KnownIn(ss_list, heap'[b].ss)
       \/ heap'[b].ss \in Servers /\ heap'[b].ss = mutex

\* What enters the cache under a name comes from the table.
CacheMove == \A n \in Names : lookup'[n] \in {lookup[n], ht_search(n), NULL}

\* A name leaves the table only by DELETE.
TableStep ==
    \A n \in Names : table[n] # <<>> /\ table'[n] = <<>> =>
       \E s \in Sessions : sess[s].req = "DELETE"

\* A server that takes the mutex has entered the list.
MutexStep == mutex' \in Servers => mutex' = mutex \/ KnownIn(ss_list', mutex')

\* The session returns to its user, or is as before but for its reply; a write
\* session goes on to UPDATE_META.
Steady(x, y) ==
    \/ y.pc \in {"off", "idle"}
    \/ /\ y.pc = x.pc /\ y.req = x.req
       /\ y.user = x.user /\ y.file = x.file /\ y.ss = x.ss
    \/ /\ x.pc = "write" /\ y.pc = "meta"
       /\ y.user = x.user /\ y.file = x.file

\* The session turns to the storage server of the record that find_file returned.
Calls(x, y) ==
    /\ y.pc \in {"call", "direct", "write"}
    /\ y.file \in Names /\ Found(y.file) # NULL
    /\ y.ss = heap[Found(y.file)].ss

\* The session of a CREATE turns to the first server of the list.
Creates(y) ==
    /\ y.pc = "call" /\ y.req = "CREATE"
    /\ ss_list # <<>> /\ y.ss = Head(ss_list)

\* UPDATE_META gives up without an answer.
GivesUp(x) ==
    /\ x.user # NULL
    /\ \/ x.pc = "meta" /\ Found(x.file) = NULL
       \/ x.pc = "call" /\ x.req = "META" /\ x.reply = "fail"

SessionMove(s) ==
    \/ Steady(sess[s], sess'[s])
    \/ Calls(sess[s], sess'[s])
    \/ Creates(sess'[s])
    \/ GivesUp(sess[s]) /\ sess'[s].pc = "hung"

\* The summary of a step of a running name server.
Summary ==
    /\ KnownStep /\ HeapStep /\ CacheMove /\ TableStep /\ MutexStep
    /\ \A s \in Sessions : SessionMove(s)

-----------------------------------------------------------------------------
(* The parts of the summary *)

\* find_file only caches what the table holds.
LEMMA FindMoves ==
    ASSUME Inv, NEW f \in Names, find_file(f)
    PROVE  CacheMove
<1>1. CASE lookup' = lookup
  BY <1>1 DEF CacheMove
<1>2. CASE lookup[f] = NULL /\ ht_search(f) # NULL
  <2>1. heap[ht_search(f)].filename = f
    BY <1>2, TableLookup DEF Inv
  <2>2. lru_put(ht_search(f))
    BY <1>2 DEF find_file
  <2> QED BY <1>2, <2>1, <2>2 DEF lru_put, CacheMove
<1> QED BY <1>1, <1>2 DEF find_file, cache

\* A cache that is left alone.
LEMMA CacheStays ==
    ASSUME UNCHANGED cache
    PROVE  CacheMove
BY DEF CacheMove, cache

\* Steps that leave the records' servers, the table, the list of servers and the
\* mutex alone.
LEMMA Undisturbed ==
    ASSUME UNCHANGED <<table, ss_list, mutex>>,
           \A b \in Blocks : heap'[b].ss = heap[b].ss
    PROVE  KnownStep /\ HeapStep /\ TableStep /\ MutexStep
BY DEF KnownStep, HeapStep, TableStep, MutexStep

\* One session moves, the others do not.
LEMMA OneMoves ==
    ASSUME Inv, NEW s \in Sessions, NEW y, sess' = [sess EXCEPT ![s] = y],
           \/ Steady(sess[s], y)
           \/ Calls(sess[s], y)
           \/ Creates(y)
           \/ GivesUp(sess[s]) /\ y.pc = "hung"
    PROVE  \A t \in Sessions : SessionMove(t)
<1>1. sess'[s] = y /\ \A t \in Sessions : t # s => sess'[t] = sess[t]
  BY DEF Inv, TypeOK
<1>2. SessionMove(s)
  BY <1>1 DEF SessionMove
<1>3. \A t \in Sessions : t # s => SessionMove(t)
  BY <1>1 DEF SessionMove, Steady
<1> QED BY <1>2, <1>3

\* No session moves.
LEMMA NoneMoves ==
    ASSUME sess' = sess
    PROVE  \A t \in Sessions : SessionMove(t)
BY DEF SessionMove, Steady

\* A new record names a server that is on the list or is registering.
LEMMA AddMoves ==
    ASSUME Inv, NEW b \in Blocks, NEW r, r.filename \in Names, Add(b, r),
           UNCHANGED <<ss_list, mutex>>,
           r.ss \in Servers, KnownIn(ss_list, r.ss) \/ r.ss = mutex
    PROVE  KnownStep /\ HeapStep /\ TableStep /\ MutexStep
<1>1. heap'[b] = r /\ \A c \in Blocks : c # b => heap'[c] = heap[c]
  BY DEF Add, Inv, TypeOK
<1>2. \A n \in Names : table'[n] = <<>> => table[n] = <<>>
  <2>1. table' = [table EXCEPT ![r.filename] = <<b>> \o table[r.filename]]
    BY DEF Add, ht_insert
  <2>2. \A q \in Seq(Blocks) : <<b>> \o q # <<>>
    OBVIOUS
  <2> QED BY <2>1, <2>2 DEF Inv, TypeOK
<1> QED BY <1>1, <1>2 DEF KnownStep, HeapStep, TableStep, MutexStep

-----------------------------------------------------------------------------
(* The handlers *)

\* Handlers that only look a file up and rewrite its record.
LEMMA LookupMoves ==
    ASSUME Inv, NEW f \in Names, find_file(f),
           UNCHANGED <<table, ss_list, mutex, sess>>,
           \A b \in Blocks : heap'[b].ss = heap[b].ss
    PROVE  Summary
BY FindMoves, Undisturbed, NoneMoves DEF Summary

\* A record that is rewritten in place keeps its server.
LEMMA SameServer ==
    ASSUME Inv, NEW c, NEW r, r.ss = heap[c].ss, c \in Blocks,
           heap' = [heap EXCEPT ![c] = r]
    PROVE  \A b \in Blocks : heap'[b].ss = heap[b].ss
BY DEF Inv, TypeOK

\* INFO, the access commands and ANNOTATE.
LEMMA MetadataMoves ==
    ASSUME Inv, NEW s \in Sessions, NEW f \in Names, MetadataCommand(s, f)
    PROVE  Summary
<1> DEFINE c == Found(f)
           Same == \A b \in Blocks : heap'[b].ss = heap[b].ss
<1>1. c # NULL => c \in Blocks /\ heap[c] \in FileMetadata
  BY FoundType DEF Inv, TypeOK
<1>2. ASSUME NEW allowed \in BOOLEAN, NEW r, Rewrite(f, allowed, r),
             allowed => c # NULL /\ r.ss = heap[c].ss
      PROVE  Summary
  <2>1. find_file(f) /\ UNCHANGED <<table, ss_list, mutex, sess>>
    BY <1>2 DEF Rewrite, index
  <2>2. CASE allowed
    BY <1>1, <1>2, <2>1, <2>2, SameServer, LookupMoves DEF Rewrite
  <2>3. CASE ~allowed
    BY <1>2, <2>1, <2>3, LookupMoves DEF Rewrite
  <2> QED BY <2>2, <2>3
<1>3. CASE handle_info(s, f)
  BY <1>3, LookupMoves DEF handle_info, index
<1>4. CASE handle_req_access(s, f)
  <2>1. find_file(f) /\ UNCHANGED <<table, ss_list, mutex, sess>>
    BY <1>4 DEF handle_req_access, index
  <2>2. Same
    BY <1>1, <1>4 DEF handle_req_access, Inv, TypeOK, FileMetadata
  <2> QED BY <2>1, <2>2, LookupMoves
<1>5. ASSUME NEW u \in Users, handle_reject_req(s, f, u) PROVE Summary
  <2>1. find_file(f) /\ UNCHANGED <<table, ss_list, mutex, sess>>
    BY <1>5 DEF handle_reject_req, index
  <2>2. Same
    BY <1>1, <1>5 DEF handle_reject_req, OwnedBy, Inv, TypeOK, FileMetadata
  <2> QED BY <2>1, <2>2, LookupMoves
<1>6. ASSUME NEW u \in Users, NEW p \in {"R", "W"}, handle_add_access(s, f, u, p)
      PROVE  Summary
  BY <1>1, <1>2, <1>6 DEF handle_add_access, OwnedBy, FileMetadata
<1>7. ASSUME NEW u \in Users, handle_rem_access(s, f, u) PROVE Summary
  BY <1>1, <1>2, <1>7 DEF handle_rem_access, OwnedBy, FileMetadata
<1>8. ASSUME NEW u \in Users, handle_approve_req(s, f, u) PROVE Summary
  BY <1>1, <1>2, <1>8 DEF handle_approve_req, OwnedBy, FileMetadata
<1>9. ASSUME NEW n \in Notes, handle_annotate(s, f, n) PROVE Summary
  BY <1>1, <1>2, <1>9 DEF handle_annotate, check_permission, FileMetadata
<1> QED BY <1>3, <1>4, <1>5, <1>6, <1>7, <1>8, <1>9 DEF MetadataCommand

\* A handler that looks a file up and turns to the storage server it finds there.
LEMMA WaitingCalls ==
    ASSUME Inv, NEW s \in Sessions, NEW f \in Names, Found(f) # NULL,
           NEW pc \in {"call", "direct", "write"}, NEW r
    PROVE  Calls(sess[s], Waiting(s, pc, r, f, heap[Found(f)].ss))
<1>1. sess[s] \in Session
  BY DEF Inv, TypeOK
<1> QED BY <1>1 DEF Waiting, Calls, Session

\* UNDO, CHECKPOINT, REVERT, VIEWCHECKPOINT, EXEC, READ and WRITE.
LEMMA ForwardMoves ==
    ASSUME Inv, NEW s \in Sessions, NEW f \in Names, NEW c, NEW p,
           NEW pc \in {"call", "direct", "write"}, NEW r, Forward(s, c, p, f, pc, r)
    PROVE  Summary
<1>1. find_file(f) /\ UNCHANGED <<heap, table, ss_list, mutex>>
  BY DEF Forward, index
<1>2. KnownStep /\ HeapStep /\ TableStep /\ MutexStep /\ CacheMove
  BY <1>1, Undisturbed, FindMoves
<1>3. CASE sess' = sess
  BY <1>2, <1>3, NoneMoves DEF Summary
<1>4. CASE /\ Found(f) # NULL
           /\ sess' = [sess EXCEPT ![s] = Waiting(s, pc, r, f, heap[Found(f)].ss)]
  BY <1>2, <1>4, WaitingCalls, OneMoves DEF Summary
<1> QED BY <1>3, <1>4 DEF Forward

\* All commands that are passed on.
LEMMA ForwardedMoves ==
    ASSUME Inv, NEW s \in Sessions, NEW f \in Names, ForwardedCommand(s, f)
    PROVE  Summary
BY ForwardMoves DEF ForwardedCommand, handle_undo, handle_checkpoint, handle_revert,
                    handle_view_checkpoint, handle_exec, handle_read, handle_write

\* The head of the list of servers is on it.
LEMMA HeadKnown ==
    ASSUME Inv, ss_list # <<>>
    PROVE  Head(ss_list) \in Servers /\ KnownIn(ss_list, Head(ss_list))
<1>1. ss_list \in Seq(Servers)
  BY DEF Inv, TypeOK
<1>2. Len(ss_list) \in Nat \ {0} /\ Head(ss_list) = ss_list[1]
  BY <1>1
<1>3. 1 \in 1..Len(ss_list)
  BY <1>2
<1>4. ss_list[1] \in Servers
  BY <1>1, <1>3
<1> QED BY <1>2, <1>3, <1>4 DEF KnownIn

\* CREATE turns to the head of the list of servers.
LEMMA CreateMoves ==
    ASSUME Inv, NEW s \in Sessions, NEW f \in Names, handle_create(s, f)
    PROVE  Summary
<1> DEFINE u == sess[s].user
           d == Head(ss_list)
<1>1. find_file(f) /\ CacheMove /\ UNCHANGED <<ss_list, mutex>>
  BY FindMoves DEF handle_create
<1>2. CASE UNCHANGED <<heap, index, disk, sess>>
  BY <1>1, <1>2, LookupMoves DEF index
<1>3. CASE ~UNCHANGED <<heap, index, disk, sess>>
  <2> DEFINE new(b) == [NewFile(b, f, u, d, OwnerAccess(u)) EXCEPT !.annotation = NULL]
             y == Waiting(s, "call", "CREATE", f, d)
  <2>1. PICK b \in Blocks \ file_list :
            /\ ss_list # <<>>
            /\ Add(b, new(b))
            /\ sess' = [sess EXCEPT ![s] = y]
    BY <1>3 DEF handle_create
  <2>2. d \in Servers /\ KnownIn(ss_list, d)
    BY <2>1, HeadKnown
  <2>3. heap[b] \in FileMetadata
    BY DEF Inv, TypeOK
  <2>4. new(b).filename = f /\ new(b).ss = d
    BY <2>3 DEF NewFile, FileMetadata
  <2>5. KnownStep /\ HeapStep /\ TableStep /\ MutexStep
    BY <1>1, <2>1, <2>2, <2>4, AddMoves
  <2>6. sess[s] \in Session
    BY DEF Inv, TypeOK
  <2>7. Creates(y)
    BY <2>1, <2>6 DEF Creates, Waiting, Session
  <2>8. \A t \in Sessions : SessionMove(t)
    BY <2>1, <2>7, OneMoves
  <2> QED BY <1>1, <2>5, <2>8 DEF Summary
<1> QED BY <1>2, <1>3

\* CREATEFOLDER, when the name server survives it.
LEMMA CreateFolderMoves ==
    ASSUME Inv, NEW s \in Sessions, NEW f \in Names, handle_create_folder(s, f)
    PROVE  Summary \/ \E d \in DiskType : Restart(d)
<1> DEFINE u == sess[s].user
           d == Head(ss_list)
           cut == [disk EXCEPT !.users = users, !.files = [n \in Names |-> NULL]]
<1>1. CASE Restart(cut)
  <2>1. cut \in DiskType
    BY DEF Inv, TypeOK, DiskType
  <2> QED BY <1>1, <2>1
<1>2. CASE ~Restart(cut)
  <2>1. /\ Found(f) # NULL \/ ss_list # <<>>
        /\ find_file(f) /\ UNCHANGED <<ss_list, mutex, sess>>
    BY <1>2 DEF handle_create_folder
  <2>2. CacheMove /\ \A t \in Sessions : SessionMove(t)
    BY <2>1, FindMoves, NoneMoves
  <2>3. CASE UNCHANGED <<heap, index, disk>>
    BY <2>1, <2>3, LookupMoves DEF index
  <2>4. CASE ~UNCHANGED <<heap, index, disk>>
    <3> DEFINE new(b) == [NewFile(b, f, u, d, OwnerAccess(u)) EXCEPT !.is_directory = TRUE]
    <3>1. PICK b \in Blocks \ file_list : ss_list # <<>> /\ Add(b, new(b))
      BY <1>2, <2>4 DEF handle_create_folder
    <3>2. d \in Servers /\ KnownIn(ss_list, d)
      BY <3>1, HeadKnown
    <3>3. heap[b] \in FileMetadata
      BY DEF Inv, TypeOK
    <3>4. new(b).filename = f /\ new(b).ss = d
      BY <3>3 DEF NewFile, FileMetadata
    <3>5. KnownStep /\ HeapStep /\ TableStep /\ MutexStep
      BY <2>1, <3>1, <3>2, <3>4, AddMoves
    <3> QED BY <2>2, <3>5 DEF Summary
  <2> QED BY <2>3, <2>4
<1> QED BY <1>1, <1>2

\* DELETE, up to its call.
LEMMA DeleteMoves ==
    ASSUME Inv, NEW s \in Sessions, NEW f \in Names, handle_delete(s, f)
    PROVE  Summary
<1>1. find_file(f) /\ UNCHANGED <<heap, table, ss_list>>
  BY DEF handle_delete, index
<1>2. CASE UNCHANGED <<mutex, sess>>
  BY <1>1, <1>2, LookupMoves
<1>3. CASE ~UNCHANGED <<mutex, sess>>
  <2>1. /\ Found(f) # NULL /\ mutex' = s
        /\ sess' = [sess EXCEPT ![s] = Waiting(s, "call", "DELETE", f, heap[Found(f)].ss)]
    BY <1>3 DEF handle_delete, OwnedBy
  <2>2. mutex' \notin Servers
    BY <2>1, ConstantsAssumption
  <2>3. KnownStep /\ HeapStep /\ TableStep /\ MutexStep /\ CacheMove
    BY <1>1, <2>2, FindMoves DEF KnownStep, HeapStep, TableStep, MutexStep
  <2> QED BY <2>1, <2>3, WaitingCalls, OneMoves DEF Summary
<1> QED BY <1>2, <1>3

\* DELETE, after its call: the freed record keeps its server.
LEMMA DeleteReturnMoves ==
    ASSUME Inv, NEW s \in Sessions, DeleteReturns(s)
    PROVE  Summary
<1>1. /\ sess[s].req = "DELETE" /\ mutex' = NULL
      /\ UNCHANGED <<cache, ss_list>> /\ sess' = [sess EXCEPT ![s] = Idle(s)]
  BY DEF DeleteReturns
<1>2. \A b \in Blocks : heap'[b].ss = heap[b].ss
  <2>1. CASE heap' = heap
    BY <2>1
  <2>2. CASE heap' # heap
    <3>1. DeleteMetadata(sess[s].file)
      BY <2>2 DEF DeleteReturns
    <3>2. PICK b \in ListedAs(heap, file_list, sess[s].file) :
             \E r \in Scribbled(b) : heap' = [heap EXCEPT ![b] = r]
      BY <2>2, <3>1 DEF DeleteMetadata
    <3>3. b \in Blocks /\ heap[b] \in FileMetadata
      BY DEF ListedAs, Inv, TypeOK
    <3>4. \A r \in Scribbled(b) : r.ss = heap[b].ss
      BY <3>3 DEF Scribbled, FileMetadata
    <3> QED BY <3>2, <3>3, <3>4, SameServer
  <2> QED BY <2>1, <2>2
<1>3. KnownStep /\ HeapStep /\ TableStep /\ MutexStep /\ CacheMove
  <2>1. mutex' \notin Servers
    BY <1>1, ConstantsAssumption
  <2> QED BY <1>1, <1>2, <2>1, CacheStays DEF KnownStep, HeapStep, TableStep, MutexStep
<1>4. Steady(sess[s], Idle(s))
  BY SessionHelpers DEF Steady
<1> QED BY <1>1, <1>3, <1>4, OneMoves DEF Summary

\* Connecting, leaving, committing a write and giving one up.
LEMMA SessionMoves ==
    ASSUME Inv, NEW s \in Sessions,
           \/ \E u \in Users : register_user(s, u)
           \/ Disconnect(s)
           \/ COMMIT_WRITE(s)
           \/ WriteEnds(s)
    PROVE  Summary
<1>1. UNCHANGED <<heap, table, cache, ss_list, mutex>>
  BY DEF register_user, Disconnect, COMMIT_WRITE, WriteEnds, nameServer, index
<1>2. KnownStep /\ HeapStep /\ TableStep /\ MutexStep /\ CacheMove
  BY <1>1, Undisturbed, CacheStays
<1>3. sess[s] \in Session
  BY DEF Inv, TypeOK
<1>4. ASSUME NEW u \in Users, register_user(s, u) PROVE \A t \in Sessions : SessionMove(t)
  <2>1. Steady(sess[s], [Off EXCEPT !.user = u, !.pc = "idle"])
    BY DEF Steady, Off
  <2> QED BY <1>4, <2>1, OneMoves DEF register_user
<1>5. CASE Disconnect(s)
  <2>1. Steady(sess[s], Off)
    BY DEF Steady, Off
  <2> QED BY <1>2, <1>5, <2>1, OneMoves DEF Disconnect, Summary
<1>6. CASE COMMIT_WRITE(s)
  <2>1. Steady(sess[s], [sess[s] EXCEPT !.pc = "meta"])
    BY <1>3, <1>6 DEF Steady, Session, COMMIT_WRITE
  <2> QED BY <1>2, <1>6, <2>1, OneMoves DEF COMMIT_WRITE, Summary
<1>7. CASE WriteEnds(s)
  <2>1. Steady(sess[s], Back(s))
    BY SessionHelpers DEF Steady, Back, Off
  <2> QED BY <1>2, <1>7, <2>1, OneMoves DEF WriteEnds, Summary
<1> QED BY <1>2, <1>4, <1>5, <1>6, <1>7 DEF Summary

\* UPDATE_META and the end of a call.
LEMMA UpdateMetaMoves ==
    ASSUME Inv, NEW s \in Sessions, handle_update_meta(s) \/ MetaReturns(s) \/ CallReturns(s)
    PROVE  Summary
<1> DEFINE f == sess[s].file
           h == [Idle(s) EXCEPT !.pc = "hung"]
<1>1. UNCHANGED <<heap, table, ss_list, mutex>>
  BY DEF handle_update_meta, MetaReturns, CallReturns, nameServer, index
<1>2. KnownStep /\ HeapStep /\ TableStep /\ MutexStep
  BY <1>1, Undisturbed
<1>3. sess[s] \in Session /\ h.pc = "hung"
  BY DEF Inv, TypeOK, Session, Idle
<1>4. sess[s].pc \in {"call", "meta"} => f \in Names
  BY DEF Inv, SessionsComplete
<1>5. Steady(sess[s], Off) /\ Steady(sess[s], Back(s)) /\ Steady(sess[s], Idle(s))
  BY SessionHelpers DEF Steady, Back, Off
<1>6. CASE CallReturns(s)
  BY <1>2, <1>5, <1>6, CacheStays, OneMoves DEF CallReturns, nameServer, Summary
<1>7. CASE MetaReturns(s)
  <2>1. CacheMove
    BY <1>4, <1>7, CacheStays, FindMoves DEF MetaReturns
  <2>2. CASE sess' = [sess EXCEPT ![s] = Idle(s)]
    BY <1>2, <1>5, <2>1, <2>2, OneMoves DEF Summary
  <2>3. CASE sess[s].reply = "fail" /\ sess' = [sess EXCEPT ![s] = h]
    <3>1. GivesUp(sess[s])
      BY <1>7, <2>3 DEF MetaReturns, GivesUp
    <3> QED BY <1>2, <1>3, <2>1, <2>3, <3>1, OneMoves DEF Summary
  <2> QED BY <1>7, <2>2, <2>3 DEF MetaReturns
<1>8. CASE handle_update_meta(s)
  <2>1. CacheMove
    BY <1>4, <1>8, CacheStays, FindMoves DEF handle_update_meta
  <2>2. CASE sess' = [sess EXCEPT ![s] = Off]
    BY <1>2, <1>5, <2>1, <2>2, OneMoves DEF Summary
  <2>3. CASE ~(sess' = [sess EXCEPT ![s] = Off])
    <3>1. sess[s].pc = "meta" /\ sess[s].user # NULL
      BY <1>8, <2>3 DEF handle_update_meta
    <3>2. CASE Found(f) = NULL
      <4>1. GivesUp(sess[s])
        BY <3>1, <3>2 DEF GivesUp
      <4>2. sess' = [sess EXCEPT ![s] = h]
        BY <1>8, <2>3, <3>2 DEF handle_update_meta
      <4> QED BY <1>2, <1>3, <2>1, <4>1, <4>2, OneMoves DEF Summary
    <3>3. CASE Found(f) # NULL
      <4>1. sess' = [sess EXCEPT ![s] = Waiting(s, "call", "META", f, heap[Found(f)].ss)]
        BY <1>8, <2>3, <3>3 DEF handle_update_meta
      <4>2. Calls(sess[s], Waiting(s, "call", "META", f, heap[Found(f)].ss))
        BY <1>4, <3>1, <3>3, WaitingCalls
      <4> QED BY <1>2, <2>1, <4>1, <4>2, OneMoves DEF Summary
    <3> QED BY <3>2, <3>3
  <2> QED BY <2>2, <2>3
<1> QED BY <1>6, <1>7, <1>8

\* A storage server answers.
LEMMA ServeMoves ==
    ASSUME Inv, NEW s \in Sessions, Serve(s)
    PROVE  Summary
<1>1. UNCHANGED nameServer
  BY DEF Serve, SS_CREATE, SS_DELETE, SS_UNDO, SS_CHECKPOINT, SS_REVERT, SS_READ,
         SS_READ_CHECKPOINT, Unreachable
<1>2. KnownStep /\ HeapStep /\ TableStep /\ MutexStep /\ CacheMove
  BY <1>1, Undisturbed, CacheStays DEF nameServer, index
<1>3. \E a : Answer(s, a)
  BY DEF Serve, SS_CREATE, SS_DELETE, SS_UNDO, SS_CHECKPOINT, SS_REVERT, SS_READ,
         SS_READ_CHECKPOINT, Unreachable
<1>4. PICK a : sess' = [sess EXCEPT ![s] = [sess[s] EXCEPT !.reply = a]]
  BY <1>3 DEF Answer
<1>5. sess[s] \in Session
  BY DEF Inv, TypeOK
<1>6. Steady(sess[s], [sess[s] EXCEPT !.reply = a])
  BY <1>5 DEF Steady, Session
<1> QED BY <1>2, <1>4, <1>6, OneMoves DEF Summary

\* A storage server registers: it enters the list before its files are added.
LEMMA RegistrationMoves ==
    ASSUME Inv, Registration \/ \E d \in Servers : register_storage_server(d)
    PROVE  Summary
<1>1. sess' = sess
  BY DEF Registration, RegisterFile, RegistrationDone, register_storage_server
<1>2. \A t \in Sessions : SessionMove(t)
  BY <1>1, NoneMoves
<1>3. ASSUME NEW n \in Names, RegisterFile(n) PROVE Summary
  <2>1. /\ mutex \in Servers /\ find_file(n) /\ UNCHANGED <<ss_list, mutex, sess>>
    BY <1>3 DEF RegisterFile
  <2>2. CASE UNCHANGED <<heap, index>>
    BY <2>1, <2>2, LookupMoves DEF index
  <2>3. CASE ~UNCHANGED <<heap, index>>
    <3>1. PICK b \in Blocks \ file_list : Add(b, NewFile(b, n, SSOwner, mutex, NoAccess))
      BY <1>3, <2>3 DEF RegisterFile
    <3>2. /\ NewFile(b, n, SSOwner, mutex, NoAccess).filename = n
          /\ NewFile(b, n, SSOwner, mutex, NoAccess).ss = mutex
      BY <2>1, NewFileType, AccessTypes DEF Owners
    <3> QED BY <1>2, <2>1, <3>1, <3>2, AddMoves, FindMoves DEF Summary
  <2> QED BY <2>2, <2>3
<1>4. CASE RegistrationDone
  <2>1. UNCHANGED <<heap, table, cache, ss_list>> /\ mutex' \notin Servers
    BY <1>4, ConstantsAssumption DEF RegistrationDone, index
  <2> QED BY <1>2, <2>1, CacheStays
          DEF Summary, KnownStep, HeapStep, TableStep, MutexStep
<1>5. ASSUME NEW d \in Servers, register_storage_server(d) PROVE Summary
  <2>1. UNCHANGED <<heap, table, cache>>
    BY <1>5 DEF register_storage_server, index
  <2>2. CASE UNCHANGED <<ss_list, mutex>>
    BY <1>2, <2>1, <2>2, CacheStays, Undisturbed DEF Summary
  <2>3. CASE ss_list' = <<d>> \o ss_list /\ mutex' = d
    <3>1. ss_list \in Seq(Servers)
      BY DEF Inv, TypeOK
    <3>2. /\ Len(ss_list') = Len(ss_list) + 1
          /\ ss_list'[1] = d
          /\ \A i \in 1..Len(ss_list) : ss_list'[i + 1] = ss_list[i]
      BY <2>3, <3>1
    <3>3. Len(ss_list) \in Nat
      BY <3>1
    <3>4. \A i \in 1..Len(ss_list) : i + 1 \in 1..Len(ss_list')
      BY <3>2, <3>3
    <3>5. KnownStep
      BY <3>2, <3>4 DEF KnownStep, KnownIn
    <3>6. 1 \in 1..Len(ss_list')
      BY <3>2, <3>3
    <3>7. MutexStep
      BY <2>3, <3>2, <3>6 DEF MutexStep, KnownIn
    <3> QED BY <1>2, <2>1, <3>5, <3>7, CacheStays DEF Summary, HeapStep, TableStep
  <2> QED BY <1>5, <2>2, <2>3 DEF register_storage_server
<1> QED BY <1>3, <1>4, <1>5 DEF Registration

\* A storage server dies.
LEMMA ServerCrashMoves ==
    ASSUME Inv, NEW d \in Servers, StorageServerCrash(d)
    PROVE  Summary
<1>1. UNCHANGED <<heap, table, cache, ss_list, mutex>>
  BY DEF StorageServerCrash, nameServer, index
<1>2. ASSUME NEW t \in Sessions PROVE SessionMove(t)
  <2>1. sess[t] \in Session
    BY DEF Inv, TypeOK
  <2>2. sess'[t] \in {sess[t], [sess[t] EXCEPT !.reply = "fail"]}
    BY DEF StorageServerCrash
  <2>3. Steady(sess[t], sess'[t])
    BY <2>1, <2>2 DEF Steady, Session
  <2> QED BY <2>3 DEF SessionMove
<1> QED BY <1>1, <1>2, Undisturbed, CacheStays DEF Summary

\* Every step is as summed up, but for a restart of the name server.
LEMMA NextMoves ==
    ASSUME Inv, [Next]_vars
    PROVE  Summary \/ \E d \in DiskType : Restart(d)
<1>1. CASE UNCHANGED vars
  BY <1>1, Undisturbed, CacheStays, NoneMoves DEF vars, index, Summary
<1>2. CASE NameServerCrash
  <2>1. disk \in DiskType
    BY DEF Inv, TypeOK
  <2> QED BY <1>2, <2>1 DEF NameServerCrash
<1>3. CASE Next /\ ~NameServerCrash
  BY <1>3, MetadataMoves, ForwardedMoves, CreateMoves, CreateFolderMoves, DeleteMoves,
     DeleteReturnMoves, SessionMoves, UpdateMetaMoves, ServeMoves, RegistrationMoves,
     ServerCrashMoves
  DEF Next, LifecycleCommand, Return
<1> QED BY <1>1, <1>2, <1>3

-----------------------------------------------------------------------------
(* Handlers call registered servers *)

\* What the ss pointers of records, of the cache and of the registration in
\* progress are worth: freed records and cached ones included, they name servers
\* that are on the list.
CallInv ==
    /\ \A b \in Blocks : heap[b].ss # NULL => KnownIn(ss_list, heap[b].ss)
    /\ \A f \in Names : lookup[f] # NULL => heap[lookup[f]].ss # NULL
    /\ mutex \in Servers => KnownIn(ss_list, mutex)
    /\ CallsKnownServers

\* At the start no record has a server and nobody calls one.
LEMMA InitCall == Init => CallInv
<1> SUFFICES ASSUME Init PROVE CallInv
  OBVIOUS
<1>1. /\ \A b \in Blocks : heap[b].ss = NULL
      /\ \A f \in Names : lookup[f] = NULL
      /\ \A s \in Sessions : sess[s].pc = "off"
  BY DEF Init, Zeroed, Off
<1>2. mutex \notin Servers
  BY ConstantsAssumption DEF Init
<1> QED BY <1>1, <1>2 DEF CallInv, CallsKnownServers

\* A restart forgets all servers, and every call in progress loses its client.
LEMMA RestartCall ==
    ASSUME Inv, NEW d, Restart(d)
    PROVE  CallInv'
<1>1. /\ \A b \in Blocks : heap'[b].ss = NULL
      /\ \A f \in Names : lookup'[f] = NULL
  BY DEF Restart, Zeroed
<1>2. \A s \in Sessions : sess'[s].user = NULL
  BY DEF Restart, Off, Inv, TypeOK, Session
<1>3. mutex' \notin Servers
  BY ConstantsAssumption DEF Restart
<1> QED BY <1>1, <1>2, <1>3 DEF CallInv, CallsKnownServers

\* The record find_file returns has a registered server, also when it is a freed
\* one that the cache still holds.
LEMMA FoundHasServer ==
    ASSUME Inv, CallInv, NEW f \in Names, Found(f) # NULL
    PROVE  heap[Found(f)].ss \in Servers /\ KnownIn(ss_list, heap[Found(f)].ss)
<1>1. Found(f) \in Blocks
  BY FoundType
<1>2. heap[Found(f)].ss \in Servers \cup {NULL}
  BY <1>1 DEF Inv, TypeOK, FileMetadata
<1>3. CASE lookup[f] # NULL
  BY <1>1, <1>2, <1>3 DEF CallInv, Found
<1>4. CASE lookup[f] = NULL
  <2>1. Found(f) = ht_search(f) /\ ht_search(f) \in file_list
    BY <1>4, TableLookup DEF Inv, Found
  <2>2. heap[Found(f)].ss \in Servers
    BY <2>1 DEF Inv, ListedComplete
  <2> QED BY <1>1, <2>2, ConstantsAssumption DEF CallInv
<1> QED BY <1>3, <1>4

\* A step of the running name server keeps the invariant.
LEMMA SummaryCall ==
    ASSUME Inv, Inv', CallInv, Summary
    PROVE  CallInv'
<1> USE DEF Summary
<1>1. ASSUME NEW d \in Servers, KnownIn(ss_list, d) PROVE KnownIn(ss_list', d)
  BY <1>1 DEF KnownStep
<1>2. ASSUME NEW b \in Blocks, heap'[b].ss # NULL PROVE KnownIn(ss_list', heap'[b].ss)
  <2>1. heap'[b].ss \in Servers
    BY <1>2 DEF Inv, TypeOK, FileMetadata
  <2> QED BY <1>1, <1>2, <2>1 DEF HeapStep, CallInv
<1>3. ASSUME NEW f \in Names, lookup'[f] # NULL PROVE heap'[lookup'[f]].ss # NULL
  <2>1. Found(f) # NULL /\ Found(f) = lookup'[f]
    BY <1>3 DEF CacheMove, Found, Inv, CacheAgreesWithTable, ht_search
  <2>2. heap[Found(f)].ss # NULL /\ Found(f) \in Blocks
    BY <2>1, FoundHasServer, FoundType, ConstantsAssumption
  <2> QED BY <2>1, <2>2, ConstantsAssumption DEF HeapStep
<1>4. mutex' \in Servers => KnownIn(ss_list', mutex')
  BY <1>1 DEF MutexStep, CallInv
<1>5. ASSUME NEW s \in Sessions, sess'[s].pc \in {"call", "direct", "write"},
             sess'[s].user # NULL
      PROVE  KnownIn(ss_list', sess'[s].ss)
  <2>1. CASE Steady(sess[s], sess'[s])
    <3>1. KnownIn(ss_list, sess[s].ss) /\ sess'[s].ss = sess[s].ss
      BY <1>5, <2>1 DEF Steady, CallInv, CallsKnownServers, KnownIn
    <3>2. sess[s].ss \in Servers
      BY <3>1 DEF KnownIn, Inv, TypeOK
    <3> QED BY <1>1, <3>1, <3>2
  <2>2. CASE Calls(sess[s], sess'[s])
    BY <1>1, <2>2, FoundHasServer DEF Calls
  <2>3. CASE Creates(sess'[s])
    BY <1>1, <2>3, HeadKnown DEF Creates
  <2> QED BY <1>5, <2>1, <2>2, <2>3 DEF SessionMove
<1>6. CallsKnownServers'
  BY <1>5 DEF CallsKnownServers, KnownIn
<1> QED BY <1>2, <1>3, <1>4, <1>6 DEF CallInv

\* Every server a handler or a redirected client turns to is one that the running
\* name server has registered: the unchecked target_ss is never a stray pointer.
THEOREM ServersAreKnown == Spec => []CallsKnownServers
<1>1. Inv /\ Inv' /\ CallInv /\ [Next]_vars => CallInv'
  BY NextMoves, RestartCall, SummaryCall
<1>2. CallInv => CallsKnownServers
  BY DEF CallInv
<1> QED BY <1>1, <1>2, InitCall, InvHolds, PTL DEF Spec

-----------------------------------------------------------------------------
(* UPDATE_META is answered *)

\* Session x is between a granted WRITE and the answer to its UPDATE_META.
Writing(x) ==
    /\ x.user # NULL
    /\ x.pc \in {"write", "meta"} \/ (x.pc = "call" /\ x.req = "META")

\* As long as nothing is deleted, what the cache or a write session was given
\* stays in the hash table, and nobody is left without an answer.
MetaInv ==
    /\ \A f \in Names : lookup[f] # NULL => table[f] # <<>>
    /\ \A s \in Sessions : Writing(sess[s]) => table[sess[s].file] # <<>>
    /\ \A s \in Sessions : sess[s].pc # "hung"

\* At the start the cache is empty and nobody writes.
LEMMA InitMeta == Init => MetaInv
<1> SUFFICES ASSUME Init PROVE MetaInv
  OBVIOUS
<1>1. /\ \A f \in Names : lookup[f] = NULL
      /\ \A s \in Sessions : sess[s].pc = "off"
  BY DEF Init, Off
<1> QED BY <1>1 DEF MetaInv, Writing

\* A restart empties the cache and ends every write session for its client.
LEMMA RestartMeta ==
    ASSUME Inv, NEW d, Restart(d)
    PROVE  MetaInv'
<1>1. \A f \in Names : lookup'[f] = NULL
  BY DEF Restart
<1>2. \A s \in Sessions : sess'[s].user = NULL /\ sess'[s].pc # "hung"
  BY DEF Restart, Off, Inv, TypeOK, Session
<1> QED BY <1>1, <1>2 DEF MetaInv, Writing

\* While nothing is deleted, a file that was found remains in the table.
LEMMA FoundStays ==
    ASSUME Inv, MetaInv, NothingDeleted, TableStep, NEW f \in Names, Found(f) # NULL
    PROVE  table[f] # <<>> /\ table'[f] # <<>>
<1>1. table[f] # <<>>
  BY DEF Found, MetaInv, ht_search
<1> QED BY <1>1 DEF TableStep, NothingDeleted

\* A step of the running name server keeps the invariant.
LEMMA SummaryMeta ==
    ASSUME Inv, Inv', MetaInv, NothingDeleted, NoFetchFails, Summary
    PROVE  MetaInv'
<1> USE DEF Summary
<1>1. ASSUME NEW f \in Names, table[f] # <<>> PROVE table'[f] # <<>>
  BY <1>1 DEF TableStep, NothingDeleted
<1>2. ASSUME NEW f \in Names, lookup'[f] # NULL PROVE table'[f] # <<>>
  <2>1. Found(f) # NULL
    BY <1>2 DEF CacheMove, Found
  <2> QED BY <2>1, FoundStays
<1>3. ASSUME NEW s \in Sessions, Writing(sess[s])
      PROVE  sess[s].file \in Names /\ Found(sess[s].file) # NULL
  <2>1. sess[s].file \in Names
    BY <1>3 DEF Writing, Inv, SessionsComplete
  <2>2. ht_search(sess[s].file) # NULL
    BY <1>3, <2>1, TableLookup DEF MetaInv, Inv
  <2> QED BY <2>1, <2>2 DEF Found
<1>4. ASSUME NEW s \in Sessions, Writing(sess'[s]) PROVE table'[sess'[s].file] # <<>>
  <2>1. CASE Steady(sess[s], sess'[s])
    <3>1. Writing(sess[s]) /\ sess'[s].file = sess[s].file
      BY <1>4, <2>1 DEF Steady, Writing
    <3> QED BY <1>3, <3>1, FoundStays
  <2>2. CASE Calls(sess[s], sess'[s])
    BY <2>2, FoundStays DEF Calls
  <2>3. ~Creates(sess'[s]) /\ sess'[s].pc # "hung"
    BY <1>4 DEF Creates, Writing
  <2> QED BY <2>1, <2>2, <2>3 DEF SessionMove
<1>5. ASSUME NEW s \in Sessions PROVE sess'[s].pc # "hung"
  <2>1. ~GivesUp(sess[s])
    BY <1>3 DEF GivesUp, Writing, NoFetchFails
  <2>2. sess[s].pc # "hung"
    BY DEF MetaInv
  <2> QED BY <2>1, <2>2 DEF SessionMove, Steady, Calls, Creates
<1> QED BY <1>2, <1>4, <1>5 DEF MetaInv

\* As long as no file is being deleted and no fetch of the new contents fails,
\* no client waits in vain for the answer to its UPDATE_META: whatever the other
\* sessions, registrations and crashes do between WRITE and UPDATE_META and
\* between the two halves of handle_update_meta, the record is found.
THEOREM UpdateMetaAnswered == Spec => UpdateMetaIsAnswered
<1> DEFINE Calm == NothingDeleted /\ NoFetchFails
           NobodyHangs == \A s \in Sessions : sess[s].pc # "hung"
<1>1. Inv /\ Inv' /\ MetaInv /\ Calm /\ [Next]_vars => MetaInv'
  BY NextMoves, RestartMeta, SummaryMeta
<1>2. MetaInv => NobodyHangs
  BY DEF MetaInv
<1>3. Spec /\ []Calm => []NobodyHangs
  <2> HIDE DEF Calm, NobodyHangs
  <2> QED BY <1>1, <1>2, InitMeta, InvHolds, PTL DEF Spec
<1> QED BY <1>3 DEF UpdateMetaIsAnswered

=============================================================================
