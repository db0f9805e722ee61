----------------------------- MODULE NameServer -----------------------------
(***************************************************************************)
(* The Docs++ name server (name_server.c, CRWD.c, hash_table.h) together   *)
(* with what its clients and storage servers do to it.                     *)
(*                                                                         *)
(* The metadata store is modelled at the level of heap blocks, because     *)
(* three structures point at the same FileMetadata blocks: the linked list *)
(* file_list_head, the hash table file_hash_table and the LRU cache        *)
(* file_cache.  A block is freed by handle_delete while the cache still    *)
(* points at it, and malloc hands the same block out again without         *)
(* clearing it, so block identity and left-over contents are behaviour.    *)
(*                                                                         *)
(* Every client connection is a session: one client process and the name   *)
(* server thread that runs handle_connection for it.  data_mutex makes     *)
(* each handler one step, except where the code calls a storage server:    *)
(* there the thread waits in connect_and_send_to_ss, with the mutex held   *)
(* (handle_delete) or released (all the others).                           *)
(*                                                                         *)
(* A storage server is seen here as the set of names in its directory and  *)
(* the set of names that have a checkpoint.                                *)
(***************************************************************************)
EXTENDS Naturals, Sequences, FiniteSets

CONSTANTS
    Names,      \* file and folder names, backup names included
    BakOf,      \* the name "<file>.bak" of each name (NULL: outside Names)
    Users,      \* user names clients register with
    SSOwner,    \* the placeholder owner "ss_owner"
    Sessions,   \* client connections
    Servers,    \* storage servers (ip and port)
    Blocks,     \* heap blocks malloc may return for a FileMetadata
    Notes,      \* annotation texts
    CacheSize,  \* CACHE_SIZE
    Commands,   \* the commands the clients of an instance issue
    Faults,     \* which of "ns" and "ss" may crash
    NULL

ASSUME ConstantsAssumption ==
    /\ BakOf \in [Names -> Names \cup {NULL}]
    /\ CacheSize \in Nat \ {0}
    /\ NULL \notin Names \cup Users \cup {SSOwner} \cup Servers \cup Blocks
                         \cup Notes \cup Sessions
    /\ Sessions \cap Servers = {}

VARIABLES
    heap,       \* contents of every FileMetadata block, freed ones included
    file_list,  \* the blocks linked from file_list_head; all others are free
    table,      \* file_hash_table: the chain of blocks stored under each key
    lookup,     \* file_cache->lookup: the block cached under each key, or NULL
    lru,        \* the keys on the cache's linked list, head first
    users,      \* user_list_head
    ss_list,    \* ss_list_head, head first
    disk,       \* user_data.dat, file_metadata.dat and annotations.dat
    mutex,      \* who holds data_mutex: a session, a registering server, NULL
    todo,       \* names a registering server listed and not yet looked at
    sess,       \* what each client and its thread are doing
    ss_up,      \* which storage servers accept connections
    phys,       \* the names in each storage server's directory
    chk         \* the names each storage server has a checkpoint of

index == <<file_list, table>>
cache == <<lookup, lru>>
remote == <<ss_up, phys, chk>>
vars == <<heap, index, cache, users, ss_list, disk, mutex, todo, sess, remote>>

-----------------------------------------------------------------------------
(* Types *)

Owners == Users \cup {SSOwner}
Perms == {"-", "R", "W"}
NoAccess == [u \in Owners |-> "-"]

\* An access list has at most one node per user (handle_add_access updates the
\* node it finds), so it is a function; "-" is "no node".
FileMetadata ==
    [filename : Names \cup {NULL}, is_directory : BOOLEAN,
     owner : Owners \cup {NULL}, ss : Servers \cup {NULL},
     access : [Owners -> Perms], pending : SUBSET Users,
     annotation : Notes \cup {NULL}]

Zeroed == [filename |-> NULL, is_directory |-> FALSE, owner |-> NULL,
           ss |-> NULL, access |-> NoAccess, pending |-> {},
           annotation |-> NULL]

\* One line of file_metadata.dat: filename;owner;ip;port;user,perm;...
MetadataLine == [owner : Owners, ss : Servers, access : [Owners -> Perms]]

Forwarded == {"UNDO", "CHECKPOINT", "REVERT", "VIEWCHECKPOINT", "EXEC"}
Requests == Forwarded \cup {"none", "CREATE", "DELETE", "META", "READ", "WRITE"}

\* pc: "off" no connection; "idle" the client may type a command; "call" the
\* thread waits for a storage server; "direct" and "write" the client talks to
\* a storage server itself; "meta" the client is about to send UPDATE_META;
\* "hung" the client waits for a reply its thread returned without sending.
\* reply: "ack" and "err" carry the __SS_END__ token the reader looks for,
\* "trunc" was cut short of it, "fail" is a failed connect, send or recv.
\* user is NULL once the name server the client was connected to has died.
Session ==
    [user : Users \cup {NULL},
     pc : {"off", "idle", "call", "direct", "write", "meta", "hung"},
     req : Requests, file : Names \cup {NULL}, ss : Servers \cup {NULL},
     reply : {"none", "ack", "err", "trunc", "fail"}]

Off == [user |-> NULL, pc |-> "off", req |-> "none", file |-> NULL,
        ss |-> NULL, reply |-> "none"]

-----------------------------------------------------------------------------
(* Hash table and LRU cache (hash_table.h, CRWD.c) *)

\* Chains are kept per key: strcmp makes every operation touch only the items
\* of its own key, whatever bucket hash_function puts them in.
ht_search(f) == IF table[f] = <<>> THEN NULL ELSE Head(table[f])

ht_insert(f, b) == [table EXCEPT ![f] = <<b>> \o @]

\* Faulty variant: the entry stays.
ht_deleteForgotten(f) == table

ht_delete(f) == [table EXCEPT ![f] = IF @ = <<>> THEN <<>> ELSE Tail(@)]

\* detach_node: the key's node is taken out of the list.
detach_node(k) ==
    LET p == CHOOSE i \in 1..Len(lru) : lru[i] = k
    IN  SubSeq(lru, 1, p - 1) \o SubSeq(lru, p + 1, Len(lru))

\* Faulty variant: the node is attached again without being detached.
to_frontAttachOnly(k) == <<k>> \o lru

\* detach_node and attach_node: the key moves to the head of the list.
to_front(k) == <<k>> \o detach_node(k)

\* lru_put: the key is the name inside the block; a full cache loses its tail.
evicted == IF Len(lru) = CacheSize THEN {lru[Len(lru)]} ELSE {}

lru_put(b) ==
    LET k == heap[b].filename IN
    IF lookup[k] # NULL
    THEN /\ lru' = to_front(k)
         /\ UNCHANGED lookup
    ELSE /\ lru' = <<k>> \o (IF evicted = {} THEN lru
                             ELSE SubSeq(lru, 1, Len(lru) - 1))
         /\ lookup' = [n \in Names |-> IF n = k THEN b
                                       ELSE IF n \in evicted THEN NULL
                                       ELSE lookup[n]]

\* Faulty variant: the callers ask the hash table and not the cache.
FoundInTable(f) == ht_search(f)

\* The block find_file returns: the cached one first, else the hashed one.
Found(f) == IF lookup[f] # NULL THEN lookup[f] ELSE ht_search(f)

\* What find_file does to the cache.
find_file(f) ==
    IF lookup[f] # NULL
    THEN /\ lru' = to_front(f)
         /\ UNCHANGED lookup
    ELSE IF ht_search(f) # NULL THEN lru_put(ht_search(f))
    ELSE UNCHANGED cache

check_permission(b, u, p) ==
    heap[b].owner = u \/ heap[b].access[u] \in {"W", p}

-----------------------------------------------------------------------------
(* Persistence *)

\* The node the walk over file_list_head finds under a name, if any.
ListedAs(h, l, f) == {b \in l : h[b].filename = f}

\* The owner's own entry is not written.
LineOf(r) ==
    [owner |-> r.owner, ss |-> r.ss,
     access |-> [r.access EXCEPT ![r.owner] = "-"]]

\* save_metadata writes all three files from the lists it is called with.
save_metadata(h, l) ==
    disk' = [users |-> users,
             files |-> [f \in Names |->
                           IF ListedAs(h, l, f) = {} THEN NULL
                           ELSE LineOf(h[CHOOSE b \in ListedAs(h, l, f) : TRUE])],
             notes |-> [f \in Names |->
                           IF ListedAs(h, l, f) = {} THEN NULL
                           ELSE h[CHOOSE b \in ListedAs(h, l, f) : TRUE].annotation]]

\* The lines load_metadata keeps: those whose storage server is in the list.
loadable(d, ssl) ==
    {f \in Names : /\ d.files[f] # NULL
                   /\ \E i \in 1..Len(ssl) : ssl[i] = d.files[f].ss}

\* The name server process dies, leaving d on disk, and main starts again:
\* nothing has registered when load_metadata runs, so no line is kept (the
\* branch that would insert one is unreachable) and no note finds its file;
\* only the users come back.  Clients lose their connection at once or, while
\* they or their thread wait for a storage server, after that.
Restart(d) ==
    /\ loadable(d, <<>>) = {}
    /\ heap' = [b \in Blocks |-> Zeroed]
    /\ file_list' = {}
    /\ table' = [f \in Names |-> <<>>]
    /\ lookup' = [f \in Names |-> NULL]
    /\ lru' = <<>>
    /\ users' = d.users
    /\ ss_list' = <<>>
    /\ disk' = d
    /\ mutex' = NULL
    /\ todo' = {}
    /\ sess' = [s \in Sessions |->
                   IF sess[s].pc \in {"call", "direct", "write"}
                   THEN [sess[s] EXCEPT !.user = NULL]
                   ELSE Off]
    \* A server waiting for ACK_SS_REG ignores that recv failed and listens.
    /\ ss_up' = [d2 \in Servers |-> ss_up[d2] \/ mutex = d2]
    /\ UNCHANGED <<phys, chk>>

NameServerCrash == "ns" \in Faults /\ Restart(disk)

-----------------------------------------------------------------------------
(* Sessions *)

Idle(s) == [sess[s] EXCEPT !.pc = "idle", !.req = "none", !.file = NULL,
                           !.ss = NULL, !.reply = "none"]

\* Where a session goes when a storage server call is over.
Back(s) == IF sess[s].user = NULL THEN Off ELSE Idle(s)

\* From here on the session waits for storage server d (step pc, request r).
Waiting(s, pc, r, f, d) ==
    [sess[s] EXCEPT !.pc = pc, !.req = r, !.file = f, !.ss = d]

\* Faulty variant: the handler does not lock data_mutex.
HandlesUnlocked(s, c) == c \in Commands /\ sess[s].pc = "idle"

\* The thread of s runs the handler of command c, with data_mutex.
Handles(s, c) == c \in Commands /\ sess[s].pc = "idle" /\ mutex = NULL

\* REGISTER_CLIENT; register_user does not save.
register_user(s, u) ==
    /\ sess[s].pc = "off"
    /\ mutex = NULL
    /\ users' = users \cup {u}
    /\ sess' = [sess EXCEPT ![s] = [Off EXCEPT !.user = u, !.pc = "idle"]]
    /\ UNCHANGED <<heap, index, cache, ss_list, disk, mutex, todo, remote>>

\* The client exits or is killed; the thread of a connection that waits for a
\* storage server does not notice before it is done.
Disconnect(s) ==
    /\ sess[s].pc \in {"idle", "direct", "write", "hung"}
    /\ sess' = [sess EXCEPT ![s] = Off]
    /\ UNCHANGED <<heap, index, cache, users, ss_list, disk, mutex, todo, remote>>

-----------------------------------------------------------------------------
(* Handlers that answer from the metadata alone *)

\* INFO, VIEWFOLDER, VIEWREQUESTS and VIEWNOTE change nothing but the cache;
\* VIEW and LIST do not even do that and have no action.
handle_info(s, f) ==
    /\ Handles(s, "INFO")
    /\ find_file(f)
    /\ UNCHANGED <<heap, index, users, ss_list, disk, mutex, todo, sess, remote>>

\* Faulty variant: the change is not saved.
RewriteUnsaved(f, allowed, r) ==
    /\ find_file(f)
    /\ heap' = IF allowed THEN [heap EXCEPT ![Found(f)] = r] ELSE heap
    /\ UNCHANGED <<index, users, ss_list, disk, mutex, todo, sess, remote>>

\* The handler rewrites the block it found and saves, or it refuses.
Rewrite(f, allowed, r) ==
    /\ find_file(f)
    /\ IF allowed
       THEN /\ heap' = [heap EXCEPT ![Found(f)] = r]
            /\ save_metadata(heap', file_list)
       ELSE UNCHANGED <<heap, disk>>
    /\ UNCHANGED <<index, users, ss_list, mutex, todo, sess, remote>>

\* Faulty variant: everyone counts as the owner.
OwnedByAnyone(s, f) == Found(f) # NULL

\* The result of find_file, when that is a block owned by the session's user.
OwnedBy(s, f) == Found(f) # NULL /\ heap[Found(f)].owner = sess[s].user

handle_add_access(s, f, u, p) ==
    /\ Handles(s, "ADDACCESS")
    /\ Rewrite(f, OwnedBy(s, f) /\ u \in users,
               [heap[Found(f)] EXCEPT !.access[u] = p])

handle_rem_access(s, f, u) ==
    /\ Handles(s, "REMACCESS")
    /\ Rewrite(f, OwnedBy(s, f), [heap[Found(f)] EXCEPT !.access[u] = "-"])

\* Neither a pending request nor a registered user is required.
handle_approve_req(s, f, u) ==
    /\ Handles(s, "APPROVE")
    /\ Rewrite(f, OwnedBy(s, f),
               [heap[Found(f)] EXCEPT !.access[u] = IF @ = "-" THEN "R" ELSE @,
                                      !.pending = @ \ {u}])

handle_annotate(s, f, n) ==
    /\ Handles(s, "ANNOTATE")
    /\ Rewrite(f, /\ Found(f) # NULL
                  /\ check_permission(Found(f), sess[s].user, "W"),
               [heap[Found(f)] EXCEPT !.annotation = n])

\* Requests are kept in memory only: the next two handlers do not save.
handle_req_access(s, f) ==
    /\ Handles(s, "REQUESTACCESS")
    /\ find_file(f)
    /\ heap' = IF /\ Found(f) # NULL
                  /\ ~check_permission(Found(f), sess[s].user, "R")
               THEN [heap EXCEPT ![Found(f)].pending = @ \cup {sess[s].user}]
               ELSE heap
    /\ UNCHANGED <<index, users, ss_list, disk, mutex, todo, sess, remote>>

handle_reject_req(s, f, u) ==
    /\ Handles(s, "REJECT")
    /\ find_file(f)
    /\ heap' = IF OwnedBy(s, f)
               THEN [heap EXCEPT ![Found(f)].pending = @ \ {u}]
               ELSE heap
    /\ UNCHANGED <<index, users, ss_list, disk, mutex, todo, sess, remote>>

-----------------------------------------------------------------------------
(* Creating and deleting *)

\* Faulty variant: the owner is not filled in.
NewFileUnowned(b, f, u, d, a) ==
    [heap[b] EXCEPT !.filename = f, !.ss = d, !.access = a]

\* What malloc returns, after the assignments all creators have in common:
\* the other fields keep what an earlier use of the block left in them.
NewFile(b, f, u, d, a) ==
    [heap[b] EXCEPT !.filename = f, !.owner = u, !.ss = d, !.access = a]

OwnerAccess(u) == [NoAccess EXCEPT ![u] = "W"]

\* A new record goes into the list and the hash table, not into the cache.
Add(b, r) ==
    /\ heap' = [heap EXCEPT ![b] = r]
    /\ file_list' = file_list \cup {b}
    /\ table' = ht_insert(r.filename, b)

\* The metadata is added and saved first, the storage server asked afterwards,
\* without the mutex.  pending and is_directory are left uninitialised.
handle_create(s, f) ==
    /\ Handles(s, "CREATE")
    /\ find_file(f)
    /\ IF Found(f) # NULL \/ ss_list = <<>>
       THEN UNCHANGED <<heap, index, disk, sess>>
       ELSE \E b \in Blocks \ file_list :
              LET u == sess[s].user
                  d == Head(ss_list)
              IN  /\ Add(b, [NewFile(b, f, u, d, OwnerAccess(u))
                             EXCEPT !.annotation = NULL])
                  /\ save_metadata(heap', file_list')
                  /\ sess' = [sess EXCEPT ![s] = Waiting(s, "call", "CREATE", f, d)]
    /\ UNCHANGED <<users, ss_list, mutex, todo, remote>>

\* No storage server is contacted.  When none has registered, save_metadata
\* dereferences the NULL ss of the new record: the process dies after it has
\* written the users and truncated file_metadata.dat.
handle_create_folder(s, f) ==
    /\ Handles(s, "CREATEFOLDER")
    /\ \/ /\ Found(f) # NULL \/ ss_list # <<>>
          /\ find_file(f)
          /\ IF Found(f) # NULL
             THEN UNCHANGED <<heap, index, disk>>
             ELSE \E b \in Blocks \ file_list :
                    LET u == sess[s].user
                    IN  /\ Add(b, [NewFile(b, f, u, Head(ss_list), OwnerAccess(u))
                                   EXCEPT !.is_directory = TRUE])
                        /\ save_metadata(heap', file_list')
          /\ UNCHANGED <<users, ss_list, mutex, todo, sess, remote>>
       \/ /\ Found(f) = NULL
          /\ ss_list = <<>>
          /\ Restart([disk EXCEPT !.users = users, !.files = [n \in Names |-> NULL]])

\* The handler keeps data_mutex while it waits for the storage server.
handle_delete(s, f) ==
    /\ Handles(s, "DELETE")
    /\ find_file(f)
    /\ IF OwnedBy(s, f)
       THEN /\ mutex' = s
            /\ sess' = [sess EXCEPT ![s] =
                          Waiting(s, "call", "DELETE", f, heap[Found(f)].ss)]
       ELSE UNCHANGED <<mutex, sess>>
    /\ UNCHANGED <<heap, index, users, ss_list, disk, todo, remote>>

\* Faulty variant: the record is cleared before it is freed.
Cleared(b) == {Zeroed, [Zeroed EXCEPT !.access = heap[b].access]}

\* free: the allocator and the stdio buffers of the save that follows overwrite
\* the front of the block (filename to owner).  ss, pending and annotation
\* survive; the freed access nodes may still read as before or not.
Scribbled(b) ==
    {[heap[b] EXCEPT !.filename = NULL, !.is_directory = FALSE, !.owner = NULL,
                     !.access = a] : a \in {NoAccess, heap[b].access}}

\* The table entry and the list node of that name go, the cache entry stays.
\* save_metadata is only reached when there is a list node.
DeleteMetadata(f) ==
    /\ table' = ht_delete(f)
    /\ IF ListedAs(heap, file_list, f) = {}
       THEN UNCHANGED <<heap, file_list, disk>>
       ELSE \E b \in ListedAs(heap, file_list, f) :
              /\ \E r \in Scribbled(b) : heap' = [heap EXCEPT ![b] = r]
              /\ file_list' = file_list \ {b}
              /\ save_metadata(heap', file_list')

\* handle_delete after connect_and_send_to_ss.
DeleteReturns(s) ==
    /\ sess[s].pc = "call"
    /\ sess[s].req = "DELETE"
    /\ sess[s].user # NULL
    /\ sess[s].reply \in {"ack", "err", "fail"}
    /\ IF sess[s].reply = "ack"
       THEN DeleteMetadata(sess[s].file)
       ELSE UNCHANGED <<heap, index, disk>>
    /\ mutex' = NULL
    /\ sess' = [sess EXCEPT ![s] = Idle(s)]
    /\ UNCHANGED <<cache, users, ss_list, todo, remote>>

-----------------------------------------------------------------------------
(* Handlers that pass the request on to the file's storage server *)

\* The permission is checked, the mutex released, then the server is called.
Forward(s, c, p, f, pc, r) ==
    /\ Handles(s, c)
    /\ find_file(f)
    /\ sess' = IF Found(f) # NULL /\ check_permission(Found(f), sess[s].user, p)
               THEN [sess EXCEPT ![s] = Waiting(s, pc, r, f, heap[Found(f)].ss)]
               ELSE sess
    /\ UNCHANGED <<heap, index, users, ss_list, disk, mutex, todo, remote>>

handle_undo(s, f) == Forward(s, "UNDO", "W", f, "call", "UNDO")

handle_checkpoint(s, f) == Forward(s, "CHECKPOINT", "R", f, "call", "CHECKPOINT")

handle_revert(s, f) == Forward(s, "REVERT", "W", f, "call", "REVERT")

handle_view_checkpoint(s, f) ==
    Forward(s, "VIEWCHECKPOINT", "R", f, "call", "VIEWCHECKPOINT")

handle_exec(s, f) == Forward(s, "EXEC", "R", f, "call", "EXEC")

\* READ and STREAM: the client is redirected and talks to the server itself.
handle_read(s, f) == Forward(s, "READ", "R", f, "direct", "READ")

handle_write(s, f) == Forward(s, "WRITE", "W", f, "write", "WRITE")

-----------------------------------------------------------------------------
(* Storage servers, as far as the name server and the sessions can tell *)

\* Storage server sess[s].ss has a request of one of these kinds to answer.
Called(s, reqs) ==
    /\ sess[s].pc \in {"call", "direct"}
    /\ sess[s].req \in reqs
    /\ sess[s].reply = "none"
    /\ ss_up[sess[s].ss]

Answer(s, a) == sess' = [sess EXCEPT ![s].reply = a]

nameServer == <<heap, index, cache, users, ss_list, disk, mutex, todo>>

\* The directory of the server that s talks to becomes D.
Directory(s, D) == phys' = [phys EXCEPT ![sess[s].ss] = D]

\* Faulty variant: the error reply is cut short, as those of the others are.
SS_CREATETruncated(s) ==
    /\ Called(s, {"CREATE"})
    /\ Answer(s, IF sess[s].file \in phys[sess[s].ss] THEN "trunc" ELSE "ack")
    /\ Directory(s, phys[sess[s].ss] \cup {sess[s].file})
    /\ UNCHANGED <<nameServer, ss_up, chk>>

SS_CREATE(s) ==
    /\ Called(s, {"CREATE"})
    /\ Answer(s, IF sess[s].file \in phys[sess[s].ss] THEN "err" ELSE "ack")
    /\ Directory(s, phys[sess[s].ss] \cup {sess[s].file})
    /\ UNCHANGED <<nameServer, ss_up, chk>>

\* The error reply of this and of the next requests is sent with a length that
\* leaves out the end of its __SS_END__ token.
SS_DELETE(s) ==
    /\ Called(s, {"DELETE"})
    /\ Answer(s, IF sess[s].file \in phys[sess[s].ss] THEN "ack" ELSE "trunc")
    /\ Directory(s, phys[sess[s].ss] \ {sess[s].file})
    /\ UNCHANGED <<nameServer, ss_up, chk>>

\* rename(<file>.bak, <file>)
SS_UNDO(s) ==
    LET f == sess[s].file
        D == phys[sess[s].ss]
    IN  /\ Called(s, {"UNDO"})
        /\ Answer(s, IF BakOf[f] \in D THEN "ack" ELSE "trunc")
        /\ Directory(s, IF BakOf[f] \in D THEN (D \ {BakOf[f]}) \cup {f} ELSE D)
        /\ UNCHANGED <<nameServer, ss_up, chk>>

SS_CHECKPOINT(s) ==
    LET f == sess[s].file
        d == sess[s].ss
    IN  /\ Called(s, {"CHECKPOINT"})
        /\ Answer(s, IF f \in phys[d] THEN "ack" ELSE "trunc")
        /\ chk' = [chk EXCEPT ![d] = @ \cup ({f} \cap phys[d])]
        /\ UNCHANGED <<nameServer, ss_up, phys>>

SS_REVERT(s) ==
    LET f == sess[s].file
        d == sess[s].ss
    IN  /\ Called(s, {"REVERT"})
        /\ Answer(s, IF f \in chk[d] THEN "ack" ELSE "trunc")
        /\ Directory(s, phys[d] \cup ({f} \cap chk[d]))
        /\ UNCHANGED <<nameServer, ss_up, chk>>

\* Contents of 4095 bytes or more fill the name server's buffer, and the next
\* recv returns 0: to the thread that is a failed call.
Contents(s) == IF sess[s].pc = "call" THEN {"ack", "fail"} ELSE {"ack"}

\* SS_READ and SS_STREAM, for a client, for EXEC and for UPDATE_META.
SS_READ(s) ==
    /\ Called(s, {"READ", "EXEC", "META"})
    /\ \E a \in Contents(s) :
          Answer(s, IF sess[s].file \in phys[sess[s].ss] THEN a ELSE "trunc")
    /\ UNCHANGED <<nameServer, remote>>

\* The error reply of this request is complete.
SS_READ_CHECKPOINT(s) ==
    /\ Called(s, {"VIEWCHECKPOINT"})
    /\ \E a \in Contents(s) :
          Answer(s, IF sess[s].file \in chk[sess[s].ss] THEN a ELSE "err")
    /\ UNCHANGED <<nameServer, remote>>

\* COMMIT_WRITE: the old file, if any, becomes <file>.bak and the new one takes
\* its place; or the sentence is not found, or the connection is gone, and
\* nothing happens.  The client goes on to UPDATE_META in all cases.
COMMIT_WRITE(s) ==
    LET f == sess[s].file
        D == phys[sess[s].ss]
    IN  /\ sess[s].pc = "write"
        /\ \/ UNCHANGED phys
           \/ /\ ss_up[sess[s].ss]
              /\ Directory(s, D \cup {f} \cup IF f \in D THEN {BakOf[f]} \ {NULL}
                                                         ELSE {})
        /\ sess' = [sess EXCEPT ![s].pc = "meta"]
        /\ UNCHANGED <<nameServer, ss_up, chk>>

\* The write session ends without ETIRW, or never gets its lock.
WriteEnds(s) ==
    /\ sess[s].pc = "write"
    /\ sess' = [sess EXCEPT ![s] = Back(s)]
    /\ UNCHANGED <<nameServer, remote>>

\* Faulty variant: only clients notice that a server is gone.
UnreachableBlocks(s) ==
    /\ sess[s].pc = "direct"
    /\ sess[s].reply = "none"
    /\ ~ss_up[sess[s].ss]
    /\ Answer(s, "fail")
    /\ UNCHANGED <<nameServer, remote>>

\* connect fails.
Unreachable(s) ==
    /\ sess[s].pc \in {"call", "direct"}
    /\ sess[s].reply = "none"
    /\ ~ss_up[sess[s].ss]
    /\ Answer(s, "fail")
    /\ UNCHANGED <<nameServer, remote>>

\* The server process dies: whoever waits for it has its connection closed.
StorageServerCrash(d) ==
    /\ "ss" \in Faults
    /\ ss_up[d]
    /\ ss_up' = [ss_up EXCEPT ![d] = FALSE]
    /\ sess' = [s \in Sessions |->
                  IF /\ sess[s].ss = d
                     /\ sess[s].pc \in {"call", "direct"}
                     /\ sess[s].reply \in {"none", "trunc"}
                  THEN [sess[s] EXCEPT !.reply = "fail"]
                  ELSE sess[s]]
    /\ UNCHANGED <<nameServer, phys, chk>>

-----------------------------------------------------------------------------
(* The end of a call *)

\* The answer is passed on to the client, or the client has read it.  A thread
\* of a name server that died makes no call any more.
CallReturns(s) ==
    /\ sess[s].pc \in {"call", "direct"}
    /\ \/ /\ sess[s].reply \in {"ack", "err", "fail"}
          /\ sess[s].req \notin {"DELETE", "META"}
       \/ /\ sess[s].user = NULL
          /\ sess[s].pc = "call"
    /\ sess' = [sess EXCEPT ![s] = Back(s)]
    /\ UNCHANGED <<nameServer, remote>>

\* UPDATE_META: when the file is not found the handler returns without a word
\* and the client keeps waiting for __END__.
handle_update_meta(s) ==
    LET f == sess[s].file
    IN  /\ sess[s].pc = "meta"
        /\ \/ /\ sess[s].user = NULL
              /\ sess' = [sess EXCEPT ![s] = Off]
              /\ UNCHANGED cache
           \/ /\ sess[s].user # NULL
              /\ mutex = NULL
              /\ find_file(f)
              /\ sess' = [sess EXCEPT ![s] =
                            IF Found(f) = NULL
                            THEN [Idle(s) EXCEPT !.pc = "hung"]
                            ELSE Waiting(s, "call", "META", f, heap[Found(f)].ss)]
        /\ UNCHANGED <<heap, index, users, ss_list, disk, mutex, todo, remote>>

\* Faulty variant: the acknowledgement is not sent.
MetaReturnsSilent(s) ==
    /\ sess[s].pc = "call"
    /\ sess[s].req = "META"
    /\ sess[s].user # NULL
    /\ sess[s].reply \in {"ack", "fail"}
    /\ sess' = [sess EXCEPT ![s] = [Idle(s) EXCEPT !.pc = "hung"]]
    /\ UNCHANGED <<nameServer, remote>>

\* handle_update_meta after connect_and_send_to_ss: a failed call is not
\* answered either, else the file is looked up once more.
MetaReturns(s) ==
    /\ sess[s].pc = "call"
    /\ sess[s].req = "META"
    /\ sess[s].user # NULL
    /\ \/ /\ sess[s].reply = "fail"
          /\ sess' = [sess EXCEPT ![s] = [Idle(s) EXCEPT !.pc = "hung"]]
          /\ UNCHANGED cache
       \/ /\ sess[s].reply = "ack"
          /\ mutex = NULL
          /\ find_file(sess[s].file)
          /\ sess' = [sess EXCEPT ![s] = Idle(s)]
    /\ UNCHANGED <<heap, index, users, ss_list, disk, mutex, todo, remote>>

-----------------------------------------------------------------------------
(* Registration of storage servers *)

\* A storage server starts, lists its directory and registers before it
\* listens.  A known address is acknowledged and its file list ignored.
register_storage_server(d) ==
    /\ ~ss_up[d]
    /\ mutex = NULL
    /\ IF \E i \in 1..Len(ss_list) : ss_list[i] = d
       THEN /\ ss_up' = [ss_up EXCEPT ![d] = TRUE]
            /\ UNCHANGED <<ss_list, todo, mutex>>
       ELSE /\ ss_list' = <<d>> \o ss_list
            /\ todo' = phys[d]
            /\ mutex' = d
            /\ UNCHANGED ss_up
    /\ UNCHANGED <<heap, index, cache, users, disk, sess, phys, chk>>

\* One listed name (readdir's order is arbitrary), the mutex held.  Nothing is
\* saved; is_directory, pending and annotation are left uninitialised.
RegisterFile(n) ==
    /\ mutex \in Servers
    /\ n \in todo
    /\ find_file(n)
    /\ IF Found(n) # NULL
       THEN UNCHANGED <<heap, index>>
       ELSE \E b \in Blocks \ file_list :
              Add(b, NewFile(b, n, SSOwner, mutex, NoAccess))
    /\ todo' = todo \ {n}
    /\ UNCHANGED <<users, ss_list, disk, mutex, sess, remote>>

RegistrationDone ==
    /\ mutex \in Servers
    /\ todo = {}
    /\ mutex' = NULL
    /\ ss_up' = [ss_up EXCEPT ![mutex] = TRUE]
    /\ UNCHANGED <<heap, index, cache, users, ss_list, disk, todo, sess, phys, chk>>

-----------------------------------------------------------------------------
(* Specification *)

\* No process runs yet; the storage servers' directories may hold anything.
Init ==
    /\ heap = [b \in Blocks |-> Zeroed]
    /\ file_list = {}
    /\ table = [f \in Names |-> <<>>]
    /\ lookup = [f \in Names |-> NULL]
    /\ lru = <<>>
    /\ users = {}
    /\ ss_list = <<>>
    /\ disk = [users |-> {}, files |-> [f \in Names |-> NULL],
               notes |-> [f \in Names |-> NULL]]
    /\ mutex = NULL
    /\ todo = {}
    /\ sess = [s \in Sessions |-> Off]
    /\ ss_up = [d \in Servers |-> FALSE]
    /\ phys \in [Servers -> SUBSET Names]
    /\ chk = [d \in Servers |-> {}]

MetadataCommand(s, f) ==
    \/ handle_info(s, f)
    \/ handle_req_access(s, f)
    \/ \E u \in Users : \/ \E p \in {"R", "W"} : handle_add_access(s, f, u, p)
                        \/ handle_rem_access(s, f, u)
                        \/ handle_approve_req(s, f, u)
                        \/ handle_reject_req(s, f, u)
    \/ \E n \in Notes : handle_annotate(s, f, n)

LifecycleCommand(s, f) ==
    \/ handle_create(s, f)
    \/ handle_create_folder(s, f)
    \/ handle_delete(s, f)

ForwardedCommand(s, f) ==
    \/ handle_undo(s, f)
    \/ handle_checkpoint(s, f)
    \/ handle_revert(s, f)
    \/ handle_view_checkpoint(s, f)
    \/ handle_exec(s, f)
    \/ handle_read(s, f)
    \/ handle_write(s, f)

\* What a storage server's thread does for s.
Serve(s) ==
    \/ SS_CREATE(s)
    \/ SS_DELETE(s)
    \/ SS_UNDO(s)
    \/ SS_CHECKPOINT(s)
    \/ SS_REVERT(s)
    \/ SS_READ(s)
    \/ SS_READ_CHECKPOINT(s)
    \/ Unreachable(s)

\* What the name server's thread of s does once it has its answer.
Return(s) ==
    \/ CallReturns(s)
    \/ DeleteReturns(s)
    \/ MetaReturns(s)

Registration ==
    \/ \E n \in Names : RegisterFile(n)
    \/ RegistrationDone

Next ==
    \/ \E s \in Sessions :
          \/ \E u \in Users : register_user(s, u)
          \/ Disconnect(s)
          \/ \E f \in Names : \/ MetadataCommand(s, f)
                              \/ LifecycleCommand(s, f)
                              \/ ForwardedCommand(s, f)
          \/ COMMIT_WRITE(s)
          \/ WriteEnds(s)
          \/ handle_update_meta(s)
          \/ Serve(s)
          \/ Return(s)
    \/ \E d \in Servers : register_storage_server(d) \/ StorageServerCrash(d)
    \/ Registration
    \/ NameServerCrash

Spec == Init /\ [][Next]_vars

\* A thread that has something to do is scheduled.  Nothing is assumed of the
\* users, of crashes and restarts, or of who gets a contended mutex.
Fairness ==
    /\ \A s \in Sessions : WF_vars(Serve(s)) /\ WF_vars(Return(s))
    /\ WF_vars(Registration)

FairSpec == Spec /\ Fairness

-----------------------------------------------------------------------------
(* Invariants *)

DiskType ==
    [users : SUBSET Users, files : [Names -> MetadataLine \cup {NULL}],
     notes : [Names -> Notes \cup {NULL}]]

\* Every variable has its type; above all, every line save_metadata writes
\* names an owner and a storage server, whatever malloc's blocks held before.
TypeOK ==
    /\ heap \in [Blocks -> FileMetadata]
    /\ file_list \subseteq Blocks
    /\ table \in [Names -> Seq(Blocks)]
    /\ lookup \in [Names -> Blocks \cup {NULL}]
    /\ lru \in Seq(Names)
    /\ users \subseteq Users
    /\ ss_list \in Seq(Servers)
    /\ disk \in DiskType
    /\ mutex \in Sessions \cup Servers \cup {NULL}
    /\ todo \subseteq Names
    /\ sess \in [Sessions -> Session]
    /\ ss_up \in [Servers -> BOOLEAN]
    /\ phys \in [Servers -> SUBSET Names]
    /\ chk \in [Servers -> SUBSET Names]

\* file_hash_table is an index of file_list_head: a name has one chain entry
\* and one list node, the same block, or neither.  handle_create,
\* handle_create_folder, register_storage_server and handle_delete maintain
\* the two structures by separate statements.
TableMatchesList ==
    \A f \in Names :
       \/ table[f] = <<>> /\ ListedAs(heap, file_list, f) = {}
       \/ \E b \in Blocks : table[f] = <<b>> /\ ListedAs(heap, file_list, f) = {b}

\* The cache's lookup table and its linked list hold the same keys, none twice,
\* and no more than CACHE_SIZE of them (lru_get, lru_put).
CacheWellFormed ==
    /\ Len(lru) <= CacheSize
    /\ \A i, j \in 1..Len(lru) : lru[i] = lru[j] => i = j
    /\ \A f \in Names : lookup[f] # NULL <=> \E i \in 1..Len(lru) : lru[i] = f

\* A cache entry never shadows another record: although handle_delete leaves
\* the deleted record in the cache, a name that is in the hash table and in the
\* cache has the same block in both, so find_file returns the right one for
\* every file that exists.
CacheAgreesWithTable ==
    \A f \in Names : table[f] # <<>> /\ lookup[f] # NULL => lookup[f] = ht_search(f)

\* What the three files on disk say about a file that a user created is what
\* memory says, whenever no handler is running: owner, server, access list and
\* note.  Files a storage server brought along are not saved until something
\* else is.
SavedMetadataIsCurrent ==
    \A b \in file_list :
       heap[b].owner # SSOwner =>
          /\ disk.files[heap[b].filename] = LineOf(heap[b])
          /\ disk.notes[heap[b].filename] = heap[b].annotation

\* data_mutex is held across a storage server call by handle_delete and by
\* nobody else, and by one thread: a session is in such a call exactly when it
\* is the holder.
DeleterHoldsMutex ==
    \A s \in Sessions :
       mutex = s <=> /\ sess[s].pc = "call"
                     /\ sess[s].req = "DELETE"
                     /\ sess[s].user # NULL

\* The ss pointer that a handler follows after it has released the mutex, or
\* has taken from a cached record that was deleted, is a server that the
\* running name server has registered (target_ss is never checked).
CallsKnownServers ==
    \A s \in Sessions :
       sess[s].pc \in {"call", "direct", "write"} /\ sess[s].user # NULL =>
          \E i \in 1..Len(ss_list) : ss_list[i] = sess[s].ss

-----------------------------------------------------------------------------
(* The inductive invariant of the proofs *)

\* Every listed record has a name, an owner and a server.
ListedComplete ==
    \A b \in file_list : /\ heap[b].filename \in Names
                         /\ heap[b].owner \in Owners
                         /\ heap[b].ss \in Servers

\* A session that may issue commands belongs to a user; one that is busy with a
\* storage server is about a file.
SessionsComplete ==
    \A s \in Sessions :
       /\ sess[s].pc = "idle" => sess[s].user \in Users
       /\ sess[s].pc \in {"call", "direct", "write", "meta"} => sess[s].file \in Names

\* While handle_delete waits with the mutex, the file stays its user's.
DeleterOwnsFile ==
    \A s \in Sessions : mutex = s =>
       \A b \in ListedAs(heap, file_list, sess[s].file) :
          heap[b].owner = sess[s].user

\* What the name server's structures owe to each other between two steps: the
\* conjunction that every step preserves.
Inv ==
    /\ TypeOK
    /\ ListedComplete
    /\ TableMatchesList
    /\ CacheWellFormed
    /\ CacheAgreesWithTable
    /\ SessionsComplete
    /\ DeleterHoldsMutex
    /\ DeleterOwnsFile
    /\ SavedMetadataIsCurrent

-----------------------------------------------------------------------------
(* Action and liveness properties *)

\* Unless the name server dies, a record leaves file_list_head only in the
\* handle_delete that holds data_mutex, asked for by the record's owner under
\* the record's own name, also when the name was looked up through a cache
\* entry whose block has been reused.
OnlyOwnerUnlists ==
    [][ss_list' # <<>> =>
         \A b \in file_list \ file_list' :
            \E s \in Sessions : /\ mutex = s
                                /\ sess[s].req = "DELETE"
                                /\ sess[s].file = heap[b].filename
                                /\ sess[s].user = heap[b].owner]_vars

\* A DELETE whose error reply was cut short: connect_and_send_to_ss waits.
TruncatedDelete ==
    \E s \in Sessions : sess[s].req = "DELETE" /\ sess[s].reply = "trunc"

\* data_mutex is released again and again, storage servers dying or not,
\* unless handle_delete waits for a reply that the storage server cut short.
OnlyTruncatedDeleteWedges ==
    []<>(mutex = NULL) \/ <>[]TruncatedDelete

\* handle_create always answers its client, with an error when the storage
\* server has the file already or is gone.
CreateIsAnswered ==
    \A s \in Sessions : sess[s].req = "CREATE" ~> sess[s].req # "CREATE"

\* Every other call the name server makes for a client comes to an end as well,
\* unless its reply was cut short.  UPDATE_META, which takes the mutex again
\* after its call, is not promised as much.
ForwardedCallsEnd ==
    \A s \in Sessions :
       sess[s].req \in Forwarded ~>
          sess[s].req \notin Forwarded \/ sess[s].reply = "trunc"

\* After COMMIT_WRITE the client sends UPDATE_META and waits for its answer,
\* although handle_update_meta says "client doesn't wait for one" where it
\* returns without.  As long as no file is being deleted and no fetch of the new
\* contents fails, that does not happen: whatever else runs between WRITE and
\* UPDATE_META, and between its two halves, the record is still found.
NothingDeleted == \A s \in Sessions : sess[s].req # "DELETE"
NoFetchFails == \A s \in Sessions : sess[s].req = "META" => sess[s].reply # "fail"

UpdateMetaIsAnswered ==
    [](NothingDeleted /\ NoFetchFails) => [](\A s \in Sessions : sess[s].pc # "hung")

-----------------------------------------------------------------------------
(* What the documentation, comments and messages say, and the code does not do *)

\* "File '%s' successfully deleted from system": find_file returns only records
\* that are on file_list_head, under the name asked for.
FoundFilesExist ==
    \A f \in Names : Found(f) # NULL => Found(f) \in ListedAs(heap, file_list, f)

\* "On startup, the Name Server reloads [...] to restore the state exactly as
\* it was": after a restart every saved file is known, with its owner.
RestartRestoresFiles ==
    [][NameServerCrash =>
         \A f \in Names : disk.files[f] # NULL =>
            \E b \in ListedAs(heap', file_list', f) :
               heap'[b].owner = disk.files[f].owner]_vars

\* "SS failed to delete, so we don't touch metadata [...] Unlock mutex and send
\* final response to client": handle_delete comes to an end.
DeleteIsAnswered ==
    \A s \in Sessions : sess[s].req = "DELETE" ~> sess[s].req # "DELETE"

=============================================================================
