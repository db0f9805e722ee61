----------------------------- MODULE Connection -----------------------------
(***************************************************************************)
(* Connections to a storage server, byte by byte: how handle_ss_connection *)
(* takes a request apart with strtok and streams its reply, and how        *)
(* read_from_ss in the client and connect_and_send_to_ss in the name       *)
(* server find the end of it.                                              *)
(*                                                                         *)
(* strtok keeps the place it has reached in one static variable, olds, for *)
(* all threads of the process: strtok(buffer) starts over in the thread's  *)
(* own buffer, strtok(NULL) goes on wherever the last call of any thread   *)
(* stopped.  Its load and its store of olds are separate steps here.       *)
(*                                                                         *)
(* SS_READ (SS_STREAM has the same code) and SS_READ_CHECKPOINT stand for  *)
(* the commands with one and with two arguments.  A reply is a number of   *)
(* bytes followed by the end token __SS_END__; what recv returns is any    *)
(* part of what has been sent.                                             *)
(***************************************************************************)
EXTENDS Naturals, Sequences, FiniteSetsExt

CONSTANTS
    Conns,      \* connections (and the server threads that handle them)
    NsConns,    \* those the name server makes; the others are clients'
    Files,      \* file names
    Tag,        \* the tag of a checkpoint
    Length,     \* length of each file and of its checkpoint; NULL: none
    ErrorLen,   \* length of an error text
    TokenLen,   \* length of __SS_END__
    BlockLen,   \* size of file_buf
    ChunkLen,   \* MAX_RESPONSE_LEN - 1, what a client asks recv for
    BufLen,     \* SS_RESPONSE_LEN - 1, what the name server has room for
    NULL

Commands == {"SS_READ", "SS_READ_CHECKPOINT"}

ASSUME ConnectionAssumption ==
    /\ NsConns \subseteq Conns
    /\ Length \in [Commands -> [Files -> Nat \cup {NULL}]]
    /\ {ErrorLen, TokenLen, BlockLen, ChunkLen, BufLen} \subseteq Nat \ {0}
    /\ Tag \notin Files
    /\ NULL \notin Files \cup Conns \cup Nat \cup {Tag} \cup [conn : Conns, pos : Nat]

VARIABLES
    alive,      \* the storage server's process runs
    olds,       \* strtok's static variable: a buffer and the token to go on at
    buffer,     \* the tokens in each thread's buffer, kept when it ends
    cut,        \* the tokens of a buffer that strtok has terminated
    thread,     \* what the thread of each connection is doing
    peer        \* what the other end of each connection is doing

vars == <<alive, olds, buffer, cut, thread, peer>>

-----------------------------------------------------------------------------
(* Types *)

Request == {<<"SS_READ", f>> : f \in Files}
             \cup {<<"SS_READ_CHECKPOINT", f, Tag>> : f \in Files}

\* Only the name server reads checkpoints.
RequestsOf(c) == IF c \in NsConns THEN Request
                 ELSE {r \in Request : r[1] = "SS_READ"}

Place == [conn : Conns, pos : Nat]
Argument == Files \cup {Tag, NULL}

\* pc: "closed"; "recv" a request is on its way; "args" before the next
\* strtok(NULL), "token" inside it, with what it loaded in seen; "open" all
\* arguments found; "reply" in the loop that sends.
\* what: the file or checkpoint being sent, NULL for an error text of len bytes;
\* total: bytes of the whole reply, sent: of the part that has been sent.
Thread ==
    [pc : {"closed", "recv", "args", "token", "open", "reply"},
     seen : Place \cup {NULL}, args : Seq(Argument),
     what : (Commands \X Files) \cup {NULL},
     len : Nat, total : Nat, sent : Nat]

NoThread == [pc |-> "closed", seen |-> NULL, args |-> <<>>, what |-> NULL,
             len |-> 0, total |-> 0, sent |-> 0]

\* "idle" no connection; "waiting" for the rest of the reply, of which rcvd bytes
\* have come; "done" the end token was found; "failed" recv returned 0; "gone"
\* the client was killed.
Peer == [pc : {"idle", "waiting", "done", "failed", "gone"},
         req : Request \cup {NULL}, rcvd : Nat,
         got : (Commands \X Files) \cup {NULL}]

Idle == [pc |-> "idle", req |-> NULL, rcvd |-> 0, got |-> NULL]

-----------------------------------------------------------------------------
(* Parsing a request *)

\* A peer connects and sends its request; a new thread is in recv.
Connect(c, r) ==
    /\ alive /\ thread[c].pc = "closed" /\ peer[c].pc # "waiting"
    /\ thread' = [thread EXCEPT ![c] = [NoThread EXCEPT !.pc = "recv"]]
    /\ peer' = [peer EXCEPT ![c] = [Idle EXCEPT !.pc = "waiting", !.req = r]]
    /\ UNCHANGED <<alive, olds, buffer, cut>>

\* recv fills the buffer and strtok(buffer, ";\n") finds the command.
ParseCommand(c) ==
    /\ thread[c].pc = "recv"
    /\ buffer' = [buffer EXCEPT ![c] = peer[c].req]
    /\ cut' = [cut EXCEPT ![c] = {1}]
    /\ olds' = [conn |-> c, pos |-> 2]
    /\ thread' = [thread EXCEPT ![c].pc = "args"]
    /\ UNCHANGED <<alive, peer>>

\* strtok(NULL, ";\n") loads olds.
LoadPlace(c) ==
    /\ thread[c].pc = "args"
    /\ thread' = [thread EXCEPT ![c].pc = "token", ![c].seen = olds]
    /\ UNCHANGED <<alive, olds, buffer, cut, peer>>

\* The token strtok finds at place p.  The buffer of a thread that has ended, or
\* of a new one in its place, may still hold what it held, or not.
TokensAt(p) ==
    IF p.pos > Len(buffer[p.conn]) THEN {NULL}
    ELSE {buffer[p.conn][p.pos]}
           \cup (IF thread[p.conn].pc \in {"closed", "recv"} THEN {NULL} ELSE {})

\* Where strtok goes on after token x at place p.  If another thread terminated
\* the token in the meantime, strtok may take it for the last one.
PlacesAfter(p, x) ==
    IF x = NULL THEN {p}
    ELSE {[p EXCEPT !.pos = @ + 1]}
           \cup (IF p.pos \in cut[p.conn]
                 THEN {[p EXCEPT !.pos = Len(buffer[p.conn]) + 1]} ELSE {})

\* Faulty variant: the position is not moved on.
NextTokenStays(c) ==
    LET p == thread[c].seen
        args == thread[c].args
    IN  /\ thread[c].pc = "token"
        /\ \E x \in TokensAt(p) :
             /\ olds' = p
             /\ thread' = [thread EXCEPT
                   ![c].pc = IF Len(args) + 2 = Len(peer[c].req)
                             THEN "open" ELSE "args",
                   ![c].seen = NULL, ![c].args = Append(args, x)]
        /\ UNCHANGED <<alive, buffer, cut, peer>>

\* strtok finds the token, terminates it and stores olds.
NextToken(c) ==
    LET p == thread[c].seen
        args == thread[c].args
    IN  /\ thread[c].pc = "token"
        /\ \E x \in TokensAt(p) :
             /\ olds' \in PlacesAfter(p, x)
             /\ cut' = [cut EXCEPT ![p.conn] = IF x = NULL THEN @ ELSE @ \cup {p.pos}]
             /\ thread' = [thread EXCEPT
                   ![c].pc = IF Len(args) + 2 = Len(peer[c].req)
                             THEN "open" ELSE "args",
                   ![c].seen = NULL, ![c].args = Append(args, x)]
        /\ UNCHANGED <<alive, buffer, peer>>

-----------------------------------------------------------------------------
(* Replying *)

\* The process dies, and its connections are closed.
Die ==
    /\ alive' = FALSE
    /\ thread' = [c \in Conns |-> NoThread]
    /\ UNCHANGED <<olds, buffer, cut, peer>>

\* The file or checkpoint the arguments name, if it exists.
Named(cmd, args) ==
    IF /\ args[1] \in Files /\ Length[cmd][args[1]] # NULL
       /\ cmd = "SS_READ_CHECKPOINT" => args[2] = Tag
    THEN <<cmd, args[1]>> ELSE NULL

\* fopen.  The error reply of SS_READ is sent without the end of its token.
\* get_safe_path passes a NULL file name to strstr.
OpenFile(c) ==
    LET cmd == buffer[c][1]
        what == Named(cmd, thread[c].args)
        len == IF what = NULL THEN ErrorLen ELSE Length[cmd][what[2]]
        lost == IF what = NULL /\ cmd = "SS_READ" THEN 1 ELSE 0
    IN  /\ thread[c].pc = "open"
        /\ IF cmd = "SS_READ" /\ thread[c].args[1] = NULL
           THEN Die
           ELSE /\ thread' = [thread EXCEPT ![c] =
                     [@ EXCEPT !.pc = "reply", !.what = what, !.len = len,
                               !.total = len + TokenLen - lost]]
                /\ UNCHANGED <<alive, olds, buffer, cut, peer>>

\* One send: a block of the file, or at its end the end token.  An error text
\* and its token are one send.
Block(t) ==
    IF t.what = NULL THEN t.total
    ELSE IF t.sent < t.len THEN Min({t.sent + BlockLen, t.len})
    ELSE t.total

\* To a peer that has closed the connection a first send succeeds; a later one
\* may do so too, or raise SIGPIPE, which nobody ignores.
SendBlock(c) ==
    /\ thread[c].pc = "reply" /\ thread[c].sent < thread[c].total
    /\ \/ /\ thread' = [thread EXCEPT ![c].sent = Block(thread[c])]
          /\ UNCHANGED <<alive, olds, buffer, cut, peer>>
       \/ peer[c].pc # "waiting" /\ thread[c].sent > 0 /\ Die

\* All is sent, and recv finds the connection closed.
ThreadEnds(c) ==
    /\ thread[c].pc = "reply" /\ thread[c].sent = thread[c].total
    /\ peer[c].pc # "waiting"
    /\ thread' = [thread EXCEPT ![c] = NoThread]
    /\ UNCHANGED <<alive, olds, buffer, cut, peer>>

Restart ==
    /\ ~alive
    /\ alive' = TRUE
    /\ olds' = NULL
    /\ UNCHANGED <<buffer, cut, thread, peer>>

-----------------------------------------------------------------------------
(* Reading the reply *)

\* Faulty variant: the name server also looks at the last piece only.
SeesTokenInPiece(c, n) ==
    /\ peer[c].rcvd + n >= thread[c].len + TokenLen
    /\ peer[c].rcvd <= thread[c].len

\* The end token is in what strstr looks at after n more bytes: for the name
\* server all it has received, for a client only these n.
SeesToken(c, n) ==
    /\ peer[c].rcvd + n >= thread[c].len + TokenLen
    /\ c \in NsConns \/ peer[c].rcvd <= thread[c].len

\* Faulty variant: the room left does not shrink as the buffer fills.
ReceiveUnbounded(c, n) ==
    /\ peer[c].pc = "waiting" /\ thread[c].pc = "reply"
    /\ n <= thread[c].sent - peer[c].rcvd
    /\ n <= IF c \in NsConns THEN BufLen ELSE ChunkLen
    /\ peer' = [peer EXCEPT ![c] =
                  IF SeesToken(c, n)
                  THEN [@ EXCEPT !.pc = "done", !.rcvd = 0, !.got = thread[c].what]
                  ELSE [@ EXCEPT !.rcvd = peer[c].rcvd + n]]
    /\ UNCHANGED <<alive, olds, buffer, cut, thread>>

\* recv returns n bytes; a reader that sees the token closes the connection.
Receive(c, n) ==
    /\ peer[c].pc = "waiting" /\ thread[c].pc = "reply"
    /\ n <= thread[c].sent - peer[c].rcvd
    /\ n <= IF c \in NsConns THEN BufLen - peer[c].rcvd ELSE ChunkLen
    /\ peer' = [peer EXCEPT ![c] =
                  IF SeesToken(c, n)
                  THEN [@ EXCEPT !.pc = "done", !.rcvd = 0, !.got = thread[c].what]
                  ELSE [@ EXCEPT !.rcvd = peer[c].rcvd + n]]
    /\ UNCHANGED <<alive, olds, buffer, cut, thread>>

\* The name server's buffer is full: recv is asked for 0 bytes.
BufferFull(c) ==
    /\ c \in NsConns
    /\ peer[c].pc = "waiting" /\ peer[c].rcvd = BufLen
    /\ peer' = [peer EXCEPT ![c].pc = "failed", ![c].rcvd = 0]
    /\ UNCHANGED <<alive, olds, buffer, cut, thread>>

\* The server died.
ConnectionLost(c) ==
    /\ peer[c].pc = "waiting" /\ thread[c].pc = "closed"
    /\ peer' = [peer EXCEPT ![c].pc = "failed", ![c].rcvd = 0]
    /\ UNCHANGED <<alive, olds, buffer, cut, thread>>

\* A user kills a client.
ClientKilled(c) ==
    /\ c \notin NsConns
    /\ peer[c].pc = "waiting"
    /\ peer' = [peer EXCEPT ![c].pc = "gone", ![c].rcvd = 0]
    /\ UNCHANGED <<alive, olds, buffer, cut, thread>>

-----------------------------------------------------------------------------
(* Specification *)

Init ==
    /\ alive = TRUE
    /\ olds = NULL
    /\ buffer = [c \in Conns |-> <<>>]
    /\ cut = [c \in Conns |-> {}]
    /\ thread = [c \in Conns |-> NoThread]
    /\ peer = [c \in Conns |-> Idle]

\* What the server's thread of c does.
Serve(c) ==
    \/ ParseCommand(c)
    \/ LoadPlace(c)
    \/ NextToken(c)
    \/ OpenFile(c)
    \/ SendBlock(c)
    \/ ThreadEnds(c)

\* What the other end does with what arrives.
Read(c) ==
    \/ \E n \in 1..(BufLen + ChunkLen) : Receive(c, n)
    \/ BufferFull(c)
    \/ ConnectionLost(c)

Next ==
    \/ \E c \in Conns :
          \/ \E r \in RequestsOf(c) : Connect(c, r)
          \/ Serve(c)
          \/ Read(c)
          \/ ClientKilled(c)
    \/ Restart

Spec == Init /\ [][Next]_vars

\* Threads and readers that can go on do.  Nothing is assumed of the users, nor
\* of a restart.
FairSpec == Spec /\ \A c \in Conns : WF_vars(Serve(c)) /\ WF_vars(Read(c))

-----------------------------------------------------------------------------
(* Properties *)

\* Every variable has its type; above all, connect_and_send_to_ss never writes
\* past the end of its buffer, and strtok's place is always in some buffer.
TypeOK ==
    /\ alive \in BOOLEAN
    /\ olds \in Place \cup {NULL}
    /\ buffer \in [Conns -> Request \cup {<<>>}]
    /\ cut \in [Conns -> SUBSET (1..3)]
    /\ thread \in [Conns -> Thread]
    /\ peer \in [Conns -> Peer]
    /\ \A c \in NsConns : peer[c].rcvd <= BufLen

\* What the code relies on without enforcing it: strtok is used by one thread at
\* a time, and readers stay until the reply has been sent.
Parsing == {c \in Conns : thread[c].pc \in {"args", "token"}}

Undisturbed ==
    /\ \A c, d \in Parsing : c = d
    /\ \A c \in Conns : thread[c].sent < thread[c].total => peer[c].pc = "waiting"

\* Then the server never dies, and every reader that finishes has the file or
\* the checkpoint it asked for, or the error reply for one that is not there;
\* however the requests overlap otherwise.
SerialRequestsAreServed ==
    []Undisturbed =>
      [](/\ alive
         /\ \A c \in Conns : peer[c].pc = "done" =>
              peer[c].got = Named(peer[c].req[1], Tail(peer[c].req)))

\* The two ways a reader misses the end of a reply: the server cut the token
\* short, or the client received it in two pieces.
CutShort(c) == thread[c].pc = "reply" /\ thread[c].total < thread[c].len + TokenLen
TokenSplit(c) == c \notin NsConns /\ peer[c].rcvd > thread[c].len

\* Every reader comes to an end otherwise: with the reply, however recv divides
\* it, or with a failure when the server dies or the name server's buffer is
\* full.  connect_and_send_to_ss looks for the token in all it has received, so
\* the name server is safe from a token in two pieces.
ReadersFinish ==
    \A c \in Conns :
       peer[c].pc = "waiting" ~>
          peer[c].pc # "waiting" \/ CutShort(c) \/ TokenSplit(c)

=============================================================================
