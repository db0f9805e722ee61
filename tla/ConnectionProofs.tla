-------------------------- MODULE ConnectionProofs --------------------------
(***************************************************************************)
(* Proofs about connections to a storage server: the buffers' bounds and   *)
(* strtok's place for any interleaving of the threads, and the right reply *)
(* to every reader when requests are parsed one at a time.                 *)
(***************************************************************************)
EXTENDS Connection, TLAPS

\* How far the thread of c has come with its request: the buffer holds what the
\* peer sent, strtok has a place to go on at, and no more arguments are asked
\* for than the request has.
ThreadShape(c) ==
    /\ thread[c].pc # "closed" => peer[c].req \in Request
    /\ thread[c].pc = "recv" => thread[c].args = <<>>
    /\ thread[c].pc \in {"args", "token", "open"} => buffer[c] = peer[c].req
    /\ thread[c].pc \in {"args", "token"} => Len(thread[c].args) + 2 <= Len(peer[c].req)
    /\ thread[c].pc = "args" => olds # NULL
    /\ thread[c].pc = "token" => thread[c].seen # NULL /\ thread[c].seen.pos >= 2
    /\ thread[c].pc = "open" => Len(thread[c].args) + 1 = Len(peer[c].req)

\* strtok never goes back to a command; a dead process has no threads.
Shape ==
    /\ TypeOK
    /\ ~alive => \A c \in Conns : thread[c].pc = "closed"
    /\ olds # NULL => olds.pos >= 2
    /\ \A c \in Conns : ThreadShape(c)

\* While only one thread parses, strtok's place is in its buffer, right behind the
\* tokens it has found, which are the only ones terminated; and what is sent, and
\* what a reader has at the end, is what the request names.
Parsed(c) ==
    /\ thread[c].pc = "args" => olds = [conn |-> c, pos |-> Len(thread[c].args) + 2]
    /\ thread[c].pc = "token" =>
          thread[c].seen = [conn |-> c, pos |-> Len(thread[c].args) + 2]
    /\ thread[c].pc \in {"args", "token"} => \A i \in cut[c] : i < Len(thread[c].args) + 2
    /\ thread[c].pc \in {"args", "token", "open"} =>
          \A i \in 1..Len(thread[c].args) : thread[c].args[i] = peer[c].req[i + 1]
    /\ thread[c].pc = "reply" =>
          thread[c].what = Named(peer[c].req[1], Tail(peer[c].req))
    /\ peer[c].pc = "done" =>
          peer[c].got = Named(peer[c].req[1], Tail(peer[c].req))

Served == alive /\ \A c \in Conns : Parsed(c)

-----------------------------------------------------------------------------
(* Requests, threads and peers *)

\* The lengths are positive numbers.
LEMMA Lengths ==
    /\ ErrorLen \in Nat \ {0} /\ TokenLen \in Nat \ {0} /\ BlockLen \in Nat \ {0}
    /\ ChunkLen \in Nat \ {0} /\ BufLen \in Nat \ {0}
BY ConnectionAssumption

\* A place in a buffer is not NULL.
LEMMA PlaceNotNull == \A q \in Place : q # NULL
BY ConnectionAssumption DEF Place

\* The tokens of a request: a command, a file name and perhaps a tag.
LEMMA RequestTokens ==
    ASSUME NEW r \in Request
    PROVE  /\ Len(r) \in 2..3 /\ r # <<>>
           /\ r[1] \in Commands /\ r[2] \in Files
           /\ Tail(r)[1] = r[2]
           /\ \A i \in 2..Len(r) : r[i] \in Argument \ {NULL}
           /\ r[1] = "SS_READ_CHECKPOINT" => Len(r) = 3 /\ Tail(r)[2] = r[3]
<1>1. CASE \E f \in Files : r = <<"SS_READ", f>>
  <2>1. PICK f \in Files : r = <<"SS_READ", f>>
    BY <1>1
  <2>2. Len(r) = 2 /\ r[1] = "SS_READ" /\ r[2] = f /\ Tail(r)[1] = f /\ r # <<>>
    BY <2>1
  <2>3. f \in Argument \ {NULL}
    BY ConnectionAssumption DEF Argument
  <2> QED BY <2>2, <2>3 DEF Commands
<1>2. CASE \E f \in Files : r = <<"SS_READ_CHECKPOINT", f, Tag>>
  <2>1. PICK f \in Files : r = <<"SS_READ_CHECKPOINT", f, Tag>>
    BY <1>2
  <2>2. /\ Len(r) = 3 /\ r[1] = "SS_READ_CHECKPOINT" /\ r[2] = f /\ r[3] = Tag
        /\ Tail(r)[1] = f /\ Tail(r)[2] = Tag /\ r # <<>>
    BY <2>1
  <2>3. f \in Argument \ {NULL} /\ Tag \in Argument \ {NULL}
    BY ConnectionAssumption DEF Argument
  <2> QED BY <2>2, <2>3 DEF Commands
<1> QED BY <1>1, <1>2 DEF Request

\* An ended thread has the type of a thread.
LEMMA NoThreadType == NoThread \in Thread
<1>1. <<>> \in Seq(Argument)
  OBVIOUS
<1> QED BY <1>1 DEF NoThread, Thread

\* A request that the code can be sent is one of the requests.
LEMMA RequestsOfType == \A c \in Conns : RequestsOf(c) \subseteq Request
BY DEF RequestsOf

\* Which connections a step may disturb: only its own, as long as strtok's place
\* does not become NULL.
LEMMA OneConnection ==
    ASSUME Shape, NEW c \in Conns, NEW t \in Thread, NEW p \in Peer,
           thread' = [thread EXCEPT ![c] = t], peer' = [peer EXCEPT ![c] = p],
           buffer' \in [Conns -> Request \cup {<<>>}],
           \A d \in Conns : d # c => buffer'[d] = buffer[d],
           cut' \in [Conns -> SUBSET (1..3)],
           olds' \in Place \cup {NULL},
           olds' = olds \/ (olds' # NULL /\ olds'.pos >= 2),
           alive' = alive, t.pc # "closed" => alive,
           c \in NsConns => p.rcvd <= BufLen,
           ThreadShape(c)'
    PROVE  Shape'
<1>1. /\ thread'[c] = t /\ peer'[c] = p
      /\ \A d \in Conns : d # c => thread'[d] = thread[d] /\ peer'[d] = peer[d]
  BY DEF Shape, TypeOK
<1>2. thread' \in [Conns -> Thread] /\ peer' \in [Conns -> Peer]
  BY DEF Shape, TypeOK
<1>3. \A d \in NsConns : peer'[d].rcvd <= BufLen
  BY <1>1, ConnectionAssumption DEF Shape, TypeOK
<1>4. TypeOK'
  BY <1>2, <1>3 DEF Shape, TypeOK
<1>5. ASSUME NEW d \in Conns, d # c PROVE ThreadShape(d)'
  BY <1>1, <1>5 DEF Shape, ThreadShape
<1>6. ~alive' => \A d \in Conns : thread'[d].pc = "closed"
  BY <1>1 DEF Shape
<1> QED BY <1>4, <1>5, <1>6 DEF Shape

-----------------------------------------------------------------------------
(* The threads *)

\* A new connection keeps the shape.
LEMMA ConnectShape ==
    ASSUME Shape, NEW c \in Conns, NEW r \in RequestsOf(c), Connect(c, r)
    PROVE  Shape'
<1> DEFINE t == [NoThread EXCEPT !.pc = "recv"]
           p == [Idle EXCEPT !.pc = "waiting", !.req = r]
<1>1. t \in Thread /\ t.pc = "recv" /\ t.args = <<>>
  BY NoThreadType DEF Thread, NoThread
<1>2. p \in Peer /\ p.req = r /\ p.rcvd = 0 /\ r \in Request
  BY RequestsOfType DEF Peer, Idle
<1>3. /\ alive /\ UNCHANGED <<alive, olds, buffer, cut>>
      /\ thread' = [thread EXCEPT ![c] = t] /\ peer' = [peer EXCEPT ![c] = p]
  BY DEF Connect
<1>4. thread'[c] = t /\ peer'[c] = p
  BY <1>3 DEF Shape, TypeOK
<1>5. ThreadShape(c)'
  BY <1>1, <1>2, <1>4 DEF ThreadShape
<1>6. p.rcvd <= BufLen
  BY <1>2, Lengths
<1> QED BY <1>1, <1>2, <1>3, <1>5, <1>6, OneConnection DEF Shape, TypeOK

\* strtok(buffer) keeps the shape.
LEMMA ParseCommandShape ==
    ASSUME Shape, NEW c \in Conns, ParseCommand(c)
    PROVE  Shape'
<1> DEFINE t == [thread[c] EXCEPT !.pc = "args"]
<1>1. thread[c] \in Thread /\ peer[c] \in Peer /\ peer[c].req \in Request
      /\ thread[c].args = <<>> /\ alive
  BY DEF Shape, TypeOK, ParseCommand, ThreadShape
<1>2. t \in Thread /\ t.pc = "args" /\ t.args = <<>>
  BY <1>1 DEF Thread
<1>3. /\ alive' = alive /\ thread' = [thread EXCEPT ![c] = t]
      /\ peer' = [peer EXCEPT ![c] = peer[c]]
      /\ buffer' = [buffer EXCEPT ![c] = peer[c].req]
      /\ cut' = [cut EXCEPT ![c] = {1}]
      /\ olds' = [conn |-> c, pos |-> 2]
  BY DEF ParseCommand, Shape, TypeOK
<1>4. olds' \in Place /\ olds' # NULL /\ olds'.pos >= 2
  BY <1>3, PlaceNotNull DEF Place
<1>5. thread'[c] = t /\ peer'[c] = peer[c] /\ buffer'[c] = peer[c].req
  BY <1>3 DEF Shape, TypeOK
<1>6. Len(<<>>) + 2 <= Len(peer[c].req)
  BY <1>1, RequestTokens
<1>7. ThreadShape(c)'
  BY <1>1, <1>2, <1>4, <1>5, <1>6 DEF ThreadShape
<1>8. /\ buffer' \in [Conns -> Request \cup {<<>>}]
      /\ \A d \in Conns : d # c => buffer'[d] = buffer[d]
      /\ cut' \in [Conns -> SUBSET (1..3)]
  BY <1>1, <1>3 DEF Shape, TypeOK
<1> QED BY <1>1, <1>2, <1>3, <1>4, <1>7, <1>8, OneConnection DEF Shape, TypeOK

\* strtok(NULL) loads a place behind a command.
LEMMA LoadPlaceShape ==
    ASSUME Shape, NEW c \in Conns, LoadPlace(c)
    PROVE  Shape'
<1> DEFINE t == [thread[c] EXCEPT !.pc = "token", !.seen = olds]
<1>1. /\ thread[c] \in Thread /\ peer[c] \in Peer /\ peer[c].req \in Request /\ alive
      /\ olds \in Place /\ olds.pos >= 2 /\ olds # NULL
  BY DEF Shape, TypeOK, LoadPlace, ThreadShape
<1>2. t \in Thread /\ t.pc = "token" /\ t.args = thread[c].args /\ t.seen = olds
  BY <1>1 DEF Thread
<1>3. /\ UNCHANGED <<alive, olds, buffer, cut>> /\ thread' = [thread EXCEPT ![c] = t]
      /\ peer' = [peer EXCEPT ![c] = peer[c]]
  BY DEF LoadPlace, Shape, TypeOK
<1>5. thread'[c] = t /\ peer'[c] = peer[c]
  BY <1>3 DEF Shape, TypeOK
<1>7. ThreadShape(c)'
  BY <1>1, <1>2, <1>3, <1>5 DEF ThreadShape, Shape, LoadPlace
<1> QED BY <1>1, <1>2, <1>3, <1>7, OneConnection DEF Shape, TypeOK

\* What strtok finds and where it stops, at a place behind the command.
LEMMA TokenTypes ==
    ASSUME Shape, NEW p \in Place, p.pos >= 2, NEW x \in TokensAt(p)
    PROVE  /\ x \in Argument
           /\ x # NULL => p.pos \in 2..Len(buffer[p.conn]) /\ p.pos \in 1..3
           /\ \A q \in PlacesAfter(p, x) : q \in Place /\ q.pos >= 2
<1>1. p.conn \in Conns /\ p.pos \in Nat
  BY DEF Place
<1>2. buffer[p.conn] \in Request \cup {<<>>} /\ Len(<<>>) = 0
  BY <1>1 DEF Shape, TypeOK
<1>3. Len(buffer[p.conn]) \in 0..3
  BY <1>2, RequestTokens
<1>4. p.pos \in 2..Len(buffer[p.conn]) => buffer[p.conn][p.pos] \in Argument \ {NULL}
  BY <1>1, <1>2, RequestTokens
<1>5. x \in Argument /\ (x # NULL => p.pos \in 2..Len(buffer[p.conn]))
  BY <1>1, <1>3, <1>4 DEF TokensAt, Argument
<1>6. x # NULL => p.pos \in 1..3
  <2>1. \A n \in 0..3 : \A i \in 2..n : i \in 1..3
    OBVIOUS
  <2> QED BY <1>3, <1>5, <2>1
<1>7. ASSUME NEW q \in PlacesAfter(p, x) PROVE q \in Place /\ q.pos >= 2
  <2>1. CASE q = p
    BY <2>1
  <2>2. CASE q = [p EXCEPT !.pos = @ + 1]
    BY <1>1, <2>2 DEF Place
  <2>3. CASE x # NULL /\ q = [p EXCEPT !.pos = Len(buffer[p.conn]) + 1]
    BY <1>1, <1>3, <1>5, <2>3 DEF Place
  <2> QED BY <1>7, <2>1, <2>2, <2>3 DEF PlacesAfter
<1> QED BY <1>5, <1>6, <1>7

\* strtok(NULL) stores a place behind a command, whichever buffer it is in.
LEMMA NextTokenShape ==
    ASSUME Shape, NEW c \in Conns, NextToken(c)
    PROVE  Shape'
<1> DEFINE p == thread[c].seen
           args == thread[c].args
           r == peer[c].req
           t(x) == [thread[c] EXCEPT !.pc = IF Len(args) + 2 = Len(r) THEN "open" ELSE "args",
                                     !.seen = NULL, !.args = Append(args, x)]
<1>1. /\ thread[c] \in Thread /\ peer[c] \in Peer /\ r \in Request /\ alive
      /\ thread[c].pc = "token" /\ p \in Place /\ p.pos >= 2
      /\ args \in Seq(Argument) /\ Len(args) + 2 <= Len(r) /\ buffer[c] = r
  BY DEF Shape, TypeOK, NextToken, ThreadShape, Thread
<1>2. PICK x \in TokensAt(p) :
        /\ olds' \in PlacesAfter(p, x)
        /\ cut' = [cut EXCEPT ![p.conn] = IF x = NULL THEN @ ELSE @ \cup {p.pos}]
        /\ thread' = [thread EXCEPT
             ![c].pc = IF Len(args) + 2 = Len(r) THEN "open" ELSE "args",
             ![c].seen = NULL, ![c].args = Append(args, x)]
  BY DEF NextToken
<1>3. x \in Argument /\ (x # NULL => p.pos \in 1..3) /\ olds' \in Place /\ olds'.pos >= 2
  BY <1>1, <1>2, TokenTypes
<1>4. olds' # NULL
  BY <1>3, PlaceNotNull
<1>5. Append(args, x) \in Seq(Argument) /\ Len(Append(args, x)) = Len(args) + 1
  BY <1>1, <1>3
<1>6. /\ t(x) \in Thread /\ t(x).args = Append(args, x)
      /\ t(x).pc = IF Len(args) + 2 = Len(r) THEN "open" ELSE "args"
  BY <1>1, <1>5 DEF Thread
<1>7. /\ UNCHANGED <<alive, buffer>> /\ thread' = [thread EXCEPT ![c] = t(x)]
      /\ peer' = [peer EXCEPT ![c] = peer[c]]
  BY <1>2 DEF NextToken, Shape, TypeOK
<1>8. cut' \in [Conns -> SUBSET (1..3)]
  BY <1>1, <1>2, <1>3 DEF Shape, TypeOK, Place
<1>9. thread'[c] = t(x) /\ peer'[c] = peer[c]
  BY <1>7 DEF Shape, TypeOK
<1>10. Len(args) \in Nat /\ Len(r) \in Nat
  BY <1>1, RequestTokens
<1>11. ThreadShape(c)'
  <2>1. /\ peer'[c].req = r /\ buffer'[c] = r /\ thread'[c].args = Append(args, x)
        /\ Len(thread'[c].args) = Len(args) + 1
    BY <1>1, <1>5, <1>6, <1>7, <1>9
  <2>2. CASE Len(args) + 2 = Len(r)
    <3>1. thread'[c].pc = "open"
      BY <1>6, <1>9, <2>2
    <3> QED BY <1>1, <1>10, <2>1, <2>2, <3>1 DEF ThreadShape
  <2>3. CASE Len(args) + 2 # Len(r)
    <3>1. thread'[c].pc = "args"
      BY <1>6, <1>9, <2>3
    <3> QED BY <1>1, <1>4, <1>10, <2>1, <2>3, <3>1 DEF ThreadShape
  <2> QED BY <2>2, <2>3
<1> QED BY <1>1, <1>3, <1>4, <1>6, <1>7, <1>8, <1>11, OneConnection DEF Shape, TypeOK

\* The process dies: all threads end.
LEMMA DieShape ==
    ASSUME Shape, Die
    PROVE  Shape'
<1>1. /\ \A c \in Conns : thread'[c] = NoThread
      /\ thread' \in [Conns -> Thread] /\ alive' = FALSE
      /\ UNCHANGED <<olds, buffer, cut, peer>>
  BY NoThreadType DEF Die
<1>2. \A c \in Conns : thread'[c].pc = "closed"
  BY <1>1 DEF NoThread
<1>3. TypeOK'
  BY <1>1 DEF Shape, TypeOK
<1> QED BY <1>1, <1>2, <1>3 DEF Shape, ThreadShape

\* What a request names is a file or a checkpoint that exists.
LEMMA NamedType ==
    ASSUME NEW cmd \in Commands, NEW args, Named(cmd, args) # NULL
    PROVE  /\ Named(cmd, args) \in Commands \X Files
           /\ Length[cmd][Named(cmd, args)[2]] \in Nat
BY ConnectionAssumption DEF Named

\* fopen keeps the shape, or the process dies.
LEMMA OpenFileShape ==
    ASSUME Shape, NEW c \in Conns, OpenFile(c)
    PROVE  Shape'
<1> DEFINE cmd == buffer[c][1]
           what == Named(cmd, thread[c].args)
           len == IF what = NULL THEN ErrorLen ELSE Length[cmd][what[2]]
           lost == IF what = NULL /\ cmd = "SS_READ" THEN 1 ELSE 0
           t == [thread[c] EXCEPT !.pc = "reply", !.what = what, !.len = len,
                                  !.total = len + TokenLen - lost]
<1>1. CASE Die
  BY <1>1, DieShape
<1>2. CASE ~Die
  <2>1. /\ UNCHANGED <<alive, olds, buffer, cut>> /\ thread' = [thread EXCEPT ![c] = t]
        /\ peer' = [peer EXCEPT ![c] = peer[c]] /\ thread[c].pc = "open"
    BY <1>2 DEF OpenFile, Shape, TypeOK
  <2>2. /\ thread[c] \in Thread /\ peer[c] \in Peer /\ peer[c].req \in Request /\ alive
        /\ buffer[c] = peer[c].req
    BY <2>1 DEF Shape, TypeOK, ThreadShape
  <2>3. cmd \in Commands
    BY <2>2, RequestTokens
  <2>4. what \in (Commands \X Files) \cup {NULL} /\ len \in Nat
    BY <2>3, NamedType, Lengths
  <2>5. len + TokenLen - lost \in Nat
    BY <2>4, Lengths
  <2>6. t \in Thread /\ t.pc = "reply"
    BY <2>2, <2>4, <2>5 DEF Thread
  <2>7. thread'[c] = t /\ peer'[c] = peer[c]
    BY <2>1 DEF Shape, TypeOK
  <2>8. ThreadShape(c)'
    BY <2>2, <2>6, <2>7 DEF ThreadShape
  <2> QED BY <2>1, <2>2, <2>6, <2>8, OneConnection DEF Shape, TypeOK
<1> QED BY <1>1, <1>2

\* The smaller of two numbers.
LEMMA MinOfTwo ==
    ASSUME NEW a \in Nat, NEW b \in Nat
    PROVE  Min({a, b}) \in Nat /\ Min({a, b}) <= a /\ Min({a, b}) <= b
BY DEF Min

\* A block of a reply does not go beyond its end.
LEMMA BlockType ==
    ASSUME NEW t \in Thread
    PROVE  Block(t) \in Nat
<1>1. t.sent \in Nat /\ t.len \in Nat /\ t.total \in Nat
  BY DEF Thread
<1>2. t.sent + BlockLen \in Nat
  BY <1>1, Lengths
<1> QED BY <1>1, <1>2, MinOfTwo DEF Block

\* Sending keeps the shape, or the process dies.
LEMMA ReplyShape ==
    ASSUME Shape, NEW c \in Conns, SendBlock(c) \/ ThreadEnds(c)
    PROVE  Shape'
<1> DEFINE t == [thread[c] EXCEPT !.sent = Block(thread[c])]
<1>1. thread[c] \in Thread /\ peer[c] \in Peer /\ peer[c].req \in Request /\ alive
      /\ thread[c].pc = "reply"
  BY DEF Shape, TypeOK, SendBlock, ThreadEnds, ThreadShape
<1>2. CASE Die
  BY <1>2, DieShape
<1>3. CASE SendBlock(c) /\ ~Die
  <2>1. /\ UNCHANGED <<alive, olds, buffer, cut>> /\ thread' = [thread EXCEPT ![c] = t]
        /\ peer' = [peer EXCEPT ![c] = peer[c]]
    BY <1>3 DEF SendBlock, Shape, TypeOK
  <2>2. t \in Thread /\ t.pc = "reply"
    BY <1>1, BlockType DEF Thread
  <2>3. thread'[c] = t /\ peer'[c] = peer[c]
    BY <2>1 DEF Shape, TypeOK
  <2>4. ThreadShape(c)'
    BY <1>1, <2>2, <2>3 DEF ThreadShape
  <2> QED BY <1>1, <2>1, <2>2, <2>4, OneConnection DEF Shape, TypeOK
<1>4. CASE ThreadEnds(c)
  <2>1. /\ UNCHANGED <<alive, olds, buffer, cut>> /\ thread' = [thread EXCEPT ![c] = NoThread]
        /\ peer' = [peer EXCEPT ![c] = peer[c]]
    BY <1>4 DEF ThreadEnds, Shape, TypeOK
  <2>2. NoThread.pc = "closed"
    BY DEF NoThread
  <2>3. thread'[c] = NoThread
    BY <2>1 DEF Shape, TypeOK
  <2>4. ThreadShape(c)'
    BY <2>2, <2>3 DEF ThreadShape
  <2> QED BY <1>1, <2>1, <2>4, NoThreadType, OneConnection DEF Shape, TypeOK
<1> QED BY <1>2, <1>3, <1>4

-----------------------------------------------------------------------------
(* The readers *)

\* A step that changes nothing but what the reader of c knows of its reply.
LEMMA ReaderShape ==
    ASSUME Shape, NEW c \in Conns, NEW p \in Peer, p.req = peer[c].req,
           c \in NsConns => p.rcvd <= BufLen,
           peer' = [peer EXCEPT ![c] = p], UNCHANGED <<alive, olds, buffer, cut, thread>>
    PROVE  Shape'
<1>1. /\ thread' = [thread EXCEPT ![c] = thread[c]] /\ thread[c] \in Thread
      /\ thread[c].pc # "closed" => alive
  BY DEF Shape, TypeOK
<1>2. peer'[c] = p /\ thread'[c] = thread[c] /\ buffer'[c] = buffer[c]
  BY DEF Shape, TypeOK
<1>3. ThreadShape(c)'
  BY <1>2 DEF Shape, ThreadShape
<1> QED BY <1>1, <1>3, OneConnection DEF Shape, TypeOK

\* A reader keeps the shape, above all the bound of its buffer.
LEMMA ReadShape ==
    ASSUME Shape, NEW c \in Conns, Read(c) \/ ClientKilled(c)
    PROVE  Shape'
<1>1. /\ thread[c] \in Thread /\ peer[c] \in Peer /\ peer[c].rcvd \in Nat
      /\ c \in NsConns => peer[c].rcvd <= BufLen
  BY DEF Shape, TypeOK, Peer
<1>2. ASSUME NEW q \in {"failed", "gone"}, UNCHANGED <<alive, olds, buffer, cut, thread>>,
             peer' = [peer EXCEPT ![c].pc = q, ![c].rcvd = 0]
      PROVE  Shape'
  <2> DEFINE p == [peer[c] EXCEPT !.pc = q, !.rcvd = 0]
  <2>1. p \in Peer /\ p.req = peer[c].req /\ p.rcvd = 0
    BY <1>1 DEF Peer
  <2>2. p.rcvd <= BufLen
    BY <2>1, Lengths
  <2>3. peer' = [peer EXCEPT ![c] = p]
    BY <1>2
  <2> QED BY <1>2, <2>1, <2>2, <2>3, ReaderShape
<1>3. ASSUME NEW n \in 1..(BufLen + ChunkLen), Receive(c, n) PROVE Shape'
  <2> DEFINE p == [peer[c] EXCEPT !.pc = "done", !.rcvd = 0, !.got = thread[c].what]
             q == [peer[c] EXCEPT !.rcvd = peer[c].rcvd + n]
  <2>1. n \in Nat
    BY Lengths
  <2>2. p \in Peer /\ p.req = peer[c].req /\ p.rcvd = 0
    BY <1>1 DEF Peer, Thread
  <2>3. q \in Peer /\ q.req = peer[c].req /\ q.rcvd = peer[c].rcvd + n
    BY <1>1, <2>1 DEF Peer
  <2>4. p.rcvd <= BufLen
    BY <2>2, Lengths
  <2>5. c \in NsConns => q.rcvd <= BufLen
    BY <1>1, <1>3, <2>1, <2>3, Lengths DEF Receive
  <2>6. \/ peer' = [peer EXCEPT ![c] = p]
        \/ peer' = [peer EXCEPT ![c] = q]
    <3>1. peer' = [peer EXCEPT ![c] = IF SeesToken(c, n) THEN p ELSE q]
      BY <1>3 DEF Receive
    <3> QED BY <3>1
  <2>7. UNCHANGED <<alive, olds, buffer, cut, thread>>
    BY <1>3 DEF Receive
  <2> QED BY <2>2, <2>3, <2>4, <2>5, <2>6, <2>7, ReaderShape
<1> QED BY <1>2, <1>3 DEF Read, BufferFull, ConnectionLost, ClientKilled

-----------------------------------------------------------------------------
(* Bounds and types *)

\* The shape holds when the server has started.
LEMMA InitShape == Init => Shape
<1> SUFFICES ASSUME Init PROVE Shape
  OBVIOUS
<1>1. Idle \in Peer /\ Idle.rcvd = 0
  BY DEF Idle, Peer
<1>2. NoThread.pc = "closed"
  BY DEF NoThread
<1>3. \A c \in NsConns : peer[c].rcvd <= BufLen
  BY <1>1, Lengths, ConnectionAssumption DEF Init
<1>4. TypeOK
  BY <1>1, <1>3, NoThreadType DEF Init, TypeOK
<1> QED BY <1>2, <1>4 DEF Init, Shape, ThreadShape

\* Every step keeps the shape.
LEMMA NextShape == Shape /\ [Next]_vars => Shape'
<1> SUFFICES ASSUME Shape, [Next]_vars PROVE Shape'
  OBVIOUS
<1>1. CASE UNCHANGED vars
  BY <1>1 DEF vars, Shape, TypeOK, ThreadShape
<1>2. CASE Restart
  BY <1>2 DEF Restart, Shape, TypeOK, ThreadShape
<1>3. CASE Next /\ ~Restart
  BY <1>3, ConnectShape, ParseCommandShape, LoadPlaceShape, NextTokenShape, OpenFileShape,
     ReplyShape, ReadShape DEF Next, Serve
<1> QED BY <1>1, <1>2, <1>3

\* The shape holds throughout.
THEOREM ShapeHolds == Spec => []Shape
BY InitShape, NextShape, PTL DEF Spec

\* connect_and_send_to_ss never writes past the end of its buffer, strtok's place
\* is always in the buffer of some connection, and no thread asks for more
\* tokens than its request has: for any number of connections, and however
\* threads overlap in strtok.
THEOREM TypeCorrect == Spec => []TypeOK
<1>1. Shape => TypeOK
  BY DEF Shape
<1> QED BY <1>1, ShapeHolds, PTL

-----------------------------------------------------------------------------
(* Requests that are parsed one at a time *)

\* A step that leaves connection d, strtok's place and the terminators in d's
\* buffer alone.
LEMMA OtherConnection ==
    ASSUME NEW d \in Conns, Parsed(d), thread'[d] = thread[d], peer'[d] = peer[d],
           olds' = olds \/ thread[d].pc # "args", cut'[d] = cut[d]
    PROVE  Parsed(d)'
BY DEF Parsed

\* While d parses, no other thread does.
LEMMA AloneInParsing ==
    ASSUME Undisturbed, NEW c \in Conns, NEW d \in Conns, c # d,
           thread[c].pc \in {"args", "token"}
    PROVE  thread[d].pc \notin {"args", "token"}
BY DEF Undisturbed, Parsing

\* A request names the same thing, whether its arguments are read from the
\* request or have been copied one by one.
LEMMA SameName ==
    ASSUME NEW r \in Request, NEW args \in Seq(Argument), Len(args) + 1 = Len(r),
           \A i \in 1..Len(args) : args[i] = r[i + 1]
    PROVE  /\ Named(r[1], args) = Named(r[1], Tail(r))
           /\ args[1] # NULL
<1>1. args[1] = r[2]
  <2>1. 1 \in 1..Len(args)
    BY RequestTokens
  <2> QED BY <2>1
<1>2. r[1] = "SS_READ_CHECKPOINT" => args[2] = r[3]
  <2>1. r[1] = "SS_READ_CHECKPOINT" => 2 \in 1..Len(args)
    BY RequestTokens
  <2> QED BY <2>1
<1>3. Tail(r)[1] = r[2] /\ (r[1] = "SS_READ_CHECKPOINT" => Tail(r)[2] = r[3])
  BY RequestTokens
<1>4. r[2] # NULL
  BY RequestTokens, ConnectionAssumption
<1> QED BY <1>1, <1>2, <1>3, <1>4 DEF Named

\* A new connection has a reply of its own to wait for.
LEMMA ConnectServed ==
    ASSUME Shape, Served, NEW c \in Conns, NEW r \in RequestsOf(c), Connect(c, r)
    PROVE  Served'
<1>1. /\ thread'[c] = [NoThread EXCEPT !.pc = "recv"]
      /\ peer'[c] = [Idle EXCEPT !.pc = "waiting", !.req = r]
      /\ \A d \in Conns : d # c => thread'[d] = thread[d] /\ peer'[d] = peer[d]
      /\ UNCHANGED <<alive, olds, cut>>
  BY DEF Connect, Shape, TypeOK
<1>2. thread'[c].pc = "recv" /\ peer'[c].pc = "waiting"
  BY <1>1 DEF NoThread, Idle
<1>3. Parsed(c)'
  BY <1>2 DEF Parsed
<1>4. \A d \in Conns : d # c => Parsed(d)'
  BY <1>1, OtherConnection DEF Served
<1> QED BY <1>1, <1>3, <1>4 DEF Served

\* The one thread that parses sets strtok to its own buffer.
LEMMA ParseCommandServed ==
    ASSUME Shape, Served, Undisturbed', NEW c \in Conns, ParseCommand(c)
    PROVE  Served'
<1>1. /\ thread[c] \in Thread /\ thread[c].args = <<>> /\ thread[c].pc = "recv"
  BY DEF Shape, TypeOK, ParseCommand, ThreadShape
<1>2. /\ thread'[c] = [thread[c] EXCEPT !.pc = "args"]
      /\ \A d \in Conns : d # c => thread'[d] = thread[d] /\ cut'[d] = cut[d]
      /\ cut'[c] = {1} /\ olds' = [conn |-> c, pos |-> 2]
      /\ UNCHANGED <<alive, peer>>
  BY DEF ParseCommand, Shape, TypeOK
<1>3. thread'[c].pc = "args" /\ thread'[c].args = <<>> /\ Len(thread'[c].args) = 0
  BY <1>1, <1>2 DEF Thread
<1>4. Parsed(c)'
  <2>1. peer[c].pc = "done" => peer[c].got = Named(peer[c].req[1], Tail(peer[c].req))
    BY DEF Served, Parsed
  <2> QED BY <1>2, <1>3, <2>1 DEF Parsed
<1>5. ASSUME NEW d \in Conns, d # c PROVE Parsed(d)'
  <2>1. thread'[d].pc \notin {"args", "token"}
    BY <1>3, <1>5, AloneInParsing DEF Undisturbed, Parsing
  <2> QED BY <1>2, <1>5, <2>1, OtherConnection DEF Served
<1> QED BY <1>2, <1>4, <1>5 DEF Served

\* It finds the place where it left it,
LEMMA LoadPlaceServed ==
    ASSUME Shape, Served, NEW c \in Conns, LoadPlace(c)
    PROVE  Served'
<1>1. thread[c] \in Thread /\ thread[c].pc = "args"
  BY DEF Shape, TypeOK, LoadPlace
<1>2. /\ thread'[c] = [thread[c] EXCEPT !.pc = "token", !.seen = olds]
      /\ \A d \in Conns : d # c => thread'[d] = thread[d]
      /\ UNCHANGED <<alive, olds, buffer, cut, peer>>
  BY DEF LoadPlace, Shape, TypeOK
<1>3. thread'[c].pc = "token" /\ thread'[c].seen = olds /\ thread'[c].args = thread[c].args
  BY <1>1, <1>2 DEF Thread
<1>4. Parsed(c)'
  <2>1. /\ olds = [conn |-> c, pos |-> Len(thread[c].args) + 2]
        /\ \A i \in cut[c] : i < Len(thread[c].args) + 2
        /\ \A i \in 1..Len(thread[c].args) : thread[c].args[i] = peer[c].req[i + 1]
    BY <1>1 DEF Served, Parsed
  <2>2. peer[c].pc = "done" => peer[c].got = Named(peer[c].req[1], Tail(peer[c].req))
    BY DEF Served, Parsed
  <2>3. thread'[c].args = thread[c].args /\ cut' = cut /\ peer' = peer
    BY <1>2, <1>3
  <2> QED BY <1>3, <2>1, <2>2, <2>3 DEF Parsed
<1>5. \A d \in Conns : d # c => Parsed(d)'
  BY <1>2, OtherConnection DEF Served
<1> QED BY <1>2, <1>4, <1>5 DEF Served

\* and the token is the next one of its own request.
LEMMA NextTokenServed ==
    ASSUME Shape, Served, Undisturbed, NEW c \in Conns, NextToken(c)
    PROVE  Served'
<1> DEFINE p == thread[c].seen
           args == thread[c].args
           r == peer[c].req
           k == Len(args) + 2
<1>1. /\ thread[c] \in Thread /\ peer[c] \in Peer /\ r \in Request
      /\ thread[c].pc = "token" /\ p \in Place
      /\ args \in Seq(Argument) /\ k <= Len(r) /\ buffer[c] = r
  BY DEF Shape, TypeOK, NextToken, ThreadShape, Thread
<1>2. /\ p = [conn |-> c, pos |-> k] /\ p.conn = c /\ p.pos = k
      /\ \A i \in cut[c] : i < k
      /\ \A i \in 1..Len(args) : args[i] = r[i + 1]
  BY <1>1 DEF Served, Parsed
<1>3. Len(args) \in Nat /\ k \in Nat /\ Len(r) \in Nat
  BY <1>1, RequestTokens
<1>4. TokensAt(p) = {r[k]}
  BY <1>1, <1>2, <1>3 DEF TokensAt
<1>5. r[k] # NULL /\ r[k] \in Argument
  BY <1>1, <1>3, RequestTokens
<1>6. k \notin cut[c]
  BY <1>2, <1>3
<1>7. PlacesAfter(p, r[k]) = {[conn |-> c, pos |-> k + 1]}
  BY <1>2, <1>5, <1>6 DEF PlacesAfter
<1>8. /\ olds' = [conn |-> c, pos |-> k + 1]
      /\ cut' = [cut EXCEPT ![c] = @ \cup {k}]
      /\ thread' = [thread EXCEPT ![c].pc = IF k = Len(r) THEN "open" ELSE "args",
                                  ![c].seen = NULL, ![c].args = Append(args, r[k])]
      /\ UNCHANGED <<alive, buffer, peer>>
  BY <1>2, <1>4, <1>5, <1>7 DEF NextToken
<1>9. /\ thread'[c] = [thread[c] EXCEPT !.pc = IF k = Len(r) THEN "open" ELSE "args",
                                        !.seen = NULL, !.args = Append(args, r[k])]
      /\ cut'[c] = cut[c] \cup {k}
      /\ \A d \in Conns : d # c => thread'[d] = thread[d] /\ cut'[d] = cut[d]
  BY <1>8 DEF Shape, TypeOK
<1>10. thread'[c].pc \in {"open", "args"} /\ thread'[c].args = Append(args, r[k])
  BY <1>1, <1>9 DEF Thread
<1>11. /\ Len(thread'[c].args) = Len(args) + 1
       /\ \A i \in 1..(Len(args) + 1) : Append(args, r[k])[i] = r[i + 1]
  <2>1. Append(args, r[k])[Len(args) + 1] = r[k] /\ Len(args) + 1 + 1 = k
    BY <1>1, <1>3, <1>5
  <2>2. \A i \in 1..Len(args) : Append(args, r[k])[i] = args[i]
    BY <1>1, <1>5
  <2>3. \A i \in 1..(Len(args) + 1) : i \in 1..Len(args) \/ i = Len(args) + 1
    BY <1>3
  <2>4. Len(Append(args, r[k])) = Len(args) + 1
    BY <1>1, <1>5
  <2>5. ASSUME NEW i \in 1..(Len(args) + 1) PROVE Append(args, r[k])[i] = r[i + 1]
    <3> HIDE DEF args, r, k
    <3>1. CASE i \in 1..Len(args)
      BY <1>2, <2>2, <3>1
    <3>2. CASE i = Len(args) + 1
      BY <2>1, <3>2
    <3> QED BY <2>3, <3>1, <3>2
  <2> QED BY <1>10, <2>4, <2>5
<1>12. \A i \in cut'[c] : i < k + 1
  <2>1. cut[c] \subseteq Nat
    BY DEF Shape, TypeOK
  <2> QED BY <1>2, <1>3, <1>9, <2>1
<1>13. Parsed(c)'
  <2>1. peer[c].pc = "done" => peer[c].got = Named(peer[c].req[1], Tail(peer[c].req))
    BY DEF Served, Parsed
  <2>2. Len(thread'[c].args) + 2 = k + 1
    BY <1>3, <1>11
  <2> QED BY <1>8, <1>10, <1>11, <1>12, <2>1, <2>2 DEF Parsed
<1>14. ASSUME NEW d \in Conns, d # c PROVE Parsed(d)'
  <2>1. thread[d].pc \notin {"args", "token"}
    BY <1>1, <1>14, AloneInParsing
  <2> QED BY <1>8, <1>9, <1>14, <2>1, OtherConnection DEF Served
<1> QED BY <1>8, <1>13, <1>14 DEF Served

\* The file opened is the one the request names, and never NULL.
LEMMA OpenFileServed ==
    ASSUME Shape, Served, NEW c \in Conns, OpenFile(c)
    PROVE  Served'
<1> DEFINE r == peer[c].req
           args == thread[c].args
           what == Named(r[1], args)
           len == IF what = NULL THEN ErrorLen ELSE Length[r[1]][what[2]]
           lost == IF what = NULL /\ r[1] = "SS_READ" THEN 1 ELSE 0
           t == [thread[c] EXCEPT !.pc = "reply", !.what = what, !.len = len,
                                  !.total = len + TokenLen - lost]
<1>1. /\ thread[c] \in Thread /\ r \in Request /\ thread[c].pc = "open"
      /\ args \in Seq(Argument) /\ Len(args) + 1 = Len(r) /\ buffer[c] = r
      /\ \A i \in 1..Len(args) : args[i] = r[i + 1]
  BY DEF Shape, TypeOK, OpenFile, ThreadShape, Thread, Served, Parsed
<1>2. what = Named(r[1], Tail(r)) /\ args[1] # NULL
  BY <1>1, SameName
<1>3. thread' = [thread EXCEPT ![c] = t] /\ UNCHANGED <<alive, olds, buffer, cut, peer>>
  BY <1>1, <1>2 DEF OpenFile
<1>4. thread'[c] = t /\ \A d \in Conns : d # c => thread'[d] = thread[d]
  BY <1>3 DEF Shape, TypeOK
<1>5. t.pc = "reply" /\ t.what = what
  BY <1>1 DEF Thread
<1>6. Parsed(c)'
  BY <1>2, <1>3, <1>4, <1>5 DEF Served, Parsed
<1>7. \A d \in Conns : d # c => Parsed(d)'
  BY <1>3, <1>4, OtherConnection DEF Served
<1> QED BY <1>3, <1>6, <1>7 DEF Served

\* The reply is not given up.
LEMMA ReplyServed ==
    ASSUME Shape, Served, Undisturbed, NEW c \in Conns, SendBlock(c) \/ ThreadEnds(c)
    PROVE  Served'
<1>1. thread[c] \in Thread /\ thread[c].pc = "reply"
  BY DEF Shape, TypeOK, SendBlock, ThreadEnds
<1>2. /\ UNCHANGED <<alive, olds, cut, peer>>
      /\ \/ thread' = [thread EXCEPT ![c].sent = Block(thread[c])]
         \/ thread' = [thread EXCEPT ![c] = NoThread]
  BY DEF Undisturbed, SendBlock, ThreadEnds
<1>3. /\ thread'[c] \in {[thread[c] EXCEPT !.sent = Block(thread[c])], NoThread}
      /\ \A d \in Conns : d # c => thread'[d] = thread[d]
  BY <1>2 DEF Shape, TypeOK
<1>4. \/ thread'[c].pc = "reply" /\ thread'[c].what = thread[c].what
      \/ thread'[c].pc = "closed"
  BY <1>1, <1>3 DEF NoThread, Thread
<1>5. Parsed(c)'
  BY <1>1, <1>2, <1>4 DEF Served, Parsed
<1>6. \A d \in Conns : d # c => Parsed(d)'
  BY <1>2, <1>3, OtherConnection DEF Served
<1> QED BY <1>2, <1>5, <1>6 DEF Served

\* A reader that finds the end token has the reply of its request.
LEMMA ReadServed ==
    ASSUME Shape, Served, NEW c \in Conns, Read(c) \/ ClientKilled(c)
    PROVE  Served'
<1>1. UNCHANGED <<alive, olds, cut, thread>> /\ peer[c] \in Peer
  BY DEF Read, Receive, BufferFull, ConnectionLost, ClientKilled, Shape, TypeOK
<1>2. /\ \A d \in Conns : d # c => peer'[d] = peer[d]
      /\ peer'[c].req = peer[c].req
      /\ peer'[c].pc = "done" => thread[c].pc = "reply" /\ peer'[c].got = thread[c].what
  <2>1. ASSUME NEW q \in {"failed", "gone"}, peer' = [peer EXCEPT ![c].pc = q, ![c].rcvd = 0]
        PROVE  /\ \A d \in Conns : d # c => peer'[d] = peer[d]
               /\ peer'[c].req = peer[c].req /\ peer'[c].pc # "done"
    BY <1>1, <2>1 DEF Shape, TypeOK, Peer
  <2>2. ASSUME NEW n \in 1..(BufLen + ChunkLen), Receive(c, n)
        PROVE  /\ \A d \in Conns : d # c => peer'[d] = peer[d]
               /\ peer'[c].req = peer[c].req
               /\ peer'[c].pc = "done" =>
                    thread[c].pc = "reply" /\ peer'[c].got = thread[c].what
    <3> DEFINE a == [peer[c] EXCEPT !.pc = "done", !.rcvd = 0, !.got = thread[c].what]
               b == [peer[c] EXCEPT !.rcvd = peer[c].rcvd + n]
    <3>1. peer' = [peer EXCEPT ![c] = IF SeesToken(c, n) THEN a ELSE b]
          /\ thread[c].pc = "reply" /\ peer[c].pc = "waiting"
      BY <2>2 DEF Receive
    <3>2. peer'[c] \in {a, b} /\ \A d \in Conns : d # c => peer'[d] = peer[d]
      BY <3>1 DEF Shape, TypeOK
    <3>3. a.req = peer[c].req /\ a.got = thread[c].what
          /\ b.req = peer[c].req /\ b.pc = "waiting"
      BY <1>1, <3>1 DEF Peer
    <3> QED BY <3>1, <3>2, <3>3
  <2> QED BY <2>1, <2>2 DEF Read, BufferFull, ConnectionLost, ClientKilled
<1>3. Parsed(c)'
  BY <1>1, <1>2 DEF Served, Parsed
<1>4. \A d \in Conns : d # c => Parsed(d)'
  BY <1>1, <1>2, OtherConnection DEF Served
<1> QED BY <1>1, <1>3, <1>4 DEF Served

\* Nothing is asked for at the start.
LEMMA InitServed == Init => Served
<1> SUFFICES ASSUME Init PROVE Served
  OBVIOUS
<1>1. \A c \in Conns : thread[c].pc = "closed" /\ peer[c].pc = "idle"
  BY DEF Init, NoThread, Idle
<1> QED BY <1>1 DEF Init, Served, Parsed

\* Every undisturbed step serves the requests.
LEMMA NextServed ==
    ASSUME Shape, Served, Undisturbed, Undisturbed', [Next]_vars
    PROVE  Served'
<1>1. CASE UNCHANGED vars
  BY <1>1 DEF vars, Served, Parsed
<1>2. ~Restart
  BY DEF Restart, Served
<1>3. CASE Next
  BY <1>2, <1>3, ConnectServed, ParseCommandServed, LoadPlaceServed, NextTokenServed,
     OpenFileServed, ReplyServed, ReadServed DEF Next, Serve
<1> QED BY <1>1, <1>3

\* When requests are parsed one at a time and readers stay until their reply has
\* been sent, the storage server never dies, and whoever finishes reading has the
\* file or checkpoint of its own request, or the error for one that does not
\* exist; for any number of connections, names, lengths and buffer sizes.
THEOREM SerialRequestsServed == Spec => SerialRequestsAreServed
<1> DEFINE RightReplies ==
             /\ alive
             /\ \A c \in Conns : peer[c].pc = "done" =>
                  peer[c].got = Named(peer[c].req[1], Tail(peer[c].req))
<1>1. Served => RightReplies
  BY DEF Served, Parsed
<1>2. Spec /\ []Undisturbed => []RightReplies
  <2>1. Shape /\ Served /\ Undisturbed /\ Undisturbed' /\ [Next]_vars => Served'
    BY NextServed
  <2> HIDE DEF RightReplies
  <2> QED BY <1>1, <2>1, InitServed, ShapeHolds, PTL DEF Spec
<1> QED BY <1>2 DEF SerialRequestsAreServed

=============================================================================
