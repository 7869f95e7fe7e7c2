-------------------------------- MODULE Server --------------------------------
(***************************************************************************)
(* The server's process: its accept thread, the thread per connection, the *)
(* descriptors their TcpSockets own, and the daemon's main (network/       *)
(* server.cpp, network/tcpsocket.cpp, daemons/server.cpp).                 *)
(*                                                                         *)
(* What travels over a connection is in Proxy.  Here a receive or send     *)
(* succeeds, fails, raises SIGPIPE, or keeps its thread for ever.  A       *)
(* TcpSocket is a number; what the number refers to is up to the table of  *)
(* descriptors at the moment of the call.                                  *)
(*                                                                         *)
(* The clients ask for one stream.  Its memory and the writers in it are   *)
(* other processes: of what they do, in Attach and DataBuffer, only what   *)
(* new Reader can fall over is here.                                       *)
(***************************************************************************)
EXTENDS Integers

CONSTANTS Connections, \* bound: how many clients connect
          Descriptors  \* how many the process may have open

ASSUME ConnectionsAssumption == Connections \in Nat
ASSUME DescriptorsAssumption == Descriptors \in Nat

\* The clients, numbered as they connect, which is how the backlog keeps them.
Clients == 1 .. Connections

\* What else a descriptor may refer to.
Free     == 0
Listener == -1
Memory   == -2
Deaf     == -3  \* a listening socket on a port that nobody knows

VARIABLES table,      \* table[d]: what descriptor d refers to
          terminate,  \* m_terminate
          main,       \* the process
          acc,        \* own_thread
          peer,       \* where each client stands
          hp,         \* handleSocket for each client that was accepted
          sock,       \* m_sock of its TcpSocket
          memory      \* the stream's memory in /dev/shm

process == <<terminate, main, acc>>
handler == <<hp, sock>>
outside == <<peer, memory>>
vars    == <<table, process, outside, handler>>

Numbers == 1 .. Descriptors

Init ==
  /\ table = [d \in Numbers |-> Free]
  /\ terminate = FALSE /\ main = "join" /\ acc = "bind"
  /\ peer = [c \in Clients |-> "away"]
  /\ hp   = [c \in Clients |-> "none"]
  /\ sock = [c \in Clients |-> 0]
  /\ memory = "absent"

\* A new descriptor d is the lowest number that is free.
Opens(d, what) ==
  /\ table[d] = Free /\ \A e \in 1 .. d - 1 : table[e] # Free
  /\ table' = [table EXCEPT ![d] = what]

Full == \A d \in Numbers : table[d] # Free

\* A faulty variant of Close: m_sock is set to 0 before ::close.
CloseNothing(d) == UNCHANGED table

\* TcpSocket::close: whatever the number refers to; m_sock keeps it.
Close(d) == table' = [table EXCEPT ![d] = Free]

-----------------------------------------------------------------------------
\* own_thread and main.

\* init, bind and listen: their errors are printed and no more.  If bind fails, listen
\* gives the socket another port; if there is no socket, accept gets -1 to work on.
Bind ==
  /\ acc = "bind"
  /\ acc' = "test"
  /\ \/ \E d \in Numbers, what \in {Listener, Deaf} : Opens(d, what)
     \/ UNCHANGED table
  /\ UNCHANGED <<terminate, main, outside, handler>>

Listening == \E d \in Numbers : table[d] = Listener
NoSocket  == \A d \in Numbers : table[d] \notin {Listener, Deaf}

\* A faulty variant of Test: m_terminate is not looked at.
TestForever ==
  /\ acc = "test" /\ acc' = "accept"
  /\ UNCHANGED <<table, terminate, main, outside, handler>>

\* The loop's test; the listening socket is closed when own_thread returns.
Test ==
  /\ acc = "test"
  /\ acc'   = IF terminate THEN "ended" ELSE "accept"
  /\ table' = [d \in Numbers |-> IF terminate /\ table[d] \in {Listener, Deaf} THEN Free
                                  ELSE table[d]]
  /\ UNCHANGED <<terminate, main, outside, handler>>

\* The client at the head of the backlog.
First(c) == peer[c] # "away" /\ hp[c] = "none" /\ \A b \in 1 .. c - 1 : hp[b] # "none"

\* A faulty variant of Accept: the TcpSocket lives on dispatchSocket's stack.
AcceptOnStack ==
  /\ acc = "accept" /\ Listening
  /\ \E c \in Clients, d \in Numbers :
       /\ First(c)
       /\ table[d] = Free /\ UNCHANGED table
       /\ hp'   = [hp EXCEPT ![c] = "request"]
       /\ sock' = [sock EXCEPT ![c] = d]
  /\ acc' = "test"
  /\ UNCHANGED <<terminate, main, outside>>

\* A faulty variant of Accept: handleSocket is called, not started.
AcceptInline ==
  /\ acc = "accept" /\ Listening
  /\ \A b \in Clients : hp[b] \in {"none", "gone", "left"}
  /\ \E c \in Clients, d \in Numbers :
       /\ First(c)
       /\ Opens(d, c)
       /\ hp'   = [hp EXCEPT ![c] = "request"]
       /\ sock' = [sock EXCEPT ![c] = d]
  /\ acc' = "test"
  /\ UNCHANGED <<terminate, main, outside>>

\* accept gives the connection to a TcpSocket and a thread of its own.
Accept ==
  /\ acc = "accept" /\ Listening
  /\ \E c \in Clients, d \in Numbers :
       /\ First(c)
       /\ Opens(d, c)
       /\ hp'   = [hp EXCEPT ![c] = "request"]
       /\ sock' = [sock EXCEPT ![c] = d]
  /\ acc' = "test"
  /\ UNCHANGED <<terminate, main, outside>>

\* accept fails: a thread is started all the same, its first receive throws, and
\* nothing catches that.
AcceptFails ==
  /\ acc = "accept" /\ (Full \/ NoSocket)
  /\ main' = "killed"
  /\ UNCHANGED <<table, terminate, acc, outside, handler>>

\* SIGINT: Server::stop, which wakes nobody.
Stop ==
  /\ ~terminate /\ terminate' = TRUE
  /\ UNCHANGED <<table, main, acc, outside, handler>>

\* join returns and main does; the threads of the connections go with the process.
Exit ==
  /\ acc = "ended"
  /\ main' = "exited"
  /\ UNCHANGED <<table, terminate, acc, outside, handler>>

-----------------------------------------------------------------------------
\* handleSocket.  What its socket refers to now, which client that is:

At(c) == table[sock[c]]

\* What a call on it meets: a number that is no connection is refused like one that
\* was reset.
Met(c) == IF At(c) \in Clients THEN peer[At(c)] ELSE "reset"

\* recv and send do what they are asked, or return -1; send to a client that has shut
\* its end may raise SIGPIPE.  (Its request may have come before that; a recv that
\* finds nothing more never returns.)
Works(c) == Met(c) \in {"waiting", "shut"}
Fails(c) == Met(c) = "reset"
Kills(c) == Met(c) = "shut"

Step(c, from, to) == hp[c] = from /\ hp' = [hp EXCEPT ![c] = to]

\* throwError: the descriptor is closed, then the exception is on its way.
Throw(c, from) == Step(c, from, "caught") /\ Close(sock[c])

\* version and options are received outside any try.
ReceiveRequest(c) ==
  /\ Step(c, "request", "name")
  /\ \/ Works(c) /\ UNCHANGED main
     \/ Fails(c) /\ main' = "killed"
  /\ UNCHANGED <<table, terminate, acc, outside, sock>>

ReceiveName(c) ==
  /\ \/ Step(c, "name", "attach") /\ Works(c) /\ UNCHANGED table
     \/ Throw(c, "name") /\ Fails(c)
  /\ UNCHANGED <<process, outside, sock>>

\* new Reader: the memory is opened, and its descriptor never closed.  While there is
\* none, or no descriptor left, DataBuffer tries again every 100 ms; mapWrite of memory
\* that its creator has not yet given a size ends the process.
Attach(c) ==
  /\ hp[c] = "attach" /\ memory # "absent"
  /\ \E d \in Numbers : Opens(d, Memory)
  /\ IF memory = "unsized" THEN main' = "killed" /\ UNCHANGED hp
                           ELSE Step(c, "attach", "read") /\ UNCHANGED main
  /\ UNCHANGED <<terminate, acc, outside, sock>>

\* getReadAccess, and the first header of what it returns.  In memory without a header
\* there is no element 0: element.info is NULL.
Read(c) ==
  /\ \/ Step(c, "read", "initial") /\ memory = "written" /\ UNCHANGED main
     \/ Step(c, "read", "early")   /\ memory = "blank"   /\ UNCHANGED main
     \/ hp[c] = "read" /\ memory = "unpublished" /\ main' = "killed" /\ UNCHANGED hp
  /\ UNCHANGED <<table, terminate, acc, outside, sock>>

\* The element it has a unit of was never finished.  It is given back while it is
\* current, and returned when it is not: with no images in it getHeader( 0 ) is NULL,
\* unless a writer that died had come to store them.
TestEarly(c) ==
  /\ \/ Step(c, "early", "read")    /\ memory = "blank"   /\ UNCHANGED main
     \/ Step(c, "early", "initial") /\ memory = "written" /\ UNCHANGED main
     \/ hp[c] = "early" /\ memory = "written" /\ main' = "killed" /\ UNCHANGED hp
  /\ UNCHANGED <<table, terminate, acc, outside, sock>>

SendInitial(c) ==
  /\ \/ Step(c, "initial", "loop") /\ Works(c) /\ UNCHANGED <<table, main>>
     \/ Step(c, "initial", "loop") /\ Kills(c) /\ main' = "killed" /\ UNCHANGED table
     \/ Throw(c, "initial") /\ Fails(c) /\ UNCHANGED main
  /\ UNCHANGED <<terminate, acc, outside, sock>>

\* The loop: a frame is sent and the next one waited for, or, once the server is
\* stopped, handleSocket returns with its socket open.
Transfer(c) ==
  /\ hp[c] = "loop"
  /\ \/ terminate  /\ Step(c, "loop", "left") /\ UNCHANGED <<table, main>>
     \/ ~terminate /\ Kills(c) /\ main' = "killed" /\ UNCHANGED <<table, hp>>
     \/ ~terminate /\ Fails(c) /\ Throw(c, "loop") /\ UNCHANGED main
  /\ UNCHANGED <<terminate, acc, outside, sock>>

\* delete a_socket, in the handler of the exception: the destructor closes the
\* number again.
Delete(c) ==
  /\ Step(c, "caught", "gone")
  /\ Close(sock[c])
  /\ UNCHANGED <<process, outside, sock>>

-----------------------------------------------------------------------------
\* The clients: one connects; it shuts its end in good order, or the connection is
\* reset (it dies with data unread, or the network fails).
PeerMoves(c, from, to) ==
  /\ peer[c] \in from
  /\ peer' = [peer EXCEPT ![c] = to]
  /\ UNCHANGED <<table, process, handler, memory>>

ClientConnects(c) ==
  /\ Listening /\ \A b \in 1 .. c - 1 : peer[b] # "away"
  /\ PeerMoves(c, {"away"}, "waiting")
ClientShuts(c)    == PeerMoves(c, {"waiting"}, "shut")
ClientResets(c)   == PeerMoves(c, {"waiting", "shut"}, "reset")

\* The memory: created, given a size, its header stored, and an element claimed by a
\* writer; ftruncate may fail, which unlinks it.  A writer that dies before it finishes
\* its first frame leaves an unwritten element current.
MemoryMoves ==
  /\ \E move \in {<<"absent", "unsized">>, <<"unsized", "absent">>,
                  <<"unsized", "unpublished">>, <<"unpublished", "blank">>,
                  <<"blank", "written">>, <<"written", "blank">>} :
       memory = move[1] /\ memory' = move[2]
  /\ UNCHANGED <<table, process, peer, handler>>

AcceptThread == Bind \/ Test \/ Accept \/ AcceptFails
Handler(c)   == \/ ReceiveRequest(c) \/ ReceiveName(c) \/ Attach(c) \/ Read(c)
                \/ TestEarly(c) \/ SendInitial(c) \/ Transfer(c) \/ Delete(c)

Next ==
  /\ main = "join"
  /\ \/ AcceptThread \/ Stop \/ Exit \/ MemoryMoves
     \/ \E c \in Clients : \/ Handler(c) \/ ClientConnects(c)
                           \/ ClientShuts(c) \/ ClientResets(c)

Spec == Init /\ [][Next]_vars

\* The accept thread goes on while accept returns, and main once join does.  Nothing is
\* asked of the threads of the connections: any of them may stay where it is for ever.
FairSpec ==
  /\ Spec
  /\ WF_vars(main = "join" /\ AcceptThread) /\ WF_vars(main = "join" /\ Exit)

-----------------------------------------------------------------------------
\* Properties.

Live(c) == hp[c] \notin {"none", "left", "gone"}

\* Every variable has its type, and no socket that was accepted has number 0, which
\* close takes for none (tcpsocket.cpp:282).
TypeOK ==
  /\ table \in [Numbers -> Clients \cup {Free, Listener, Memory, Deaf}]
  /\ terminate \in BOOLEAN
  /\ main \in {"join", "exited", "killed"}
  /\ acc  \in {"bind", "test", "accept", "ended"}
  /\ peer \in [Clients -> {"away", "waiting", "shut", "reset"}]
  /\ hp   \in [Clients -> {"none", "request", "name", "attach", "read", "early",
                           "initial", "loop", "caught", "gone", "left"}]
  /\ sock \in [Clients -> 0 .. Descriptors]
  /\ \A c \in Clients : hp[c] # "none" => sock[c] # 0
  /\ memory \in {"absent", "unsized", "unpublished", "blank", "written"}

\* A thread talks to the client it was started for.  If it does not, its number was
\* closed by a thread that had the same one and whose call had failed: throwError and
\* the destructor both close (tcpsocket.cpp:54-57, 272-286; server.cpp:116, 137, 154).
OwnConnection ==
  \A c \in Clients : Live(c) /\ At(c) # c =>
    \E e \in Clients : hp[e] \in {"caught", "gone"} /\ sock[e] = sock[c]

\* No connection is forgotten: one that is open has a thread that will close it, or
\* one that left it to the end of the process, double closes notwithstanding.
NoConnectionForgotten ==
  \A d \in Numbers : table[d] \in Clients =>
    LET c == table[d] IN sock[c] = d /\ (Live(c) \/ hp[c] = "left")

\* A thread has the memory, or an element of it, before there is anything to read.
Hasty(c) == \/ hp[c] = "attach" /\ memory = "unsized"
            \/ hp[c] = "read"   /\ memory = "unpublished"
            \/ hp[c] = "early"

\* The whole server dies only when a client went away, or asked for a stream that was
\* still being made (sharedmemory.cpp:92-95, databuffer.cpp:133, server.cpp:123), or
\* accept has no socket to work on or no descriptor left, for which one for every
\* connection there ever was is enough.
SurvivesUnless ==
  main = "killed" =>
    \/ acc = "accept" /\ (Full \/ NoSocket)
    \/ \E c \in Clients : peer[c] \in {"shut", "reset"} \/ Hasty(c)

\* A server that is told to stop ends once another client connects, which is the
\* only thing that wakes its accept thread (server.cpp:82-86).
StopEnds == (terminate /\ \E c \in Clients : peer[c] # "away" /\ hp[c] = "none")
              ~> main # "join"

\* A client that connects is given a thread, or the process ends.
ClientServed ==
  \A c \in Clients : peer[c] = "waiting" ~> (hp[c] # "none" \/ main # "join")

=============================================================================
