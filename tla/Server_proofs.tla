---------------------------- MODULE Server_proofs ----------------------------
(***************************************************************************)
(* Proofs about Server, for any number of connections and descriptors.     *)
(***************************************************************************)
EXTENDS Server, TLAPS

-----------------------------------------------------------------------------
\* A client that had no thread gets one, with a number that was free.
LEMMA AcceptEffect ==
  ASSUME Accept
  PROVE  \E c \in Clients, d \in Numbers :
           /\ hp[c] = "none" /\ table[d] = Free /\ table' = [table EXCEPT ![d] = c]
           /\ hp' = [hp EXCEPT ![c] = "request"] /\ sock' = [sock EXCEPT ![c] = d]
  BY DEF Accept, Opens, First

\* A call has failed and its socket is closed: the number no longer refers to a
\* connection, and whoever else has it can tell who closed it.
LEMMA ThrowForgets ==
  ASSUME TypeOK, NoConnectionForgotten, NEW c \in Clients, NEW from, Throw(c, from), sock' = sock
  PROVE  NoConnectionForgotten'
<1> USE ConnectionsAssumption, DescriptorsAssumption DEF TypeOK, NoConnectionForgotten, Live,
        Numbers, Clients, Free, Listener, Memory, Deaf
<1>1. table' = [table EXCEPT ![sock[c]] = Free] /\ hp' = [hp EXCEPT ![c] = "caught"]
  BY DEF Throw, Step, Close
<1>2. SUFFICES ASSUME NEW n \in Numbers, table'[n] \in Clients
               PROVE  sock'[table'[n]] = n /\ (Live(table[n])' \/ hp'[table'[n]] = "left")
  BY <1>1, <1>2
<1>3. table'[n] = table[n]
  BY <1>1, <1>2
<1>4. QED
  BY <1>1, <1>2, <1>3

\* The same for those who share the number: one who closed it is caught.
LEMMA ThrowOwns ==
  ASSUME TypeOK, OwnConnection, NEW c \in Clients, NEW from, Throw(c, from),
         from # "none", from # "gone", from # "caught", from # "left", sock' = sock
  PROVE  OwnConnection'
<1> USE ConnectionsAssumption, DescriptorsAssumption DEF TypeOK, OwnConnection, Live, At,
        Numbers, Clients, Free, Listener, Memory, Deaf
<1>1. /\ table' = [table EXCEPT ![sock[c]] = Free]
      /\ hp[c] = from /\ hp' = [hp EXCEPT ![c] = "caught"]
  BY DEF Throw, Step, Close
<1>2. SUFFICES ASSUME NEW b \in Clients, Live(b)', At(b)' # b
               PROVE  \E e \in Clients : hp'[e] \in {"caught", "gone"} /\ sock'[e] = sock'[b]
  BY <1>2
<1>3. CASE sock[b] = sock[c]
  BY <1>1, <1>3
<1>4. CASE sock[b] # sock[c]
  <2>1. b # c /\ Live(b) /\ At(b) # b
    BY <1>1, <1>2, <1>4
  <2>2. PICK e \in Clients : hp[e] \in {"caught", "gone"} /\ sock[e] = sock[b]
    BY <2>1
  <2>3. QED
    BY <1>1, <2>2
<1>5. QED
  BY <1>3, <1>4

\* A thread that goes on, or stays where it is, with its socket.
GoesOn(c) ==
  /\ hp[c] \notin {"none", "caught", "gone", "left"}
  /\ \/ hp' = hp
     \/ \E to \in {"name", "attach", "read", "early", "initial", "loop", "left"} :
          hp' = [hp EXCEPT ![c] = to]
  /\ UNCHANGED <<table, sock>>

\* No connection is lost with it.
LEMMA GoesOnForgets ==
  ASSUME TypeOK, NoConnectionForgotten, NEW c \in Clients, GoesOn(c)
  PROVE  NoConnectionForgotten'
<1> USE DEF TypeOK, NoConnectionForgotten, Live, GoesOn
<1>1. SUFFICES ASSUME NEW n \in Numbers, table'[n] \in Clients
               PROVE  sock'[table'[n]] = n /\ (Live(table[n])' \/ hp'[table'[n]] = "left")
  BY <1>1
<1>2. table'[n] = table[n] /\ sock[table[n]] = n /\ hp[table[n]] \notin {"none", "gone"}
  BY <1>1
<1>3. hp'[table[n]] \notin {"none", "gone"}
  BY <1>1, <1>2
<1>4. QED
  BY <1>2, <1>3

\* Nor does it come to share one.
LEMMA GoesOnOwns ==
  ASSUME TypeOK, OwnConnection, NEW c \in Clients, GoesOn(c)
  PROVE  OwnConnection'
<1> USE DEF TypeOK, OwnConnection, Live, At, GoesOn
<1>1. SUFFICES ASSUME NEW b \in Clients, Live(b)', At(b)' # b
               PROVE  \E e \in Clients : hp'[e] \in {"caught", "gone"} /\ sock'[e] = sock'[b]
  BY <1>1
<1>2. Live(b) /\ At(b) # b
  BY <1>1
<1>3. PICK e \in Clients : hp[e] \in {"caught", "gone"} /\ sock[e] = sock[b]
  BY <1>2
<1>4. hp'[e] = hp[e] /\ sock' = sock
  BY <1>3
<1>5. QED
  BY <1>3, <1>4

\* Most steps of a thread are of that kind.
LEMMA MostGoOn ==
  ASSUME NEW c \in Clients
  PROVE  /\ ReceiveRequest(c) \/ Read(c) \/ TestEarly(c) => GoesOn(c)
         /\ ReceiveName(c) => GoesOn(c) \/ Throw(c, "name")
         /\ SendInitial(c) => GoesOn(c) \/ Throw(c, "initial")
         /\ Transfer(c) => GoesOn(c) \/ Throw(c, "loop")
<1>1. ReceiveRequest(c) \/ Read(c) \/ TestEarly(c) => GoesOn(c)
  BY DEF ReceiveRequest, Read, TestEarly, Step, GoesOn
<1>2. ReceiveName(c) => GoesOn(c) \/ Throw(c, "name")
  BY DEF ReceiveName, Step, GoesOn
<1>3. SendInitial(c) => GoesOn(c) \/ Throw(c, "initial")
  BY DEF SendInitial, Step, GoesOn
<1>4. Transfer(c) => GoesOn(c) \/ Throw(c, "loop")
  BY DEF Transfer, Step, GoesOn
<1>5. QED
  BY <1>1, <1>2, <1>3, <1>4

-----------------------------------------------------------------------------
\* The parts of the inductive invariant, each kept by every step.

\* Types: a socket that was accepted has the number of a descriptor.
LEMMA TypesKept ==
  ASSUME TypeOK, Next
  PROVE  TypeOK'
<1> USE ConnectionsAssumption, DescriptorsAssumption
     DEF process, handler, outside, TypeOK, Numbers, Clients, Free, Listener, Memory, Deaf
<1>1. CASE Bind
  BY <1>1 DEF Bind, Opens
<1>2. CASE Test
  BY <1>2 DEF Test
<1>3. CASE Accept
  BY <1>3 DEF Accept, Opens
<1>4. CASE AcceptFails
  BY <1>4 DEF AcceptFails
<1>5. CASE Stop
  BY <1>5 DEF Stop
<1>6. CASE Exit
  BY <1>6 DEF Exit
<1>7. ASSUME NEW c \in Clients, ReceiveRequest(c) PROVE TypeOK'
  BY <1>7 DEF ReceiveRequest, Step
<1>8. ASSUME NEW c \in Clients, ReceiveName(c) PROVE TypeOK'
  BY <1>8 DEF ReceiveName, Step, Throw, Close
<1>9. ASSUME NEW c \in Clients, Attach(c) PROVE TypeOK'
  BY <1>9 DEF Attach, Opens, Step
<1>10. ASSUME NEW c \in Clients, SendInitial(c) PROVE TypeOK'
  BY <1>10 DEF SendInitial, Step, Throw, Close
<1>11. ASSUME NEW c \in Clients, Transfer(c) PROVE TypeOK'
  BY <1>11 DEF Transfer, Step, Throw, Close
<1>12. ASSUME NEW c \in Clients, Delete(c) PROVE TypeOK'
  BY <1>12 DEF Delete, Step, Close
<1>13. ASSUME NEW c \in Clients, ClientConnects(c) PROVE TypeOK'
  BY <1>13 DEF ClientConnects, PeerMoves
<1>14. ASSUME NEW c \in Clients, ClientShuts(c) PROVE TypeOK'
  BY <1>14 DEF ClientShuts, PeerMoves
<1>15. ASSUME NEW c \in Clients, ClientResets(c) PROVE TypeOK'
  BY <1>15 DEF ClientResets, PeerMoves
<1>16. CASE MemoryMoves
  BY <1>16 DEF MemoryMoves
<1>17. ASSUME NEW c \in Clients, Read(c) PROVE TypeOK'
  BY <1>17 DEF Read, Step
<1>18. ASSUME NEW c \in Clients, TestEarly(c) PROVE TypeOK'
  BY <1>18 DEF TestEarly, Step
<1>19. QED
  BY <1>1, <1>2, <1>3, <1>4, <1>5, <1>6, <1>7, <1>8, <1>9, <1>10, <1>11,
     <1>12, <1>13, <1>14, <1>15, <1>16, <1>17, <1>18 DEF Next, AcceptThread, Handler

\* Descriptors that refer to a connection: only Accept makes one, for a client that had
\* none, and only Delete leaves a thread without, having closed the number.
LEMMA ForgottenKept ==
  ASSUME TypeOK, NoConnectionForgotten, Next
  PROVE  NoConnectionForgotten'
<1> USE ConnectionsAssumption, DescriptorsAssumption
     DEF process, handler, outside, TypeOK, NoConnectionForgotten, Live,
         Numbers, Clients, Free, Listener, Memory, Deaf
<1>1. CASE Bind
  <2>1. hp' = hp /\ sock' = sock
    BY <1>1 DEF Bind
  <2>2. ASSUME NEW n \in Numbers, table'[n] \in Clients PROVE table'[n] = table[n]
    <3>1. CASE UNCHANGED table
      BY <3>1
    <3>2. CASE \E d \in Numbers, what \in {Listener, Deaf} :
                 table' = [table EXCEPT ![d] = what]
      BY <2>2, <3>2
    <3>3. QED
      BY <1>1, <3>1, <3>2 DEF Bind, Opens
  <2>3. QED
    BY <2>1, <2>2
<1>2. CASE Test
  BY <1>2 DEF Test
<1>3. CASE Accept
  <2>1. PICK c \in Clients, d \in Numbers :
          /\ hp[c] = "none" /\ table[d] = Free /\ table' = [table EXCEPT ![d] = c]
          /\ hp' = [hp EXCEPT ![c] = "request"] /\ sock' = [sock EXCEPT ![c] = d]
    BY <1>3, AcceptEffect
  <2>2. SUFFICES ASSUME NEW n \in Numbers, table'[n] \in Clients
                 PROVE  sock'[table'[n]] = n /\ hp'[table'[n]] \notin {"none", "gone"}
    BY <2>2
  <2>3. CASE n = d
    BY <2>1, <2>3
  <2>4. CASE n # d
    <3>1. table'[n] = table[n]
      BY <2>1, <2>4
    <3>2. sock[table[n]] = n /\ hp[table[n]] \notin {"none", "gone"}
      BY <2>2, <3>1
    <3>3. table[n] # c
      BY <2>1, <3>2
    <3>4. QED
      BY <2>1, <2>2, <3>1, <3>2, <3>3
  <2>5. QED
    BY <2>3, <2>4
<1>4. CASE AcceptFails
  BY <1>4 DEF AcceptFails
<1>5. CASE Stop
  BY <1>5 DEF Stop
<1>6. CASE Exit
  BY <1>6 DEF Exit
<1>7. ASSUME NEW c \in Clients, ReceiveRequest(c) PROVE NoConnectionForgotten'
  BY <1>7, GoesOnForgets, MostGoOn
<1>8. ASSUME NEW c \in Clients, ReceiveName(c) PROVE NoConnectionForgotten'
  <2>1. CASE Throw(c, "name")
    BY <1>8, <2>1, ThrowForgets DEF ReceiveName
  <2>2. CASE GoesOn(c)
    BY <2>2, GoesOnForgets
  <2>3. QED
    BY <1>8, <2>1, <2>2, MostGoOn
<1>9. ASSUME NEW c \in Clients, Attach(c) PROVE NoConnectionForgotten'
  BY <1>9 DEF Attach, Opens, Step
<1>10. ASSUME NEW c \in Clients, SendInitial(c) PROVE NoConnectionForgotten'
  <2>1. CASE Throw(c, "initial")
    BY <1>10, <2>1, ThrowForgets DEF SendInitial
  <2>2. CASE GoesOn(c)
    BY <2>2, GoesOnForgets
  <2>3. QED
    BY <1>10, <2>1, <2>2, MostGoOn
<1>11. ASSUME NEW c \in Clients, Transfer(c) PROVE NoConnectionForgotten'
  <2>1. CASE Throw(c, "loop")
    BY <1>11, <2>1, ThrowForgets DEF Transfer
  <2>2. CASE GoesOn(c)
    BY <2>2, GoesOnForgets
  <2>3. QED
    BY <1>11, <2>1, <2>2, MostGoOn
<1>12. ASSUME NEW c \in Clients, Delete(c) PROVE NoConnectionForgotten'
  BY <1>12 DEF Delete, Step, Close
<1>13. ASSUME NEW c \in Clients, ClientConnects(c) PROVE NoConnectionForgotten'
  BY <1>13 DEF ClientConnects, PeerMoves
<1>14. ASSUME NEW c \in Clients, ClientShuts(c) PROVE NoConnectionForgotten'
  BY <1>14 DEF ClientShuts, PeerMoves
<1>15. ASSUME NEW c \in Clients, ClientResets(c) PROVE NoConnectionForgotten'
  BY <1>15 DEF ClientResets, PeerMoves
<1>16. CASE MemoryMoves
  BY <1>16 DEF MemoryMoves
<1>17. ASSUME NEW c \in Clients, Read(c) PROVE NoConnectionForgotten'
  BY <1>17, GoesOnForgets, MostGoOn
<1>18. ASSUME NEW c \in Clients, TestEarly(c) PROVE NoConnectionForgotten'
  BY <1>18, GoesOnForgets, MostGoOn
<1>19. QED
  BY <1>1, <1>2, <1>3, <1>4, <1>5, <1>6, <1>7, <1>8, <1>9, <1>10, <1>11,
     <1>12, <1>13, <1>14, <1>15, <1>16, <1>17, <1>18 DEF Next, AcceptThread, Handler

\* Numbers that have changed hands: whoever closes one is caught by then, or gone, and
\* a number that is opened was free, and so changed hands before.
LEMMA OwnKept ==
  ASSUME TypeOK, OwnConnection, Next
  PROVE  OwnConnection'
<1> USE ConnectionsAssumption, DescriptorsAssumption
     DEF process, handler, outside, TypeOK, OwnConnection, Live, At,
         Numbers, Clients, Free, Listener, Memory, Deaf
<1>1. CASE Bind
  BY <1>1 DEF Bind, Opens
<1>2. CASE Test
  BY <1>2 DEF Test
<1>3. CASE Accept
  <2>1. PICK c \in Clients, d \in Numbers :
          /\ hp[c] = "none" /\ table[d] = Free /\ table' = [table EXCEPT ![d] = c]
          /\ hp' = [hp EXCEPT ![c] = "request"] /\ sock' = [sock EXCEPT ![c] = d]
    BY <1>3, AcceptEffect
  <2>2. SUFFICES ASSUME NEW b \in Clients, Live(b)', At(b)' # b
                 PROVE  \E e \in Clients : hp'[e] \in {"caught", "gone"} /\ sock'[e] = sock'[b]
    BY <2>2
  <2>3. b # c
    BY <2>1, <2>2
  <2>4. Live(b) /\ At(b) # b
    BY <2>1, <2>2, <2>3
  <2>5. PICK e \in Clients : hp[e] \in {"caught", "gone"} /\ sock[e] = sock[b]
    BY <2>4
  <2>6. e # c
    BY <2>1, <2>5
  <2>7. QED
    BY <2>1, <2>3, <2>5, <2>6
<1>4. CASE AcceptFails
  BY <1>4 DEF AcceptFails
<1>5. CASE Stop
  BY <1>5 DEF Stop
<1>6. CASE Exit
  BY <1>6 DEF Exit
<1>7. ASSUME NEW c \in Clients, ReceiveRequest(c) PROVE OwnConnection'
  BY <1>7, GoesOnOwns, MostGoOn
<1>8. ASSUME NEW c \in Clients, ReceiveName(c) PROVE OwnConnection'
  <2>1. CASE Throw(c, "name")
    BY <1>8, <2>1, ThrowOwns DEF ReceiveName
  <2>2. CASE GoesOn(c)
    BY <2>2, GoesOnOwns
  <2>3. QED
    BY <1>8, <2>1, <2>2, MostGoOn
<1>9. ASSUME NEW c \in Clients, Attach(c) PROVE OwnConnection'
  <2>1. PICK d \in Numbers : table[d] = Free /\ table' = [table EXCEPT ![d] = Memory]
    BY <1>9 DEF Attach, Opens
  <2>2. /\ hp' = hp \/ (hp[c] = "attach" /\ hp' = [hp EXCEPT ![c] = "read"])
        /\ sock' = sock
    BY <1>9 DEF Attach, Step
  <2>3. SUFFICES ASSUME NEW b \in Clients, Live(b)', At(b)' # b
                 PROVE  \E e \in Clients : hp'[e] \in {"caught", "gone"} /\ sock'[e] = sock'[b]
    BY <2>3
  <2>4. Live(b) /\ At(b) # b
    BY <2>1, <2>2, <2>3
  <2>5. PICK e \in Clients : hp[e] \in {"caught", "gone"} /\ sock[e] = sock[b]
    BY <2>4
  <2>6. QED
    BY <2>2, <2>5
<1>10. ASSUME NEW c \in Clients, SendInitial(c) PROVE OwnConnection'
  <2>1. CASE Throw(c, "initial")
    BY <1>10, <2>1, ThrowOwns DEF SendInitial
  <2>2. CASE GoesOn(c)
    BY <2>2, GoesOnOwns
  <2>3. QED
    BY <1>10, <2>1, <2>2, MostGoOn
<1>11. ASSUME NEW c \in Clients, Transfer(c) PROVE OwnConnection'
  <2>1. CASE Throw(c, "loop")
    BY <1>11, <2>1, ThrowOwns DEF Transfer
  <2>2. CASE GoesOn(c)
    BY <2>2, GoesOnOwns
  <2>3. QED
    BY <1>11, <2>1, <2>2, MostGoOn
<1>12. ASSUME NEW c \in Clients, Delete(c) PROVE OwnConnection'
  BY <1>12 DEF Delete, Step, Close
<1>13. ASSUME NEW c \in Clients, ClientConnects(c) PROVE OwnConnection'
  BY <1>13 DEF ClientConnects, PeerMoves
<1>14. ASSUME NEW c \in Clients, ClientShuts(c) PROVE OwnConnection'
  BY <1>14 DEF ClientShuts, PeerMoves
<1>15. ASSUME NEW c \in Clients, ClientResets(c) PROVE OwnConnection'
  BY <1>15 DEF ClientResets, PeerMoves
<1>16. CASE MemoryMoves
  BY <1>16 DEF MemoryMoves
<1>17. ASSUME NEW c \in Clients, Read(c) PROVE OwnConnection'
  BY <1>17, GoesOnOwns, MostGoOn
<1>18. ASSUME NEW c \in Clients, TestEarly(c) PROVE OwnConnection'
  BY <1>18, GoesOnOwns, MostGoOn
<1>19. QED
  BY <1>1, <1>2, <1>3, <1>4, <1>5, <1>6, <1>7, <1>8, <1>9, <1>10, <1>11,
     <1>12, <1>13, <1>14, <1>15, <1>16, <1>17, <1>18 DEF Next, AcceptThread, Handler

-----------------------------------------------------------------------------
\* The three together hold at first and are kept by every step, stuttering included.
LEMMA Invariant == Spec => [](TypeOK /\ NoConnectionForgotten /\ OwnConnection)
<1>1. Init => TypeOK /\ NoConnectionForgotten /\ OwnConnection
  <2> USE ConnectionsAssumption, DescriptorsAssumption DEF Init
  <2>1. Init => TypeOK
    <3>1. ASSUME Init
          PROVE  /\ table \in [Numbers -> Clients \cup {Free, Listener, Memory, Deaf}]
                 /\ peer \in [Clients -> {"away", "waiting", "shut", "reset"}]
                 /\ hp \in [Clients -> {"none", "request", "name", "attach", "read",
                                        "early", "initial", "loop", "caught", "gone", "left"}]
      BY <3>1
    <3>2. ASSUME Init PROVE sock \in [Clients -> 0 .. Descriptors]
      BY <3>2
    <3>3. QED
      BY <3>1, <3>2 DEF TypeOK
  <2>2. Init => NoConnectionForgotten
    BY DEF NoConnectionForgotten, Clients, Free
  <2>3. Init => OwnConnection
    BY DEF OwnConnection, Live
  <2>4. QED
    BY <2>1, <2>2, <2>3
<1>2. TypeOK /\ NoConnectionForgotten /\ OwnConnection /\ [Next]_vars
        => (TypeOK /\ NoConnectionForgotten /\ OwnConnection)'
  <2>1. CASE Next
    BY <2>1, TypesKept, ForgottenKept, OwnKept
  <2>2. CASE UNCHANGED vars
    BY <2>2 DEF vars, process, handler, outside, TypeOK, NoConnectionForgotten, OwnConnection, Live, At
  <2>3. QED
    BY <2>1, <2>2
<1>3. QED
  BY <1>1, <1>2, PTL DEF Spec

\* Every variable keeps its type, and no accepted socket has number 0.
THEOREM TypeCorrect == Spec => []TypeOK
  BY Invariant, PTL

\* Every descriptor of a connection belongs to the thread that serves it or to one that
\* left it open, for any number of clients and through all second closes.
THEOREM NothingForgotten == Spec => []NoConnectionForgotten
  BY Invariant, PTL

\* A thread whose number is not its client's any more shares it with a thread whose
\* call failed: no other step takes a connection from its thread.
THEOREM OnlyFailuresCross == Spec => []OwnConnection
  BY Invariant, PTL

-----------------------------------------------------------------------------
\* The end of the whole server.

\* A client has shut its end or is lost; before that no thread has had a call that failed.
WentAway == \E c \in Clients : peer[c] \in {"shut", "reset"}

Blamed == (\E e \in Clients : hp[e] \in {"caught", "gone"}) => WentAway

\* A call fails, or raises a signal, only when a client went away: the thread's own, or the
\* one that has its number now, or one whose thread closed that number.
LEMMA TroubleMeansAway ==
  ASSUME TypeOK, OwnConnection, Blamed, NEW c \in Clients, Live(c), Fails(c) \/ Kills(c)
  PROVE  WentAway
<1>1. CASE At(c) \in Clients
  BY <1>1 DEF Fails, Kills, Met, WentAway
<1>2. CASE At(c) \notin Clients
  <2>1. PICK e \in Clients : hp[e] \in {"caught", "gone"} /\ sock[e] = sock[c]
    BY <1>2 DEF OwnConnection
  <2>2. QED
    BY <2>1 DEF Blamed
<1>3. QED
  BY <1>1, <1>2

\* A client that went away stays so.
LEMMA AwayStays ==
  ASSUME TypeOK, Next, WentAway
  PROVE  WentAway'
<1> PICK a \in Clients : peer[a] \in {"shut", "reset"}
  BY DEF WentAway
<1>1. CASE UNCHANGED peer
  BY <1>1 DEF WentAway
<1>2. ASSUME NEW c \in Clients, ClientConnects(c) \/ ClientShuts(c) \/ ClientResets(c)
      PROVE  WentAway'
  BY <1>2 DEF ClientConnects, ClientShuts, ClientResets, PeerMoves, WentAway, TypeOK
<1>3. AcceptThread \/ Stop \/ Exit \/ MemoryMoves => UNCHANGED peer
  BY DEF AcceptThread, Bind, Test, Accept, AcceptFails, Stop, Exit, MemoryMoves, outside
<1>4. ASSUME NEW c \in Clients, Handler(c) PROVE UNCHANGED peer
  BY <1>4 DEF Handler, ReceiveRequest, ReceiveName, Attach, Read, TestEarly, SendInitial,
     Transfer, Delete, outside
<1>5. QED
  BY <1>1, <1>2, <1>3, <1>4 DEF Next

\* A thread is caught only by a call of its own that failed.
LEMMA BlamedKept ==
  ASSUME TypeOK, OwnConnection, Blamed, Next
  PROVE  Blamed'
<1>1. SUFFICES ASSUME ~WentAway, NEW e \in Clients, hp'[e] \in {"caught", "gone"}
               PROVE  WentAway'
  BY AwayStays DEF Blamed
<1>2. hp \in [Clients -> {"none", "request", "name", "attach", "read", "early",
                          "initial", "loop", "caught", "gone", "left"}]
  BY DEF TypeOK
<1>3. \A b \in Clients : hp[b] \notin {"caught", "gone"}
  BY <1>1 DEF Blamed
<1>4. CASE UNCHANGED hp
  BY <1>1, <1>3, <1>4
<1>5. CASE Accept
  BY <1>1, <1>2, <1>3, <1>5, AcceptEffect
<1>6. Bind \/ Test \/ AcceptFails \/ Stop \/ Exit \/ MemoryMoves => UNCHANGED hp
  BY DEF Bind, Test, AcceptFails, Stop, Exit, MemoryMoves, handler
<1>7. ASSUME NEW c \in Clients, ClientConnects(c) \/ ClientShuts(c) \/ ClientResets(c)
      PROVE  UNCHANGED hp
  BY <1>7 DEF ClientConnects, ClientShuts, ClientResets, PeerMoves, handler
<1>8. ASSUME NEW c \in Clients, Handler(c) PROVE WentAway'
  <2>1. CASE \E from \in {"name", "initial", "loop"} : Throw(c, from) /\ Fails(c)
    <3>1. Live(c)
      BY <2>1 DEF Throw, Step, Live
    <3>2. WentAway
      BY <2>1, <3>1, TroubleMeansAway
    <3>3. QED
      BY <1>1, <3>2
  <2>2. CASE /\ \A from \in {"name", "initial", "loop"} : ~(Throw(c, from) /\ Fails(c))
             /\ ~Delete(c)
    <3>1. UNCHANGED hp \/ \E to \in {"name", "attach", "read", "early", "initial", "loop", "left"} :
                            hp' = [hp EXCEPT ![c] = to]
      BY <1>8, <2>2 DEF Handler, ReceiveRequest, ReceiveName, Attach, Read, TestEarly,
         SendInitial, Transfer, Step
    <3>2. QED
      BY <1>1, <1>2, <1>3, <3>1
  <2>3. CASE Delete(c)
    BY <1>3, <2>3 DEF Delete, Step
  <2>4. QED
    BY <2>1, <2>2, <2>3
<1>9. QED
  BY <1>4, <1>5, <1>6, <1>7, <1>8 DEF Next, AcceptThread

\* Somebody came too early for the memory.
TooEarly == \E c \in Clients : Hasty(c)

\* The process is killed by accept's failure, by a thread's call that met no client, or
\* by memory that is not ready.
LEMMA SurvivalKept ==
  ASSUME TypeOK, OwnConnection, Blamed, Next
  PROVE  SurvivesUnless'
<1>1. SUFFICES ASSUME main' = "killed"
               PROVE  (acc = "accept" /\ (Full \/ NoSocket))' \/ WentAway' \/ TooEarly'
  BY DEF SurvivesUnless, WentAway, TooEarly
<1>2. main = "join"
  BY DEF Next
<1>3. CASE AcceptFails
  BY <1>3 DEF AcceptFails, Full, NoSocket
<1>4. Bind \/ Test \/ Accept \/ Stop \/ Exit \/ MemoryMoves => main' # "killed"
  BY <1>2 DEF Bind, Test, Accept, Stop, Exit, MemoryMoves, process
<1>5. ASSUME NEW c \in Clients, ClientConnects(c) \/ ClientShuts(c) \/ ClientResets(c)
      PROVE  main' # "killed"
  BY <1>2, <1>5 DEF ClientConnects, ClientShuts, ClientResets, PeerMoves, process
<1>6. ASSUME NEW c \in Clients, Attach(c) \/ Read(c) \/ TestEarly(c) PROVE TooEarly'
  <2>1. hp' = hp /\ memory' = memory /\ Hasty(c)
    BY <1>1, <1>2, <1>6 DEF Attach, Read, TestEarly, Hasty, outside
  <2>2. QED
    BY <2>1 DEF TooEarly, Hasty
<1>7. ASSUME NEW c \in Clients, Handler(c), ~Attach(c), ~Read(c), ~TestEarly(c)
      PROVE  WentAway'
  <2>1. Live(c) /\ (Fails(c) \/ Kills(c))
    BY <1>1, <1>2, <1>7 DEF Handler, ReceiveRequest, ReceiveName, SendInitial, Transfer,
       Delete, Step, process, Live
  <2>2. WentAway
    BY <2>1, TroubleMeansAway
  <2>3. QED
    BY <2>2, AwayStays
<1>8. QED
  BY <1>1, <1>3, <1>4, <1>5, <1>6, <1>7 DEF Next, AcceptThread

\* The whole server dies only when a client went away, or asked for a stream that was
\* still being made, or accept has no socket or descriptor left: no order of clients,
\* threads, writers and second closes adds a cause to these.
THEOREM Survival == Spec => []SurvivesUnless
<1>1. Init => Blamed /\ SurvivesUnless
  BY DEF Init, Blamed, SurvivesUnless
<1>2. TypeOK /\ OwnConnection /\ Blamed /\ SurvivesUnless /\ [Next]_vars
        => (Blamed /\ SurvivesUnless)'
  <2>1. CASE Next
    BY <2>1, BlamedKept, SurvivalKept
  <2>2. CASE UNCHANGED vars
    BY <2>2 DEF vars, process, handler, outside, Blamed, WentAway, SurvivesUnless, Full,
       NoSocket, Hasty
  <2>3. QED
    BY <2>1, <2>2
<1>3. QED
  BY <1>1, <1>2, Invariant, PTL DEF Spec

=============================================================================
