--------------------------------- MODULE Proxy ---------------------------------
(*****************************************************************************)
(* One stream carried over one connection: Server::handleSocket (server.cpp) *)
(* sends what its Reader is handed, Client::own_thread (client.cpp) puts it  *)
(* into a ring of its own, both through TcpSocket (tcpsocket.cpp).           *)
(*                                                                           *)
(* A connection carries units: a field, an image header, a piece of an       *)
(* image.  send and recv move any number of them, at least one.  Where       *)
(* several sends follow each other with the same treatment of an error and   *)
(* nothing in between, they are one sequence of units.                       *)
(*                                                                           *)
(* A thread in rawReceive at the end of the stream goes round its loop for   *)
(* ever, since recv returns 0 (tcpsocket.cpp:238-249): it takes no step.     *)
(*****************************************************************************)
EXTENDS Naturals, Sequences, SequencesExt

CONSTANTS Images,     \* getGroupHeader()->count
          MaxSize,    \* max_size of the served ring
          Sizes,      \* the sizes setSize gives an image
          NameLength, \* of the name of the stream
          Frames,     \* bound: the frames the server's Reader is handed
          Room        \* what a connection holds in one direction

ASSUME CountsAssumption == Images \in Nat \ {0} /\ NameLength \in Nat \ {0}
ASSUME SizesAssumption  == MaxSize \in Nat /\ Sizes \subseteq 1 .. MaxSize
ASSUME BoundsAssumption == Frames \in Nat \ {0} /\ Room \in Nat \ {0}

Ends == {"server", "client"}
Other(x) == IF x = "server" THEN "client" ELSE "server"

VARIABLES wire,    \* wire[x]: the units on their way to x
          out,     \* out[x]: what rawSend has still to send
          got,     \* got[x]: what rawReceive has received
          peer,    \* what x has learnt of the other end
          sp, cp,  \* where handleSocket and Client::own_thread stand
          held,    \* the frame the server's Reader holds
          sizes,   \* the sizes in its headers
          sending, \* the image of it that is being sent
          first,   \* the size of image 1 when the client connected
          max,     \* max_size of the client's ring
          image,   \* the image the client is receiving
          size,    \* the size in its header
          slot,    \* slot[i]: what the client's element holds of image i
          shown,   \* the frame the client published last
          stopped  \* m_terminate of each end

net    == <<wire, out, got, peer>>
server == <<sp, held, sizes, sending, first>>
client == <<cp, max, image, size, slot, shown>>
vars   == <<net, server, client, stopped>>

\* What the client publishes when its element does not hold one whole frame.
Torn == Frames + 1

Request == <<"version", "options", "length">> \o [i \in 1 .. NameLength |-> "name"]

Unit(k, i, f, s) == [kind |-> k, image |-> i, frame |-> f, size |-> s]

\* The header and the contents of an image of size s.
Image(i, f, s) ==
  [p \in 1 .. s + 1 |-> Unit(IF p = 1 THEN "header" ELSE "data", i, f, s)]

Init ==
  /\ wire = [x \in Ends |-> <<>>]
  /\ out  = [x \in Ends |-> <<>>]
  /\ got  = [x \in Ends |-> <<>>]
  /\ peer = [x \in Ends |-> "open"]
  /\ sp = "version" /\ held = 0 /\ sizes = [i \in 1 .. Images |-> MaxSize]
  /\ sending = 0 /\ first = 0
  /\ cp = "connect" /\ max = 0 /\ image = 1 /\ size = 0
  /\ slot = [i \in 1 .. Images |-> <<>>]
  /\ shown = 0
  /\ stopped = [x \in Ends |-> FALSE]

-----------------------------------------------------------------------------
\* TcpSocket.

\* One send of rawSend's loop.
RawSend(x) ==
  /\ out[x] # <<>> /\ peer[x] = "open"
  /\ \E n \in 1 .. Len(out[x]) :
       /\ Len(wire[Other(x)]) + n <= Room
       /\ wire' = [wire EXCEPT ![Other(x)] = @ \o SubSeq(out[x], 1, n)]
       /\ out'  = [out EXCEPT ![x] = SubSeq(@, n + 1, Len(@))]
  /\ UNCHANGED <<got, peer, server, client, stopped>>

\* One send to a peer that has closed its end: the data is dropped, and sooner or
\* later the answer is that nobody is there, after which a send raises SIGPIPE.
SendUnheard(x) ==
  /\ out[x] # <<>> /\ peer[x] = "fin"
  /\ out' = [out EXCEPT ![x] = Tail(@)]
  /\ \E p \in {"fin", "pipe"} : peer' = [peer EXCEPT ![x] = p]
  /\ UNCHANGED <<wire, got, server, client, stopped>>

\* How many units the receive in progress asks for.
Wanted(x) ==
  IF x = "server" THEN (IF sp = "name" THEN NameLength ELSE 1)
                  ELSE (IF cp = "data" THEN size ELSE 1)

Receiving(x) ==
  /\ IF x = "server" THEN sp \in {"version", "options", "length", "name"}
                     ELSE cp \in {"initial", "header", "data"}
  /\ out[x] = <<>>

\* One recv of rawReceive's loop.
RawReceive(x) ==
  /\ Receiving(x) /\ wire[x] # <<>>
  /\ \E n \in 1 .. Len(wire[x]) :
       /\ Len(got[x]) + n <= Wanted(x)
       /\ got'  = [got EXCEPT ![x] = @ \o SubSeq(wire[x], 1, n)]
       /\ wire' = [wire EXCEPT ![x] = SubSeq(@, n + 1, Len(@))]
  /\ UNCHANGED <<out, peer, server, client, stopped>>

\* A faulty variant of Received: rawReceive returns after one recv.
ReceivedOnce(x) == Receiving(x) /\ got[x] # <<>>

\* rawReceive has come to its end.
Received(x) == Receiving(x) /\ Len(got[x]) = Wanted(x)

\* rawSend or rawReceive returns -1.
SendFails(x)    == out[x] # <<>> /\ peer[x] = "rst"
ReceiveFails(x) == Receiving(x) /\ ~Received(x) /\ peer[x] \in {"rst", "pipe"}

\* The descriptor of x is closed, by close or at the end of its process.  What x
\* had not read makes the kernel reset the connection.
Close(x) ==
  /\ peer' = [peer EXCEPT ![Other(x)] =
                IF @ # "open" THEN @ ELSE IF wire[x] # <<>> THEN "rst" ELSE "fin"]
  /\ wire' = [wire EXCEPT ![x] = <<>>]
  /\ out'  = [out EXCEPT ![x] = <<>>]
  /\ got'  = [got EXCEPT ![x] = <<>>]

\* The connection breaks: both ends get an error, after what has reached them.
Break ==
  /\ peer' = [x \in Ends |-> IF peer[x] = "open" THEN "rst" ELSE peer[x]]
  /\ peer' # peer
  /\ UNCHANGED <<wire, out, got, server, client, stopped>>

-----------------------------------------------------------------------------
\* Server::handleSocket.

NextField == [version |-> "options", options |-> "length", length |-> "name", name |-> "attach"]

TakeField ==
  /\ Received("server")
  /\ sp'  = NextField[sp]
  /\ got' = [got EXCEPT !["server"] = <<>>]
  /\ UNCHANGED <<wire, out, peer, held, sizes, sending, first, client, stopped>>

\* A receive fails: std::terminate while version and options are read, which
\* happens outside any try, else the socket is deleted.
RequestFails ==
  /\ ReceiveFails("server")
  /\ sp' = IF sp \in {"version", "options"} THEN "killed" ELSE "gone"
  /\ Close("server")
  /\ UNCHANGED <<held, sizes, sending, first, client, stopped>>

\* A faulty variant of Attach: the client is told the size of the last image.
AttachLast ==
  /\ sp = "attach"
  /\ \E s \in [1 .. Images -> Sizes] :
       /\ held' = 1 /\ sizes' = s /\ first' = s[1]
       /\ out' = [out EXCEPT !["server"] = <<Unit("initial", 1, 1, s[Images])>>]
  /\ sp' = "initial"
  /\ UNCHANGED <<wire, got, peer, sending, client, stopped>>

\* new Reader hands out a frame; the client is told its images and the size of
\* the first (width, height and bpp of header 0).
Attach ==
  /\ sp = "attach"
  /\ \E s \in [1 .. Images -> Sizes] :
       /\ held' = 1 /\ sizes' = s /\ first' = s[1]
       /\ out' = [out EXCEPT !["server"] = <<Unit("initial", 1, 1, s[1])>>]
  /\ sp' = "initial"
  /\ UNCHANGED <<wire, got, peer, sending, client, stopped>>

\* One turn of the loop over the images.
SendImage(i, f, s) ==
  /\ sending' = i
  /\ out' = [out EXCEPT !["server"] = Image(i, f, s[i])]

\* The test of the loop on m_terminate, and the first image.  The socket is not
\* deleted when the loop ends.
ServeOrLeave(f, s) ==
  IF stopped["server"]
    THEN sp' = "left" /\ UNCHANGED <<out, sending>>
    ELSE sp' = "send" /\ SendImage(1, f, s)

Serve ==
  /\ sp = "initial" /\ out["server"] = <<>>
  /\ ServeOrLeave(held, sizes)
  /\ UNCHANGED <<wire, got, peer, held, sizes, first, client, stopped>>

NextImage ==
  /\ sp = "send" /\ out["server"] = <<>> /\ sending < Images
  /\ SendImage(sending + 1, held, sizes)
  /\ UNCHANGED <<sp, wire, got, peer, held, sizes, first, client, stopped>>

\* Reader::update, with whatever sizes the application has set meanwhile.
UpdateReader ==
  /\ sp = "send" /\ out["server"] = <<>> /\ sending = Images /\ held < Frames
  /\ held' = held + 1
  /\ \E s \in [1 .. Images -> Sizes] : sizes' = s /\ ServeOrLeave(held + 1, s)
  /\ UNCHANGED <<wire, got, peer, first, client, stopped>>

\* A send fails: an exception that is caught, or SIGPIPE, which nobody ignores.
ServeFails ==
  /\ \/ SendFails("server") /\ sp' = "gone"
     \/ out["server"] # <<>> /\ peer["server"] = "pipe" /\ sp' = "killed"
  /\ Close("server")
  /\ UNCHANGED <<held, sizes, sending, first, client, stopped>>

\* The daemon is told to stop and, at some time after that, exits.
StopServer ==
  /\ ~stopped["server"] /\ stopped' = [stopped EXCEPT !["server"] = TRUE]
  /\ UNCHANGED <<net, server, client>>

ServerExits ==
  /\ stopped["server"] /\ sp \notin {"gone", "killed"}
  /\ sp' = "killed"
  /\ Close("server")
  /\ UNCHANGED <<held, sizes, sending, first, client, stopped>>

-----------------------------------------------------------------------------
\* Client::own_thread.

\* connect, then everything up to the end of sendString.
Connect ==
  /\ cp = "connect"
  /\ cp'  = "initial"
  /\ out' = [out EXCEPT !["client"] = Request]
  /\ UNCHANGED <<wire, got, peer, server, max, image, size, slot, shown, stopped>>

\* connect prints its error and returns, and the first send raises SIGPIPE.
ConnectFails ==
  /\ cp = "connect"
  /\ cp' = "aborted"
  /\ UNCHANGED <<net, server, max, image, size, slot, shown, stopped>>

\* A faulty variant of LoopOrEnd: m_terminate is not looked at.
LoopForever ==
  /\ cp' = "header"
  /\ got' = [got EXCEPT !["client"] = <<>>]
  /\ UNCHANGED <<wire, out, peer>>

\* The test of the loop; at its end the destructors run.
LoopOrEnd ==
  IF stopped["client"]
    THEN cp' = "ended" /\ Close("client")
    ELSE /\ cp' = "header"
         /\ got' = [got EXCEPT !["client"] = <<>>]
         /\ UNCHANGED <<wire, out, peer>>

\* The ring is made for images of the size received.
TakeInitial ==
  /\ cp = "initial" /\ Received("client")
  /\ max' = got["client"][1].size
  /\ image' = 1
  /\ LoopOrEnd
  /\ UNCHANGED <<server, size, slot, shown, stopped>>

\* The header received replaces the local one, its size included.
TakeHeader ==
  /\ cp = "header" /\ Received("client")
  /\ size' = got["client"][1].size
  /\ cp' = "data"
  /\ got' = [got EXCEPT !["client"] = <<>>]
  /\ UNCHANGED <<wire, out, peer, server, max, image, slot, shown, stopped>>

\* A faulty variant of TakeData: one image more than there are.
TakeDataOnePast ==
  /\ cp = "data" /\ Received("client")
  /\ slot' = [slot EXCEPT ![image] = got["client"]]
  /\ IF image <= Images THEN image' = image + 1 /\ cp' = "header"
                        ELSE image' = 1 /\ cp' = "update"
  /\ got' = [got EXCEPT !["client"] = <<>>]
  /\ UNCHANGED <<wire, out, peer, server, max, size, shown, stopped>>

TakeData ==
  /\ cp = "data" /\ Received("client")
  /\ slot' = [slot EXCEPT ![image] = got["client"]]
  /\ IF image < Images THEN image' = image + 1 /\ cp' = "header"
                       ELSE image' = 1 /\ cp' = "update"
  /\ got' = [got EXCEPT !["client"] = <<>>]
  /\ UNCHANGED <<wire, out, peer, server, max, size, shown, stopped>>

\* The frame an element holds: every image whole and all of them of one frame.
Content(s) ==
  IF \E f \in 1 .. Frames : \A i \in 1 .. Images :
       /\ s[i] # <<>> /\ Len(s[i]) = s[i][1].size
       /\ \A u \in ToSet(s[i]) : u.kind = "data" /\ u.image = i /\ u.frame = f
    THEN s[1][1].frame ELSE Torn

\* Writer::update, and the test of the loop again.
UpdateWriter ==
  /\ cp = "update"
  /\ shown' = Content(slot)
  /\ LoopOrEnd
  /\ UNCHANGED <<server, max, image, size, slot, stopped>>

\* A faulty variant of ClientFails: an exception in the loop ends the frame.
ClientUpdatesAnyway ==
  /\ ReceiveFails("client")
  /\ cp' = "update"
  /\ Close("client")
  /\ UNCHANGED <<server, max, image, size, slot, shown, stopped>>

\* A call fails.  Only the receives before the Writer is made are in a try.
ClientFails ==
  /\ \/ ReceiveFails("client") /\ cp' = IF cp = "initial" THEN "ended" ELSE "aborted"
     \/ SendFails("client") /\ cp' = "aborted"
     \/ out["client"] # <<>> /\ peer["client"] = "pipe" /\ cp' = "aborted"
  /\ Close("client")
  /\ UNCHANGED <<server, max, image, size, slot, shown, stopped>>

\* Client::stop, from the handler of SIGINT.
StopClient ==
  /\ ~stopped["client"] /\ stopped' = [stopped EXCEPT !["client"] = TRUE]
  /\ UNCHANGED <<net, server, client>>

\* The client's process dies.
KillClient ==
  /\ cp \notin {"connect", "ended", "aborted"}
  /\ cp' = "aborted"
  /\ Close("client")
  /\ UNCHANGED <<server, max, image, size, slot, shown, stopped>>

-----------------------------------------------------------------------------
SocketStep(x) == RawSend(x) \/ SendUnheard(x) \/ RawReceive(x)

ServerStep == SocketStep("server") \/ TakeField \/ RequestFails \/ Attach
              \/ Serve \/ NextImage \/ UpdateReader \/ ServeFails

ClientStep == SocketStep("client") \/ Connect \/ TakeInitial \/ TakeHeader
              \/ TakeData \/ UpdateWriter \/ ClientFails

Next == ServerStep \/ ClientStep \/ ConnectFails \/ StopServer \/ ServerExits
        \/ StopClient \/ KillClient \/ Break

Spec == Init /\ [][Next]_vars

\* Threads go on; frames keep coming to the Reader (DataBuffer's ReaderServed).
FairSpec == Spec /\ WF_vars(ServerStep) /\ WF_vars(ClientStep)

-----------------------------------------------------------------------------
\* Properties.

\* Both ends agree where they are in the stream, however sends and receives are cut
\* up: what the client takes for a header of an image is one, and what it puts into
\* an image is of that image (client.cpp:112-116, server.cpp:144-150).
InStep ==
  \A u \in ToSet(got["client"]) :
    /\ cp = "header" => u.kind = "header" /\ u.image = image
    /\ cp = "data"   => u.kind = "data" /\ u.image = image /\ u.frame = shown + 1

\* The images received fit the client's element, if image 1 had its full size when
\* the client connected; the ring is made for the size it had then, and every header
\* after that brings a size of its own (client.cpp:106, 114-115).
FitsElement == first = MaxSize /\ cp = "data" => size <= max

\* The client publishes what the server was handed, each frame once, whole and in
\* order, whatever is lost, cut short, stopped or killed on the way.
M == INSTANCE Mirror WITH offered <- held
Mirrors == M!Spec

Over == sp \in {"left", "gone", "killed"} \/ cp \in {"ended", "aborted"}

\* A frame that is sent is published, unless an end has gone or been stopped.
FramesArrive ==
  \A f \in 1 .. Frames : (sp = "send" /\ held = f) ~> (shown \in f .. Frames \/ Over)

\* A client whose connection is reset ends, and so does one that is told to stop, with
\* at most one more frame: unless the server has closed in good order, when rawReceive
\* goes round for ever, or has left its loop with the socket open (client.cpp:110,
\* server.cpp:142, tcpsocket.cpp:236-249).
ClientEnds ==
  /\ peer["client"] = "rst" ~> cp \in {"ended", "aborted"}
  /\ \A f \in 0 .. Frames - 2 :
       (stopped["client"] /\ shown = f)
         ~> (cp \in {"ended", "aborted"} \/ peer["client"] = "fin" \/ sp = "left")

=============================================================================
