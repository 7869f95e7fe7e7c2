----------------------------- MODULE ThreadObject -----------------------------
(***************************************************************************)
(* The three classes that own a thread: util::ThreadObject, whose derived  *)
(* class brings the body, network::Server and network::Client.  They have  *)
(* the same start, stop and join, written three times.                     *)
(*                                                                         *)
(* One thread, the owner, constructs and destroys the object, starts and   *)
(* joins it.  Another one, or a handler of SIGINT (daemons/server.cpp:35), *)
(* may call stop at any time.  The worker is the thread they own; what its *)
(* peers do to it is in Server and Proxy, here a call of its that waits    *)
(* for one of them returns or does not.                                    *)
(***************************************************************************)
EXTENDS Naturals

CONSTANTS Kinds   \* of objects

ASSUME KindsAssumption == Kinds \subseteq {"ThreadObject", "Server", "Client"}

VARIABLES kind,
          long,       \* a Client's name is longer than a short can say
          terminate,  \* m_terminate
          thread,     \* m_thread is a thread, not yet joined
          owner,      \* what the owner is doing
          worker,     \* none, created, greeting, running, blocked or done
          derived,    \* the derived class's part of the object exists
          begun,      \* history: start has been called since the last join
          proper,     \* history: only start and join, in turn, were called
          quits       \* history: a worker has ended without being told to

fixed   == <<kind, long>>
history == <<begun, proper, quits>>
vars    == <<fixed, terminate, thread, owner, worker, derived, history>>

Init ==
  /\ kind \in Kinds /\ long \in {b \in BOOLEAN : b => kind = "Client"}
  /\ terminate = TRUE /\ thread = FALSE
  /\ owner = "idle" /\ worker = "none" /\ derived = TRUE
  /\ begun = FALSE /\ proper = TRUE /\ quits = FALSE

-----------------------------------------------------------------------------
\* The owner.

\* A faulty variant of MayStart: only m_terminate is looked at.
MayStartAgain == terminate

\* The condition in start.
MayStart == terminate /\ (kind = "ThreadObject" => ~thread)

Start ==
  /\ owner = "idle"
  /\ owner'  = IF MayStart THEN "starting" ELSE "idle"
  /\ begun'  = TRUE
  /\ proper' = (proper /\ ~begun)
  /\ UNCHANGED <<fixed, terminate, thread, worker, derived, quits>>

\* The body of start: a stop since the test is lost.  A Client whose name is too long
\* returns here; to assign a thread to one that is not joined ends the process.
Launch ==
  /\ owner = "starting"
  /\ terminate' = FALSE
  /\ \/ long /\ owner' = "idle" /\ UNCHANGED <<thread, worker>>
     \/ ~long /\ thread /\ owner' = "aborted" /\ UNCHANGED <<thread, worker>>
     \/ ~long /\ ~thread /\ owner' = "idle" /\ thread' = TRUE /\ worker' = "created"
  /\ UNCHANGED <<fixed, derived, history>>

\* join.  Where there is no thread ThreadObject returns and the others throw.
Join ==
  /\ owner = "idle"
  /\ owner' = IF thread THEN "joining"
              ELSE IF kind = "ThreadObject" THEN "idle" ELSE "aborted"
  /\ begun'  = FALSE
  /\ proper' = (proper /\ begun)
  /\ UNCHANGED <<fixed, terminate, thread, worker, derived, quits>>

\* A faulty variant of Joined: m_terminate is left as it is.
JoinedLeavesFlag ==
  /\ owner \in {"joining", "destroying"} /\ worker = "done"
  /\ owner'  = IF owner = "joining" THEN "idle" ELSE "destroyed"
  /\ thread' = FALSE /\ worker' = "none"
  /\ UNCHANGED <<fixed, terminate, derived, history>>

\* The worker has returned; ThreadObject alone sets m_terminate again.
Joined ==
  /\ owner \in {"joining", "destroying"} /\ worker = "done"
  /\ owner'  = IF owner = "joining" THEN "idle" ELSE "destroyed"
  /\ thread' = FALSE /\ worker' = "none"
  /\ terminate' = (terminate \/ kind = "ThreadObject")
  /\ UNCHANGED <<fixed, derived, history>>

\* The destructors: the derived class's, then ~ThreadObject, which stops and joins.
\* The others destroy their std::thread, which must not be joinable.
Destroy ==
  /\ owner = "idle"
  /\ derived' = FALSE
  /\ owner' = IF ~thread THEN "destroyed"
              ELSE IF kind = "ThreadObject" THEN "destroying" ELSE "aborted"
  /\ terminate' = (terminate \/ kind = "ThreadObject")
  /\ proper' = (proper /\ ~begun)
  /\ UNCHANGED <<fixed, thread, worker, begun, quits>>

-----------------------------------------------------------------------------
\* Stop, from wherever, and the worker.

Stop ==
  /\ owner # "destroyed" /\ ~terminate
  /\ terminate' = TRUE
  /\ UNCHANGED <<fixed, thread, owner, worker, derived, history>>

\* own_thread is called: a pure virtual function once the derived part is gone.  A
\* Client connects and waits for what the server sends first.
Dispatch ==
  /\ worker = "created"
  /\ IF kind = "ThreadObject" /\ ~derived
       THEN owner' = "aborted" /\ UNCHANGED worker
       ELSE /\ worker' = IF kind = "Client" THEN "greeting" ELSE "running"
            /\ UNCHANGED owner
  /\ UNCHANGED <<fixed, terminate, thread, derived, history>>

\* A faulty variant of Block: m_terminate is not looked at.
BlockAnyway ==
  /\ worker = "running" /\ kind # "ThreadObject"
  /\ worker' = "blocked"
  /\ UNCHANGED <<fixed, terminate, thread, owner, derived, history>>

\* The test of the loop finds m_terminate cleared: a Server goes into accept, a Client
\* into recv or, when it publishes, semop.
Block ==
  /\ worker = "running" /\ kind # "ThreadObject" /\ ~terminate
  /\ worker' = "blocked"
  /\ UNCHANGED <<fixed, terminate, thread, owner, derived, history>>

\* The other side does what the call waited for, and the loop's test is next.
Return ==
  /\ worker \in {"greeting", "blocked"}
  /\ worker' = "running"
  /\ UNCHANGED <<fixed, terminate, thread, owner, derived, history>>

\* The test finds m_terminate set.
Finish ==
  /\ worker = "running" /\ terminate
  /\ worker' = "done"
  /\ UNCHANGED <<fixed, terminate, thread, owner, derived, history>>

\* A derived class's may return as it likes, a Client's does when its first receives fail.
Quit ==
  /\ worker = IF kind = "Client" THEN "greeting" ELSE "running"
  /\ kind # "Server"
  /\ worker' = "done" /\ quits' = TRUE
  /\ UNCHANGED <<fixed, terminate, thread, owner, derived, begun, proper>>

\* Once std::terminate has been called nothing goes on.
Goes == owner # "aborted"

Next ==
  /\ Goes
  /\ \/ Start \/ Launch \/ Join \/ Joined \/ Destroy
     \/ Stop \/ Dispatch \/ Block \/ Return \/ Finish \/ Quit

Spec == Init /\ [][Next]_vars

\* Threads go on while their calls return; nobody need call anything, and no client
\* need connect to a server nor a server send to a client.
FairSpec ==
  /\ Spec
  /\ WF_vars(Goes /\ Launch) /\ WF_vars(Goes /\ Joined)
  /\ WF_vars(Goes /\ Dispatch) /\ WF_vars(Goes /\ (Block \/ Finish))

-----------------------------------------------------------------------------
\* Properties.

\* No sequence of start, stop and join ends the process with a ThreadObject, nor one of
\* start and join in turn with a Server or a Client: unless the Client's name is too
\* long or a worker of its has returned by itself (server.cpp:57-74, client.cpp:53-74).
NeverAborts ==
  owner = "aborted" =>
    CASE kind = "ThreadObject" -> ~derived
      [] kind = "Server"       -> ~proper
      [] OTHER                 -> ~proper \/ long \/ quits

\* An object whose thread has been joined, or never begun, can be started (the next
\* start finds m_terminate set): the same exceptions for a Client.
Restartable ==
  owner = "idle" /\ ~thread =>
    terminate \/ (kind = "Client" /\ (long \/ quits))

\* The calls a worker blocks in do not last for ever.  Nothing in the code sees to that:
\* stop wakes neither accept nor recv (server.cpp:66-69, client.cpp:66-69).
CallsReturn == WF_vars(Goes /\ Return)

\* A stop after start has returned is not lost: if the worker's calls return, it ends,
\* and a join that waits for it returns.  A ThreadObject's worker makes none of these
\* calls, and its destructor, which stops it itself, comes to its end with no condition
\* (threadobject.cpp:38-66, server.cpp:82-86, client.cpp:110-118).
StopEnds ==
  CallsReturn =>
    /\ (terminate /\ worker \notin {"none", "done"} /\ owner # "starting")
         ~> (worker \in {"none", "done"} \/ owner = "aborted")
    /\ (owner = "joining" /\ terminate) ~> owner # "joining"
    /\ owner = "destroying" ~> owner \in {"destroyed", "aborted"}

=============================================================================
