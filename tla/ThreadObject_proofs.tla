------------------------- MODULE ThreadObject_proofs -------------------------
(***************************************************************************)
(* Proofs about the start, stop and join of ThreadObject, Server and       *)
(* Client, for any sequence of calls.                                      *)
(***************************************************************************)
EXTENDS ThreadObject, TLAPS

\* A Server, or a Client that has had no trouble of its own.
Regular == kind = "Server" \/ (kind = "Client" /\ ~long /\ ~quits)

ObjectTypes ==
  /\ kind \in {"ThreadObject", "Server", "Client"}
  /\ long \in BOOLEAN /\ terminate \in BOOLEAN /\ thread \in BOOLEAN /\ derived \in BOOLEAN
  /\ begun \in BOOLEAN /\ proper \in BOOLEAN /\ quits \in BOOLEAN
  /\ owner \in {"idle", "starting", "joining", "destroying", "destroyed", "aborted"}
  /\ worker \in {"none", "created", "greeting", "running", "blocked", "done"}

\* There is a thread object exactly while there is a thread; with m_terminate reset
\* a worker of a regular object does not end; and as long as start and join take turns,
\* what has been begun has a thread.
ObjectInv ==
  /\ ObjectTypes
  /\ long => kind = "Client"
  /\ thread <=> worker # "none"
  /\ owner = "starting" => terminate /\ begun /\ (kind = "ThreadObject" => ~thread)
  /\ owner = "joining" => ~begun
  /\ kind = "ThreadObject" => /\ owner = "idle" /\ ~thread => terminate
                              /\ owner = "aborted" => ~derived
  /\ Regular => /\ worker = "done" => terminate \/ owner = "aborted"
                /\ owner = "idle" /\ ~thread => terminate
                /\ owner = "idle" /\ proper => (begun <=> thread)
                /\ owner = "starting" /\ proper => ~thread
                /\ owner = "aborted" => ~proper

\* A new object, of any of the kinds there are.
LEMMA ObjectBegins ==
  ASSUME Init
  PROVE  ObjectInv
BY KindsAssumption DEF Init, ObjectInv, ObjectTypes, Regular

\* Every call of the owner and every step of the worker keeps it.
LEMMA ObjectKept ==
  ASSUME ObjectInv, Next
  PROVE  ObjectInv'
<1> USE DEF ObjectInv, ObjectTypes, Regular, fixed, history
<1>0. owner # "aborted"
  BY DEF Next, Goes
<1>1. CASE Start
  BY <1>1 DEF Start, MayStart
<1>2. CASE Launch
  <2>1. /\ owner = "starting" /\ terminate' = FALSE
        /\ UNCHANGED <<kind, long, derived, begun, proper, quits>>
    BY <1>2 DEF Launch
  <2>2. CASE long /\ owner' = "idle" /\ UNCHANGED <<thread, worker>>
    BY <2>1, <2>2
  <2>3. CASE ~long /\ thread /\ owner' = "aborted" /\ UNCHANGED <<thread, worker>>
    BY <2>1, <2>3
  <2>4. CASE ~long /\ ~thread /\ owner' = "idle" /\ thread' = TRUE /\ worker' = "created"
    BY <2>1, <2>4
  <2>5. QED
    BY <1>2, <2>2, <2>3, <2>4, Zenon DEF Launch
<1>3. CASE Join
  BY <1>3 DEF Join
<1>4. CASE Joined
  BY <1>4 DEF Joined
<1>5. CASE Destroy
  BY <1>5 DEF Destroy
<1>6. CASE Stop
  BY <1>6 DEF Stop
<1>7. CASE Dispatch
  BY <1>0, <1>7 DEF Dispatch
<1>8. CASE Block \/ Return \/ Finish
  BY <1>8 DEF Block, Return, Finish
<1>9. CASE Quit
  BY <1>9 DEF Quit
<1>10. QED
  BY <1>1, <1>2, <1>3, <1>4, <1>5, <1>6, <1>7, <1>8, <1>9 DEF Next

\* The flags agree with the thread in every state the object's owner can bring about.
LEMMA ObjectInvariant == Spec => []ObjectInv
<1>1. Init => ObjectInv
  BY ObjectBegins
<1>2. ObjectInv /\ [Next]_(vars) => ObjectInv'
  <2>1. ASSUME ObjectInv, UNCHANGED vars PROVE ObjectInv'
    BY <2>1 DEF vars, fixed, history, ObjectInv, ObjectTypes, Regular
  <2>2. QED
    BY <2>1, ObjectKept
<1>3. QED
  BY <1>1, <1>2, PTL DEF Spec

\* No sequence of start, stop and join ends the process with a ThreadObject, nor one of
\* start and join in turn with a Server or a Client: unless the Client's name is too
\* long or a worker of its has returned by itself (server.cpp:57-74, client.cpp:53-74,
\* threadobject.cpp).
THEOREM StartStopSafe == Spec => []NeverAborts
<1>1. ObjectInv => NeverAborts
  BY DEF ObjectInv, ObjectTypes, Regular, NeverAborts
<1>2. QED
  BY <1>1, ObjectInvariant, PTL

\* An object whose thread has been joined, or never begun, can be started: whatever was
\* called before, m_terminate is set, with the same exceptions for a Client.
THEOREM StartsAgain == Spec => []Restartable
<1>1. ObjectInv => Restartable
  BY DEF ObjectInv, ObjectTypes, Regular, Restartable
<1>2. QED
  BY <1>1, ObjectInvariant, PTL

=============================================================================
