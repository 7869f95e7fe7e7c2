----------------------------- MODULE DataBuffer -----------------------------
(***************************************************************************)
(* The ring of elements in shared memory (src/src/databuffer.cpp) driven   *)
(* by the two classes that use it, Writer (src/src/writer.cpp) and Reader  *)
(* (src/src/reader.cpp), each object in a process of its own.              *)
(*                                                                         *)
(* An action is a stretch of code with at most one access to what other    *)
(* processes change (a semaphore, m_header->current_index).  Everything a  *)
(* writer does to an element between waitAll and postAll is private to it  *)
(* and is merged with the store of current_index that precedes it.         *)
(*                                                                         *)
(* current_index is a plain field.  Where the source reads it twice in one *)
(* expression or in adjacent statements with no call between (lines 124    *)
(* and 126; the initialisation and first test of the loop on line 148) the *)
(* -O2 build loads it once, and so does the model.                         *)
(***************************************************************************)
EXTENDS SemaphoreSet

CONSTANTS Writers,   \* the processes whose Stream is a Writer
          Budget     \* how often each kind of fault may happen

Readers == Procs \ Writers

\* What may go wrong, or simply end: a process dies (SEM_UNDO applies), ~Writer
\* runs, a Reader object is destroyed in a process that lives on, a signal
\* interrupts a sleeping semop.
FaultKinds == {"writerCrash", "readerCrash", "close", "drop", "interrupt"}

ASSUME WritersAssumption == Writers \subseteq Procs
ASSUME BudgetAssumption  == Budget \in [FaultKinds -> Nat]

VARIABLES current,   \* m_header->current_index
          complete,  \* complete[i]: the flag in the info_t of element i
          data,      \* data[i]: what element i's payload amounts to
          pc,        \* where each process stands
          idx,       \* the local index: "index"/"real_idx" or "old_index"
          elem,      \* m_element, as the index it points to
          prev,      \* m_previousElement
          faults     \* how often each kind of fault has happened

vars == <<sem, undo, current, complete, data, pc, idx, elem, prev, faults>>

None == -1           \* an elem_t whose pointers are NULL

\* blank: never written since the memory was created; partial: headers only, or
\* an image half copied; whole: the application has written every image; left: as
\* partial, but the writer that was at it has come to an end.
Payload == {"blank", "partial", "whole", "left"}

WriterPC == {"closed", "fill", "ready", "probe", "retest", "fallback",
             "take", "claim", "release"}
ReaderPC == {"closed", "load", "wait", "check", "giveback", "hold"}

Init ==
  /\ SemInit
  /\ current  = 0
  /\ complete = [i \in Index |-> FALSE]
  /\ data     = [i \in Index |-> "blank"]
  /\ pc       = [p \in Procs |-> "closed"]
  /\ idx      = [p \in Procs |-> 0]
  /\ elem     = [p \in Procs |-> None]
  /\ prev     = [w \in Writers |-> None]
  /\ faults   = [k \in FaultKinds |-> 0]

Goto(p, from, to) ==
  /\ pc[p] = from
  /\ pc' = [pc EXCEPT ![p] = to]

Fault(k) ==
  /\ faults[k] < Budget[k]
  /\ faults' = [faults EXCEPT ![k] = @ + 1]

shared == <<current, complete, data>>

-----------------------------------------------------------------------------
\* Writer: getWriteAccess, update, the destructor.

\* A faulty variant of ScanFrom: one element too few is looked at.
ScanFromShort(w, x) ==
  /\ idx' = [idx EXCEPT ![w] = x]
  /\ pc'  = [pc EXCEPT ![w] = IF x < Elements + current - 1
                              THEN "probe" ELSE "fallback"]

\* A faulty variant of ScanFrom: the search starts over instead of giving up.
ScanFromAgain(w, x) ==
  /\ idx' = [idx EXCEPT ![w] = IF x < Elements + current THEN x ELSE current + 1]
  /\ pc'  = [pc EXCEPT ![w] = "probe"]

\* The test of the search loop, with the loop variable at x.
ScanFrom(w, x) ==
  /\ idx' = [idx EXCEPT ![w] = x]
  /\ pc'  = [pc EXCEPT ![w] = IF x < Elements + current
                              THEN "probe" ELSE "fallback"]

\* Writer::Writer: both elem_t are NULL, getWriteAccess starts its search.
OpenWriter(w) ==
  /\ pc[w] = "closed"
  /\ ScanFrom(w, current + 1)
  /\ UNCHANGED <<semVars, shared, elem, prev, faults>>

\* The application fills the images of m_element with copyWrite.
Fill(w) ==
  /\ Goto(w, "fill", "ready")
  /\ data' = [data EXCEPT ![elem[w]] = "whole"]
  /\ UNCHANGED <<semVars, current, complete, idx, elem, prev, faults>>

\* Writer::update starts: m_previousElement = m_element, then getWriteAccess.
Update(w) ==
  /\ pc[w] = "ready"
  /\ prev' = [prev EXCEPT ![w] = elem[w]]
  /\ ScanFrom(w, current + 1)
  /\ UNCHANGED <<semVars, shared, elem, faults>>

\* A faulty variant of Probe: the loop variable is used without the modulo.
ProbeUnreduced(w) ==
  /\ pc[w] = "probe"
  /\ \/ /\ GetVal(idx[w] % Elements) = Elements
        /\ pc' = [pc EXCEPT ![w] = "take"]
     \/ /\ GetVal(idx[w] % Elements) # Elements
        /\ pc' = [pc EXCEPT ![w] = "retest"]
  /\ UNCHANGED <<semVars, shared, idx, elem, prev, faults>>

\* The body of the loop: an element nobody holds is taken, or the search goes on.
Probe(w) ==
  LET real == idx[w] % Elements IN
  /\ \/ /\ GetVal(real) = Elements
        /\ Goto(w, "probe", "take")
        /\ idx' = [idx EXCEPT ![w] = real]
     \/ /\ GetVal(real) # Elements
        /\ Goto(w, "probe", "retest")
        /\ UNCHANGED idx
  /\ UNCHANGED <<semVars, shared, elem, prev, faults>>

Retest(w) ==
  /\ pc[w] = "retest"
  /\ ScanFrom(w, idx[w] + 1)
  /\ UNCHANGED <<semVars, shared, elem, prev, faults>>

\* A faulty variant of Fallback: the current element instead of the next.
FallbackCurrent(w) ==
  /\ Goto(w, "fallback", "take")
  /\ idx' = [idx EXCEPT ![w] = current % Elements]
  /\ UNCHANGED <<semVars, shared, elem, prev, faults>>

\* No free element: the next one, for which the writer will wait.
Fallback(w) ==
  /\ Goto(w, "fallback", "take")
  /\ idx' = [idx EXCEPT ![w] = (current + 1) % Elements]
  /\ UNCHANGED <<semVars, shared, elem, prev, faults>>

\* waitAll.
Take(w) ==
  /\ Goto(w, "take", "claim")
  /\ WaitAll(w, idx[w])
  /\ UNCHANGED <<shared, idx, elem, prev, faults>>

TakeInterrupted(w) ==
  /\ Goto(w, "take", "claim")
  /\ SemWaitFails(idx[w], Elements)
  /\ Fault("interrupt")
  /\ UNCHANGED <<shared, idx, elem, prev>>

\* The element becomes m_element and the one readers are sent to; its flag is
\* cleared and its headers are written (by the constructor) or copied from the
\* previous element (by update, which has that one still to release).
Claim(w) ==
  /\ Goto(w, "claim", IF prev[w] = None THEN "fill" ELSE "release")
  /\ current'  = idx[w]
  /\ elem'     = [elem EXCEPT ![w] = idx[w]]
  /\ complete' = [complete EXCEPT ![idx[w]] = FALSE]
  /\ data'     = [data EXCEPT ![idx[w]] = "partial"]
  /\ UNCHANGED <<semVars, idx, prev, faults>>

\* The end of Writer::update: releaseWriteAccess( m_previousElement ).
Release(w) ==
  /\ Goto(w, "release", "fill")
  /\ PostAll(w, prev[w])
  /\ prev' = [prev EXCEPT ![w] = None]
  /\ UNCHANGED <<shared, idx, elem, faults>>

\* What is half written when its writer ends remains so.  No byte of it changes: the
\* label records that nobody is at it any more.
Abandon(w) ==
  data' = [i \in Index |-> IF i = elem[w] /\ data[i] = "partial" THEN "left" ELSE data[i]]

\* Writer::~Writer between two updates; m_previousElement is NULL then.
Close(w) ==
  /\ pc[w] \in {"fill", "ready"}
  /\ pc' = [pc EXCEPT ![w] = "closed"]
  /\ PostAll(w, elem[w])
  /\ Abandon(w)
  /\ elem' = [elem EXCEPT ![w] = None]
  /\ Fault("close")
  /\ UNCHANGED <<current, complete, idx, prev>>

\* The writer's process dies.
CrashWriter(w) ==
  /\ pc[w] # "closed"
  /\ pc' = [pc EXCEPT ![w] = "closed"]
  /\ SemExit(w)
  /\ Abandon(w)
  /\ elem' = [elem EXCEPT ![w] = None]
  /\ prev' = [prev EXCEPT ![w] = None]
  /\ Fault("writerCrash")
  /\ UNCHANGED <<current, complete, idx>>

WriterStep(w) ==
  \/ OpenWriter(w) \/ Fill(w) \/ Update(w)
  \/ Probe(w) \/ Retest(w) \/ Fallback(w)
  \/ Take(w) \/ Claim(w) \/ Release(w)

-----------------------------------------------------------------------------
\* Reader: getReadAccess, update.

\* Reader::Reader: m_element is NULL, getReadAccess starts.
OpenReader(r) ==
  /\ Goto(r, "closed", "load")
  /\ UNCHANGED <<semVars, shared, idx, elem, prev, faults>>

\* old_index = m_header->current_index.
Load(r) ==
  /\ Goto(r, "load", "wait")
  /\ idx' = [idx EXCEPT ![r] = current]
  /\ UNCHANGED <<semVars, shared, elem, prev, faults>>

\* A faulty variant of Wait: the element of m_header->current_index is got.
WaitGetsCurrent(r) ==
  /\ Goto(r, "wait", "check")
  /\ WaitOne(r, idx[r])
  /\ elem' = [elem EXCEPT ![r] = current]
  /\ UNCHANGED <<shared, idx, prev, faults>>

\* wait( old_index ), then get( old_index, element ).
Wait(r) ==
  /\ Goto(r, "wait", "check")
  /\ WaitOne(r, idx[r])
  /\ elem' = [elem EXCEPT ![r] = idx[r]]
  /\ UNCHANGED <<shared, idx, prev, faults>>

WaitInterrupted(r) ==
  /\ Goto(r, "wait", "check")
  /\ SemWaitFails(idx[r], 1)
  /\ elem' = [elem EXCEPT ![r] = idx[r]]
  /\ Fault("interrupt")
  /\ UNCHANGED <<shared, idx, prev>>

\* A faulty variant of Refused: the index is not looked at.
RefusedUnflagged(r) == ~complete[idx[r]]

\* A faulty variant of Refused: whatever was obtained is good.
RefusedNever(r) == FALSE

\* The condition under which the element obtained is given back.
Refused(r) == current = idx[r] /\ ~complete[idx[r]]

Check(r) ==
  /\ Goto(r, "check", IF Refused(r) THEN "giveback" ELSE "hold")
  /\ UNCHANGED <<semVars, shared, idx, elem, prev, faults>>

ReleaseRead(r) ==
  /\ PostOne(r, elem[r])
  /\ elem' = [elem EXCEPT ![r] = None]

\* The warning branch: release, sleep a second, look again.
GiveBack(r) ==
  /\ Goto(r, "giveback", "load")
  /\ ReleaseRead(r)
  /\ UNCHANGED <<shared, idx, prev, faults>>

\* Reader::update: releaseReadAccess, then getReadAccess.
UpdateReader(r) ==
  /\ Goto(r, "hold", "load")
  /\ ReleaseRead(r)
  /\ UNCHANGED <<shared, idx, prev, faults>>

\* A Reader is destroyed by a process that lives on (handleSocket returns):
\* neither Reader nor Stream has a destructor, nothing is released.
Drop(r) ==
  /\ Goto(r, "hold", "closed")
  /\ elem' = [elem EXCEPT ![r] = None]
  /\ Fault("drop")
  /\ UNCHANGED <<semVars, shared, idx, prev>>

\* The reader's process dies.
CrashReader(r) ==
  /\ pc[r] # "closed" \/ \E i \in Index : undo[r][i] # 0
  /\ pc' = [pc EXCEPT ![r] = "closed"]
  /\ SemExit(r)
  /\ elem' = [elem EXCEPT ![r] = None]
  /\ Fault("readerCrash")
  /\ UNCHANGED <<shared, idx, prev>>

ReaderStep(r) ==
  \/ OpenReader(r) \/ Load(r) \/ Wait(r) \/ Check(r)
  \/ GiveBack(r) \/ UpdateReader(r)

-----------------------------------------------------------------------------
WriterFault(w) == Close(w) \/ CrashWriter(w) \/ TakeInterrupted(w)
ReaderFault(r) == Drop(r) \/ CrashReader(r) \/ WaitInterrupted(r)

Next ==
  \/ \E w \in Writers : WriterStep(w) \/ WriterFault(w)
  \/ \E r \in Readers : ReaderStep(r) \/ ReaderFault(r)

Spec == Init /\ [][Next]_vars

\* Applications keep calling update (examples/writer.cpp:17, examples/reader.cpp:11),
\* a closed process is started again, and a process asleep in semop is completed
\* by the kernel inside the semop that raises the value, so that an operation
\* that becomes possible again and again is performed: strong fairness.
Fairness ==
  /\ \A w \in Writers : WF_vars(WriterStep(w)) /\ SF_vars(Take(w))
  /\ \A r \in Readers : WF_vars(ReaderStep(r)) /\ SF_vars(Wait(r))

FairSpec == Spec /\ Fairness

-----------------------------------------------------------------------------
\* Properties.

\* Every variable has its type; an index about to be used is one of the ring.
TypeOK ==
  /\ sem      \in [Index -> Nat]
  /\ undo     \in [Procs -> [Index -> Int]]
  /\ current  \in Index
  /\ complete \in [Index -> BOOLEAN]
  /\ data     \in [Index -> Payload]
  /\ pc       \in [Procs -> WriterPC \cup ReaderPC]
  /\ idx      \in [Procs -> Nat]
  /\ elem     \in [Procs -> Index \cup {None}]
  /\ prev     \in [Writers -> Index \cup {None}]
  /\ faults   \in [FaultKinds -> Nat]
  /\ \A w \in Writers : pc[w] \in WriterPC /\ (pc[w] \in {"take", "claim"} => idx[w] \in Index)
  /\ \A r \in Readers : pc[r] \in ReaderPC /\ idx[r] \in Index

\* The elements a process is entitled to touch: those it has an elem_t for, and
\* for a writer the one whose semaphore it has taken and not yet stored.
Owned(p) ==
  ({elem[p]} \cup (IF p \in Writers THEN {prev[p]} ELSE {})
             \cup (IF p \in Writers /\ pc[p] = "claim" THEN {idx[p]} ELSE {})) \ {None}

\* No process touches an element that a writer owns, whatever the interleaving
\* of searches, waits, releases, destructors and exits (databuffer.cpp:119-196).
Exclusion ==
  \A w \in Writers, p \in Procs : p # w => Owned(w) \cap Owned(p) = {}

\* What a reader works on is never the element readers are being sent to: the
\* newest element is always left to its writer (lines 130-140, 155, 171).
NeverHoldsCurrent ==
  \A r \in Readers : pc[r] = "hold" => elem[r] # current

\* A reader is handed a frame its writer finished, never one a writer is still at and
\* never one nobody wrote.  The exceptions: element 0, which is current before any
\* writer has come, and an element whose writer died or was destroyed in the middle of
\* it, until the next writer takes it (line 130 looks no further).
HandsOutWholeFrames ==
  \A r \in Readers : pc[r] = "hold" =>
    \/ data[elem[r]] \in {"whole", "left"}
    \/ data[elem[r]] = "blank" /\ elem[r] = 0

\* While a reader works on an element its contents do not change, although the
\* writer laps the ring and processes come and go.
StableWhileHeld ==
  [][\A r \in Readers :
       pc[r] = "hold" /\ pc'[r] = "hold" => data'[elem[r]] = data[elem[r]]]_vars

\* With fewer readers and leaked units than other elements, the search finds a
\* free element although readers move while it runs, and the writer need not
\* pick one blindly (databuffer.cpp:148-165).
SearchSucceeds ==
  Cardinality(Readers) + faults["drop"] < Elements - 1
    => \A w \in Writers : pc[w] # "fallback"

\* A writer never waits for an element it holds itself: no one else could end
\* that wait (databuffer.cpp:154, 170 with writer.cpp:102-103).
NeverWaitsForItself ==
  \A w \in Writers : pc[w] = "take" => idx[w] \notin Owned(w)

\* A reader that asks for an element is handed one, or its process dies.
ReaderServed ==
  \A r \in Readers : pc[r] = "load" ~> pc[r] \in {"hold", "closed"}

\* A writer that asks for an element gets one, or its process dies.
WriterServed ==
  \A w \in Writers : pc[w] = "probe" ~> pc[w] \in {"fill", "closed"}

\* "The last writer released all semaphores but did not set complete flag [...]
\* waiting and retrying" (databuffer.cpp:135-136): what the reader is handed in the
\* end has been written.
HandsOutWritten ==
  \A r \in Readers : pc[r] = "hold" => data[elem[r]] # "blank"

=============================================================================
