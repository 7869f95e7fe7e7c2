-------------------------------- MODULE Feed --------------------------------
(***************************************************************************)
(* DataBuffer with the frames numbered, in the order in which writers      *)
(* begin them, to tell which of them the readers are handed: the ring      *)
(* implements Channel.  The variables added here record what happens and   *)
(* are read by nothing of DataBuffer.                                      *)
(***************************************************************************)
EXTENDS DataBuffer

CONSTANT Frames    \* bound: how many frames are begun

ASSUME FramesAssumption == Frames \in Nat

VARIABLES newest,  \* how many frames have been begun
          number,  \* number[i]: the frame in element i, 0 if there has been none
          asked,   \* asked[r]: the newest frame when r read current_index
          given    \* given[r]: the frame r was handed last

history  == <<newest, number, asked, given>>
feedVars == <<vars, history>>

FeedInit ==
  /\ Init
  /\ newest = 0
  /\ number = [i \in Index |-> 0]
  /\ asked  = [r \in Readers |-> None]
  /\ given  = [r \in Readers |-> None]

\* A writer stores current_index: the frame it will fill is the newest.
Begin(w) ==
  /\ Claim(w)
  /\ newest < Frames /\ newest' = newest + 1
  /\ number' = [number EXCEPT ![idx[w]] = newest + 1]
  /\ UNCHANGED <<asked, given>>

\* A reader loads current_index.
Ask(r) ==
  /\ Load(r)
  /\ asked' = [asked EXCEPT ![r] = newest]
  /\ UNCHANGED <<newest, number, given>>

\* getReadAccess returns.
Hand(r) ==
  /\ Check(r) /\ ~Refused(r)
  /\ given' = [given EXCEPT ![r] = number[elem[r]]]
  /\ asked' = [asked EXCEPT ![r] = None]
  /\ UNCHANGED <<newest, number>>

Refuse(r) == Check(r) /\ Refused(r) /\ UNCHANGED history

\* Every other step of the ring.
Rest ==
  /\ \/ \E w \in Writers : \/ OpenWriter(w) \/ Fill(w) \/ Update(w) \/ Probe(w) \/ Retest(w)
                           \/ Fallback(w) \/ Take(w) \/ Release(w) \/ WriterFault(w)
     \/ \E r \in Readers : \/ OpenReader(r) \/ Wait(r) \/ GiveBack(r) \/ UpdateReader(r)
                           \/ ReaderFault(r)
  /\ UNCHANGED history

FeedNext ==
  \/ \E w \in Writers : Begin(w)
  \/ \E r \in Readers : Ask(r) \/ Hand(r) \/ Refuse(r)
  \/ Rest

FeedSpec == FeedInit /\ [][FeedNext]_feedVars

-----------------------------------------------------------------------------
\* A reader is handed a frame begun no earlier than the one that was newest when it
\* loaded current_index, and finished with: never one it had before, nor an older one,
\* although current_index may have moved any number of times, round the whole ring
\* even, before it gets the element (databuffer.cpp:124-140).
C == INSTANCE Channel
HandsOutNewer == C!Spec
=============================================================================
