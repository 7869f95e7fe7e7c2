---------------------------- MODULE ThreadBarrier ----------------------------
(***************************************************************************)
(* util::ThreadBarrier::wait (defs/sepia/util/threadbarrier.h).            *)
(*                                                                         *)
(* Every access to the members is made under m_mutex, so that what happens *)
(* between taking it and giving it up, or sleeping, is one action: Enter   *)
(* up to the return or to condvar.wait, Recheck from a wake-up to the      *)
(* return or the next sleep.  m_generation is a size_t and wraps.          *)
(***************************************************************************)
EXTENDS Naturals, FiniteSets

CONSTANTS Threads,
          Threshold,  \* m_threshold, a_count of the constructor
          Width,      \* the number of values of a size_t
          Rounds      \* bound: m_generation stays at or below it

ASSUME ThreadsAssumption   == IsFiniteSet(Threads)
ASSUME ThresholdAssumption == Threshold \in Nat \ {0}
ASSUME WidthAssumption     == Width \in Nat /\ Width >= 2
ASSUME RoundsAssumption    == Rounds \in Nat

VARIABLES count,      \* m_count
          generation, \* m_generation
          pc,         \* outside wait, asleep on m_condvar, or woken
          seen        \* the local "generation"

vars == <<count, generation, pc, seen>>

Init ==
  /\ count = Threshold
  /\ generation = 0
  /\ pc   = [t \in Threads |-> "out"]
  /\ seen = [t \in Threads |-> 0]

\* m_generation++ in the width of a size_t.
Increment(g) == IF g + 1 = Width THEN 0 ELSE g + 1

\* wait by one that is not the last: it finds its own generation and sleeps.
Enter(t) ==
  /\ pc[t] = "out"
  /\ count - 1 # 0
  /\ count' = count - 1
  /\ seen'  = [seen EXCEPT ![t] = generation]
  /\ pc'    = [pc EXCEPT ![t] = "asleep"]
  /\ UNCHANGED generation

\* A faulty variant of Last: notify_one.
LastNotifiesOne(t) ==
  /\ pc[t] = "out" /\ count - 1 = 0 /\ generation < Rounds
  /\ generation' = Increment(generation)
  /\ count' = Threshold
  /\ seen'  = [seen EXCEPT ![t] = generation]
  /\ \/ \E u \in Threads : pc[u] = "asleep" /\ pc' = [pc EXCEPT ![u] = "woken"]
     \/ (\A u \in Threads : pc[u] # "asleep") /\ UNCHANGED pc

\* A faulty variant of Last: m_count is not set back.
LastKeepsCount(t) ==
  /\ pc[t] = "out" /\ count - 1 = 0 /\ generation < Rounds
  /\ generation' = Increment(generation)
  /\ count' = 0
  /\ seen'  = [seen EXCEPT ![t] = generation]
  /\ pc'    = [u \in Threads |-> IF pc[u] = "asleep" THEN "woken" ELSE pc[u]]

\* wait by the last of a round: notify_all, then it returns.
Last(t) ==
  /\ pc[t] = "out" /\ count - 1 = 0 /\ generation < Rounds
  /\ generation' = Increment(generation)
  /\ count' = Threshold
  /\ seen'  = [seen EXCEPT ![t] = generation]
  /\ pc'    = [u \in Threads |-> IF pc[u] = "asleep" THEN "woken" ELSE pc[u]]

\* A condition variable may wake a thread for no reason.
WakeSpuriously(t) ==
  /\ pc[t] = "asleep"
  /\ pc' = [pc EXCEPT ![t] = "woken"]
  /\ UNCHANGED <<count, generation, seen>>

\* A faulty variant of Recheck: condvar.wait without its predicate.
RecheckNothing(t) ==
  /\ pc[t] = "woken"
  /\ pc' = [pc EXCEPT ![t] = "out"]
  /\ UNCHANGED <<count, generation, seen>>

\* The predicate: return if the generation is another one, else sleep again.
Recheck(t) ==
  /\ pc[t] = "woken"
  /\ pc' = [pc EXCEPT ![t] = IF generation # seen[t] THEN "out" ELSE "asleep"]
  /\ UNCHANGED <<count, generation, seen>>

Next == \E t \in Threads : Enter(t) \/ Last(t) \/ WakeSpuriously(t) \/ Recheck(t)

Spec == Init /\ [][Next]_vars

\* A woken thread gets the mutex and goes on; nobody need come, nobody wakes unasked.
FairSpec == Spec /\ \A t \in Threads : WF_vars(Recheck(t))

-----------------------------------------------------------------------------
\* Properties.

\* Every variable has its type, and m_count is never 0 between two calls (the
\* next decrement would wrap).
TypeOK ==
  /\ count \in 1 .. Threshold
  /\ generation \in 0 .. Width - 1
  /\ pc   \in [Threads -> {"out", "asleep", "woken"}]
  /\ seen \in [Threads -> 0 .. Width - 1]

\* The threads of the round in progress, and those of complete rounds.
Held  == {t \in Threads : pc[t] # "out" /\ seen[t] = generation}
Freed == {t \in Threads : pc[t] # "out" /\ seen[t] # generation}

\* No thread is left asleep in a round that is complete (threadbarrier.h:22-24).
NobodyOversleeps == \A t \in Freed : pc[t] # "asleep"

R == INSTANCE Rendezvous WITH arrived <- Held, released <- Freed, Parties <- Threshold

\* The barrier is a rendezvous: no thread returns before Threshold threads have
\* come to its round, none is counted in two rounds although some re-enter before
\* others have left, and all that are let go return (threadbarrier.h:16-33).
ImplementsRendezvous == R!FairSpec

\* Its safety part.
MeetsRendezvous == R!Spec

=============================================================================
