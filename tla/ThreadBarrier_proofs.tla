------------------------ MODULE ThreadBarrier_proofs ------------------------
(***************************************************************************)
(* Proofs about ThreadBarrier, for any threshold and any set of threads;   *)
(* the refinement for as many threads as parties, where it needs no more   *)
(* than two values of the generation.                                      *)
(***************************************************************************)
EXTENDS ThreadBarrier, FiniteSetTheorems, TLAPS

\* One round later is another round.
LEMMA IncrementDiffers ==
  ASSUME NEW g \in 0 .. Width - 1
  PROVE  Increment(g) \in 0 .. Width - 1 /\ Increment(g) # g
BY WidthAssumption DEF Increment

-----------------------------------------------------------------------------
\* For any number of threads.

\* m_count stays between one and the threshold, every step (threadbarrier.h:20-23).
LEMMA StepTypeOK == TypeOK /\ [Next]_vars => TypeOK'
<1> SUFFICES ASSUME TypeOK, [Next]_vars
             PROVE  TypeOK'
  OBVIOUS
<1> USE ThresholdAssumption, WidthAssumption DEF TypeOK
<1>1. ASSUME NEW t \in Threads, Enter(t)
      PROVE  TypeOK'
  BY <1>1 DEF Enter
<1>2. ASSUME NEW t \in Threads, Last(t)
      PROVE  TypeOK'
  BY <1>2, IncrementDiffers DEF Last
<1>3. ASSUME NEW t \in Threads, WakeSpuriously(t)
      PROVE  TypeOK'
  BY <1>3 DEF WakeSpuriously
<1>4. ASSUME NEW t \in Threads, Recheck(t)
      PROVE  TypeOK'
  BY <1>4 DEF Recheck
<1>5. CASE UNCHANGED vars
  BY <1>5 DEF vars
<1>6. QED
  BY <1>1, <1>2, <1>3, <1>4, <1>5 DEF Next

\* Every variable keeps its type; in particular m_count never wraps below zero.
THEOREM TypeCorrect == Spec => []TypeOK
<1>1. Init => TypeOK
  BY ThresholdAssumption, WidthAssumption DEF Init, TypeOK
<1>2. QED
  BY <1>1, StepTypeOK, PTL DEF Spec

\* Whoever sleeps after a step sleeps in the round in progress: a step that completes
\* a round leaves nobody asleep (notify_all), and one falls asleep only with the
\* current generation in hand (threadbarrier.h:19, 22-24, 28-31).
LEMMA SleepsInRound ==
  ASSUME TypeOK, NobodyOversleeps, [Next]_vars,
         NEW u \in Threads, pc'[u] = "asleep"
  PROVE  seen'[u] = generation'
<1>1. \A t \in Threads : ~Last(t)
  BY DEF Last, TypeOK
<1>2. UNCHANGED generation
  BY <1>1 DEF Next, Enter, WakeSpuriously, Recheck, vars
<1>3. \/ pc[u] = "asleep" /\ UNCHANGED seen[u]
      \/ Enter(u)
      \/ Recheck(u) /\ generation = seen[u]
  <2>1. CASE UNCHANGED vars
    BY <2>1 DEF vars
  <2>2. ASSUME NEW t \in Threads, Enter(t) \/ WakeSpuriously(t) \/ Recheck(t), t # u
        PROVE  UNCHANGED <<pc[u], seen[u]>>
    BY <2>2 DEF Enter, WakeSpuriously, Recheck, TypeOK
  <2>3. ~WakeSpuriously(u)
    BY DEF WakeSpuriously, TypeOK
  <2>4. Recheck(u) => generation = seen[u]
    BY DEF Recheck, TypeOK
  <2>5. QED
    BY <1>1, <2>1, <2>2, <2>3, <2>4 DEF Next
<1>4. CASE pc[u] = "asleep" /\ UNCHANGED seen[u]
  BY <1>2, <1>4 DEF NobodyOversleeps, Freed
<1>5. CASE Enter(u)
  BY <1>5 DEF Enter, TypeOK
<1>6. CASE Recheck(u) /\ generation = seen[u]
  BY <1>6 DEF Recheck
<1>7. QED
  BY <1>3, <1>4, <1>5, <1>6

\* Nobody is left asleep in a complete round, however many threads share the
\* barrier and however often the generation has wrapped (threadbarrier.h:22-31).
THEOREM EveryoneWoken == Spec => []NobodyOversleeps
<1>1. Init => NobodyOversleeps
  BY DEF Init, NobodyOversleeps, Freed
<1>2. TypeOK /\ NobodyOversleeps /\ [Next]_vars => NobodyOversleeps'
  BY SleepsInRound DEF NobodyOversleeps, Freed
<1>3. QED
  BY <1>1, <1>2, TypeCorrect, PTL DEF Spec

-----------------------------------------------------------------------------
\* For as many threads as parties: the barrier is a rendezvous.

OnePerParty == Cardinality(Threads) = Threshold

\* m_count says how many are still missing from the round.
IInv == TypeOK /\ count + Cardinality(Held) = Threshold

\* The threads held are finitely many.
LEMMA HeldFinite == IsFiniteSet(Held) /\ Cardinality(Held) \in Nat
<1>1. Held \subseteq Threads
  BY DEF Held
<1>2. QED
  BY <1>1, ThreadsAssumption, FS_Subset, FS_CardinalityType

\* One more thread is held.
LEMMA EnterHeld ==
  ASSUME IInv, NEW t \in Threads, Enter(t)
  PROVE  /\ t \notin Held
         /\ Held'  = Held \cup {t}
         /\ Freed' = Freed
         /\ t \notin Freed
         /\ Cardinality(Held') = Cardinality(Held) + 1
<1>1. t \notin Held /\ t \notin Freed
  BY DEF Enter, Held, Freed
<1>2. Held' = Held \cup {t} /\ Freed' = Freed
  BY DEF Enter, Held, Freed, IInv, TypeOK
<1>3. QED
  BY <1>1, <1>2, HeldFinite, FS_AddElement

\* The last of a round finds all others held, and nobody is when it is done:
\* no thread is so late that it could take the next round for its own.
LEMMA LastHeld ==
  ASSUME IInv, OnePerParty, NEW t \in Threads, Last(t)
  PROVE  /\ t \notin Held /\ t \notin Freed
         /\ Cardinality(Held) + 1 = Threshold
         /\ Freed  = {}
         /\ Held'  = {}
         /\ Freed' = Held
<1>1. t \notin Held /\ t \notin Freed
  BY DEF Last, Held, Freed
<1>2. Cardinality(Held) + 1 = Threshold
  BY HeldFinite, ThresholdAssumption DEF Last, IInv, TypeOK
<1>3. Held \cup {t} = Threads
  <2>1. Cardinality(Held \cup {t}) = Cardinality(Threads)
    BY <1>1, <1>2, HeldFinite, FS_AddElement DEF OnePerParty
  <2>2. Held \cup {t} \subseteq Threads
    BY DEF Held
  <2>3. QED
    BY <2>1, <2>2, ThreadsAssumption, FS_Subset
<1>4. Freed = {}
  BY <1>1, <1>3 DEF Held, Freed
<1>5. \A u \in Threads : pc[u] # "out" => u \in Held /\ seen[u] = generation
  BY <1>3 DEF Held, Last
<1>6. generation' # generation
  BY IncrementDiffers DEF Last, IInv, TypeOK
<1>7. /\ pc'[t] = "out"
      /\ \A u \in Threads : u # t => seen'[u] = seen[u]
      /\ \A u \in Threads : pc'[u] = "out" <=> pc[u] = "out"
  BY DEF Last, IInv, TypeOK
<1>8. Held' = {} /\ Freed' = Held
  BY <1>1, <1>3, <1>5, <1>6, <1>7 DEF Held, Freed
<1>9. QED
  BY <1>1, <1>2, <1>4, <1>8

\* A thread that is woken leaves if its round is complete and changes nothing else.
LEMMA WakeHeld ==
  ASSUME IInv, NEW t \in Threads, WakeSpuriously(t) \/ Recheck(t)
  PROVE  /\ Held' = Held
         /\ Freed' = Freed \/ (t \in Freed /\ Freed' = Freed \ {t})
<1>1. CASE WakeSpuriously(t)
  BY <1>1 DEF WakeSpuriously, Held, Freed, IInv, TypeOK
<1>2. CASE Recheck(t)
  BY <1>2 DEF Recheck, Held, Freed, IInv, TypeOK
<1>3. QED
  BY <1>1, <1>2

\* The count is right after every step.
LEMMA StepIInv == OnePerParty /\ IInv /\ [Next]_vars => IInv'
<1> SUFFICES ASSUME OnePerParty, IInv, [Next]_vars
             PROVE  count' + Cardinality(Held') = Threshold
  BY StepTypeOK DEF IInv
<1>1. ASSUME NEW t \in Threads, Enter(t)
      PROVE  count' + Cardinality(Held') = Threshold
  <2>1. Cardinality(Held') = Cardinality(Held) + 1
    BY <1>1, EnterHeld
  <2>2. count' = count - 1 /\ count \in Nat /\ count + Cardinality(Held) = Threshold
    BY <1>1, ThresholdAssumption DEF Enter, IInv, TypeOK
  <2>3. QED
    BY <2>1, <2>2, HeldFinite
<1>2. ASSUME NEW t \in Threads, Last(t)
      PROVE  count' + Cardinality(Held') = Threshold
  <2>1. Cardinality(Held') = 0
    BY <1>2, LastHeld, FS_EmptySet
  <2>2. count' = Threshold
    BY <1>2 DEF Last
  <2>3. QED
    BY <2>1, <2>2, ThresholdAssumption
<1>3. ASSUME NEW t \in Threads, WakeSpuriously(t) \/ Recheck(t)
      PROVE  count' + Cardinality(Held') = Threshold
  <2>1. UNCHANGED count
    BY <1>3 DEF WakeSpuriously, Recheck
  <2>2. QED
    BY <1>3, <2>1, WakeHeld DEF IInv
<1>4. CASE UNCHANGED vars
  BY <1>4 DEF vars, Held, IInv
<1>5. QED
  BY <1>1, <1>2, <1>3, <1>4 DEF Next

\* The abstract specification counts as this one does.
LEMMA SameCardinality == \A S : R!Cardinality(S) = Cardinality(S)
BY DEF R!Cardinality, Cardinality

\* Threads leave a round together, after as many as the barrier is for have come
\* to it, and none is counted in two rounds, even if the generation wraps after
\* two (threadbarrier.h:16-33): the barrier implements the abstract rendezvous.
THEOREM Refinement == ASSUME OnePerParty
                      PROVE  Spec => MeetsRendezvous
<1>1. Init => IInv /\ R!Init
  <2> SUFFICES ASSUME Init
               PROVE  IInv /\ R!Init
    OBVIOUS
  <2>1. Held = {} /\ Freed = {}
    BY DEF Init, Held, Freed
  <2>2. TypeOK
    BY ThresholdAssumption, WidthAssumption DEF Init, TypeOK
  <2>3. QED
    BY <2>1, <2>2, FS_EmptySet, ThresholdAssumption DEF Init, IInv, R!Init
<1>2. IInv /\ [Next]_vars => [R!Next]_(R!vars)
  <2> SUFFICES ASSUME IInv, [Next]_vars
               PROVE  [R!Next]_(R!vars)
    OBVIOUS
  <2>1. ASSUME NEW t \in Threads, Enter(t)
        PROVE  R!Arrive(t)
    <3>1. Cardinality(Held) + 1 < Threshold
      BY <2>1, HeldFinite, ThresholdAssumption DEF Enter, IInv, TypeOK
    <3>2. QED
      BY <2>1, <3>1, EnterHeld, SameCardinality DEF R!Arrive
  <2>2. ASSUME NEW t \in Threads, Last(t)
        PROVE  R!Complete(t)
    BY <2>2, LastHeld, SameCardinality DEF R!Complete
  <2>3. ASSUME NEW t \in Threads, WakeSpuriously(t) \/ Recheck(t)
        PROVE  R!Return(t) \/ UNCHANGED R!vars
    BY <2>3, WakeHeld DEF R!Return, R!vars
  <2>4. CASE UNCHANGED vars
    BY <2>4 DEF vars, R!vars, Held, Freed
  <2>5. QED
    BY <2>1, <2>2, <2>3, <2>4 DEF Next, R!Next
<1>3. OnePerParty
  OBVIOUS
<1>4. IInv /\ [Next]_vars => IInv'
  BY <1>3, StepIInv
<1>5. QED
  BY <1>1, <1>2, <1>4, PTL DEF Spec, MeetsRendezvous, R!Spec

=============================================================================
