---------------------------- MODULE SemaphoreSet ----------------------------
(***************************************************************************)
(* The System V semaphore set that guards the elements of a data buffer:   *)
(* class Semaphore (src/src/semaphore.cpp) on top of semaphore_interface   *)
(* (src/src/semaphore_interface.cpp), once the set is initialised.         *)
(*                                                                         *)
(* Every operation is issued with SEM_UNDO, so the kernel keeps, for each  *)
(* process and semaphore, the adjustment it applies when the process ends. *)
(* The set has one semaphore per element and each starts at the number of  *)
(* elements (the "nsems" of init); a reader takes one unit, a writer all.  *)
(***************************************************************************)
EXTENDS Integers, FiniteSets

CONSTANTS Elements,  \* m_header->elements: semaphores in the set, units in each
          Procs      \* the processes that use the set

ASSUME ElementsAssumption == Elements \in Nat /\ Elements >= 2
ASSUME ProcsAssumption    == IsFiniteSet(Procs)

VARIABLES sem,       \* sem[i]: value of semaphore i
          undo       \* undo[p][i]: what the exit of p adds to semaphore i

semVars == <<sem, undo>>

Index == 0 .. Elements - 1

SemInit ==
  /\ sem  = [i \in Index |-> Elements]
  /\ undo = [p \in Procs |-> [i \in Index |-> 0]]

GetVal(i) == sem[i]

\* A semop(-k) issued without SEM_UNDO: a faulty variant of SemWait.
SemWaitNoUndo(p, i, k) ==
  /\ sem[i] >= k
  /\ sem' = [sem EXCEPT ![i] = @ - k]
  /\ UNCHANGED undo

\* semop(-k) succeeds: the caller sleeps until the value allows it.
SemWait(p, i, k) ==
  /\ sem[i] >= k
  /\ sem'  = [sem EXCEPT ![i] = @ - k]
  /\ undo' = [undo EXCEPT ![p][i] = @ + k]

\* semop(-k) returns -1 to a sleeping caller (a signal handler ran): the error
\* is printed and the caller goes on, with nothing taken.
SemWaitFails(i, k) ==
  /\ sem[i] < k
  /\ UNCHANGED semVars

\* A semop(+k) issued without SEM_UNDO: a faulty variant of SemPost.
SemPostNoUndo(p, i, k) ==
  /\ sem' = [sem EXCEPT ![i] = @ + k]
  /\ UNCHANGED undo

SemPost(p, i, k) ==
  /\ sem'  = [sem EXCEPT ![i] = @ + k]
  /\ undo' = [undo EXCEPT ![p][i] = @ - k]

\* The kernel at the end of p: adjustments are applied, never below zero.
SemExit(p) ==
  /\ sem'  = [i \in Index |-> IF sem[i] + undo[p][i] < 0
                              THEN 0 ELSE sem[i] + undo[p][i]]
  /\ undo' = [undo EXCEPT ![p] = [i \in Index |-> 0]]

-----------------------------------------------------------------------------
\* Class Semaphore.  m_count is Elements and every caller passes an index below
\* it, so the "id < m_count" guards are always true.

WaitOne(p, i) == SemWait(p, i, 1)

\* A faulty variant of WaitAll: the writer takes a single unit.
WaitAllTakesOne(p, i) == SemWait(p, i, 1)

WaitAll(p, i) == SemWait(p, i, Elements)

PostOne(p, i) == SemPost(p, i, 1)

PostAll(p, i) == SemPost(p, i, Elements)

-----------------------------------------------------------------------------
\* Properties, of every system that uses the set with these operations.

\* The units outstanding on semaphore i, as the kernel has them on record.
Outstanding(i) ==
  {u \in Procs \X (1 .. Elements) : u[2] <= undo[u[1]][i]}

\* Units are neither lost nor made up: the value of a semaphore and what the
\* exits of all processes would return to it add up to the initial value, so
\* that no order of crashes leaves an element locked (SEM_UNDO on lines 112, 125
\* of semaphore_interface.cpp and the pairing of waits and posts in databuffer.cpp).
UnitsConserved ==
  \A i \in Index : sem[i] + Cardinality(Outstanding(i)) = Elements

\* An interrupted wait makes units up, and a later exit takes some back; however
\* the two fall, none is lost: no element ends up locked by nobody, the damage
\* is only that it is lent too often (semaphore_interface.cpp:114-117, 127-130).
NoUnitLost ==
  \A i \in Index : sem[i] + Cardinality(Outstanding(i)) >= Elements

=============================================================================
