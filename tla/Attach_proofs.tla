---------------------------- MODULE Attach_proofs ----------------------------
(***************************************************************************)
(* Proofs about Attach, for any number of processes, semaphores, polls,    *)
(* crashes and refusals.                                                   *)
(***************************************************************************)
EXTENDS Attach, TLAPS

-----------------------------------------------------------------------------
\* The inductive invariant, in parts.

\* Where a process has a mapping the memory has its size, for good; only the one
\* process that is about to give it its size can still unlink it.
Memory ==
  /\ \A p \in Procs :
       /\ pc[p] = "truncate" => shm = "empty"
       /\ pc[p] \in {"storekey", "storecount", "load", "loadcount", "loadkey",
                     "semget", "free", "poll", "attached"} => shm = "sized"
  /\ \A p, q \in Procs : pc[p] = "truncate" /\ pc[q] = "truncate" => p = q

\* The key is stored before the count.  Whoever finds the count there can load the two
\* in any order and has the key.
Header ==
  /\ hcount # 0 => hkey
  /\ \A p \in Procs :
       /\ pc[p] = "storecount" => hkey
       /\ count[p] # 0 => hcount # 0
       /\ key[p] => hkey
       /\ pc[p] \in {"free", "poll"} => key[p] /\ set
       /\ pc[p] \in {"load", "loadcount", "loadkey", "semget"} => early[p] \/ hcount # 0
       /\ pc[p] \in {"loadcount", "semget"} => early[p] \/ key[p]
       /\ semid[p] # "none" => pc[p] = "attached"
  /\ AloneOnlyIfEarly

\* One process at most frees the semaphores, from the first to the last.
Freeing ==
  /\ ~set => \A i \in Index : val[i] = 0
  /\ \A p \in Procs : pc[p] = "free" => \A i \in Index : i >= tries[p] => val[i] = 0
  /\ \A p, q \in Procs : pc[p] = "free" /\ pc[q] = "free" => p = q
  /\ FreedOnce

\* Once the memory's creator has attached everything is in place, and whoever
\* opens the memory after that finds it so.
Latecomers ==
  /\ founded => shm = "sized" /\ hkey /\ hcount = Elements /\ set /\ otime
  /\ \A p \in Procs : late[p] =>
       /\ founded
       /\ pc[p] \in {"loadkey", "semget", "free", "poll", "attached"} => count[p] = Elements
       /\ pc[p] \in {"loadcount", "semget", "free", "poll", "attached"} => key[p]
  /\ LateIsSynchronised

IInv == TypeOK /\ Memory /\ Header /\ Freeing /\ Latecomers

-----------------------------------------------------------------------------
\* Every step keeps each part.

\* Types: the loop that frees the semaphores stays below the number of elements.
LEMMA TypesKept ==
  ASSUME IInv, NEW p \in Procs, Step(p) \/ TruncateFails(p) \/ Crash(p)
  PROVE  TypeOK'
<1> USE ConstantsAssumption DEF Goto, header, kernel, local, ghost, IInv, TypeOK,
          Header, AloneOnlyIfEarly
<1>1. CASE Create(p)
  BY <1>1 DEF Create
<1>2. CASE Open(p)
  BY <1>2 DEF Open
<1>3. CASE Truncate(p)
  BY <1>3 DEF Truncate
<1>4. CASE TruncateFails(p)
  BY <1>4 DEF TruncateFails
<1>5. CASE Map(p)
  BY <1>5 DEF Map
<1>6. CASE StoreKey(p)
  BY <1>6 DEF StoreKey
<1>7. CASE StoreCount(p)
  BY <1>7 DEF StoreCount
<1>8. CASE LoadCount(p)
  BY <1>8 DEF LoadCount
<1>9. CASE LoadKey(p)
  BY <1>9 DEF LoadKey
<1>10. CASE CreateSet(p)
  BY <1>10 DEF CreateSet, Index
<1>11. CASE OpenSet(p)
  BY <1>11 DEF OpenSet
<1>12. CASE SemGetFails(p) \/ OwnSet(p)
  BY <1>12 DEF SemGetFails, OwnSet, Attached
<1>13. CASE Free(p)
  <2>1. tries[p] \in Index /\ tries[p] + 1 \in Nat /\ Elements \in Nat
    BY <1>13 DEF Free, Index
  <2>2. /\ val' \in [Index -> Nat]
        /\ tries' \in [Procs -> Nat]
        /\ otime' = TRUE
        /\ UNCHANGED <<set, shm, hkey, hcount, made, key, count, crashes, refusals, late, early>>
    BY <1>13, <2>1 DEF Free, Attached
  <2>3. pc'[p] \in {"free", "attached"} /\ pc' = [pc EXCEPT ![p] = pc'[p]]
    BY <1>13 DEF Free, Attached
  <2>4. semid' \in [Procs -> {"none", "set", "own", "failed"}] /\ founded' \in BOOLEAN
    BY <1>13 DEF Free, Attached
  <2>5. pc'[p] = "free" => tries'[p] \in Index
    BY <1>13, <2>1 DEF Free, Attached, Index
  <2>6. \A q \in Procs : pc'[q] = "free" => tries'[q] \in Index
    BY <1>13, <2>3, <2>5 DEF Free
  <2>7. pc' \in [Procs -> {"start", "truncate", "map", "unlinked", "storekey", "storecount",
                           "load", "loadcount", "loadkey", "semget", "free", "poll",
                           "attached", "exited"}]
    BY <2>3
  <2>8. QED
    BY ZenonT(60), <2>2, <2>4, <2>6, <2>7
<1>14. CASE Poll(p)
  <2>1. tries' \in [Procs -> Nat]
    BY <1>14 DEF Poll
  <2>2. UNCHANGED <<shm, hkey, hcount, set, val, otime, made, key, count, crashes, refusals, late, early>>
    BY <1>14 DEF Poll, Attached
  <2>3. pc'[p] \in {"poll", "attached"} /\ pc' = [pc EXCEPT ![p] = pc'[p]]
    BY <1>14 DEF Poll, Attached
  <2>4. semid' \in [Procs -> {"none", "set", "own", "failed"}] /\ founded' \in BOOLEAN
    BY <1>14 DEF Poll, Attached
  <2>5. \A q \in Procs : pc'[q] = "free" => tries'[q] \in Index
    BY <1>14, <2>3 DEF Poll
  <2>6. pc' \in [Procs -> {"start", "truncate", "map", "unlinked", "storekey", "storecount",
                           "load", "loadcount", "loadkey", "semget", "free", "poll",
                           "attached", "exited"}]
    BY <2>3
  <2>7. QED
    BY ZenonT(60), <2>1, <2>2, <2>4, <2>5, <2>6
<1>15. CASE Crash(p)
  BY <1>15 DEF Crash
<1>16. QED
  BY <1>1, <1>2, <1>3, <1>4, <1>5, <1>6, <1>7, <1>8, <1>9, <1>10, <1>11, <1>12, <1>13, <1>14, <1>15 DEF Step

\* The object in /dev/shm (sharedmemory.cpp:39-96).
LEMMA MemoryKept ==
  ASSUME IInv, NEW p \in Procs, Step(p) \/ TruncateFails(p) \/ Crash(p)
  PROVE  Memory'
<1> USE ConstantsAssumption DEF Goto, header, kernel, local, ghost, IInv, TypeOK,
          Memory
<1>1. CASE Create(p)
  BY <1>1 DEF Create
<1>2. CASE Open(p)
  BY <1>2 DEF Open
<1>3. CASE Truncate(p)
  BY <1>3 DEF Truncate
<1>4. CASE TruncateFails(p)
  BY <1>4 DEF TruncateFails
<1>5. CASE Map(p)
  <2>1. UNCHANGED shm
    BY <1>5 DEF Map
  <2>2. \/ shm = "sized" /\ pc[p] = "map"
        \/ pc'[p] = "exited"
    BY <1>5 DEF Map
  <2>3. \A q \in Procs : q # p => pc'[q] = pc[q]
    BY <1>5 DEF Map
  <2>4. pc'[p] # "truncate"
    BY <1>5 DEF Map
  <2>5. QED
    BY <2>1, <2>2, <2>3, <2>4
<1>6. CASE StoreKey(p)
  BY <1>6 DEF StoreKey
<1>7. CASE StoreCount(p)
  BY <1>7 DEF StoreCount
<1>8. CASE LoadCount(p)
  BY <1>8 DEF LoadCount
<1>9. CASE LoadKey(p)
  BY <1>9 DEF LoadKey
<1>10. CASE CreateSet(p)
  BY <1>10 DEF CreateSet
<1>11. CASE OpenSet(p)
  BY <1>11 DEF OpenSet
<1>12. CASE SemGetFails(p) \/ OwnSet(p)
  BY <1>12 DEF SemGetFails, OwnSet, Attached
<1>13. CASE Free(p)
  BY <1>13 DEF Free, Attached
<1>14. CASE Poll(p)
  BY <1>14 DEF Poll, Attached
<1>15. CASE Crash(p)
  BY <1>15 DEF Crash
<1>16. QED
  BY <1>1, <1>2, <1>3, <1>4, <1>5, <1>6, <1>7, <1>8, <1>9, <1>10, <1>11, <1>12, <1>13, <1>14, <1>15 DEF Step

\* The two header fields (databuffer.cpp:50-100).
LEMMA HeaderKept ==
  ASSUME IInv, NEW p \in Procs, Step(p) \/ TruncateFails(p) \/ Crash(p)
  PROVE  Header'
<1> USE ConstantsAssumption DEF Goto, header, kernel, local, ghost, IInv, TypeOK,
          Header, AloneOnlyIfEarly, Memory
<1>1. CASE Create(p)
  BY <1>1 DEF Create
<1>2. CASE Open(p)
  BY <1>2 DEF Open
<1>3. CASE Truncate(p)
  BY <1>3 DEF Truncate
<1>4. CASE TruncateFails(p)
  BY <1>4 DEF TruncateFails
<1>5. CASE Map(p)
  <2>1. UNCHANGED <<hkey, hcount, count, key, semid, set>>
    BY <1>5 DEF Map
  <2>2. early' = [early EXCEPT ![p] = ~made[p] /\ hcount = 0]
    BY <1>5 DEF Map
  <2>3. \A q \in Procs \ {p} : early'[q] = early[q]
    BY <2>2
  <2>4. early'[p] = (~made[p] /\ hcount = 0)
    BY <2>2
  <2>5. \A q \in Procs \ {p} : pc'[q] = pc[q]
    BY <1>5 DEF Map
  <2>6. pc'[p] \in {"storekey", "load", "exited"} /\ (pc'[p] = "load" => ~made[p])
    BY <1>5 DEF Map
  <2>7. semid[p] = "none"
    BY <1>5 DEF Map
  <2>8. ASSUME NEW q \in Procs, q # p
        PROVE  /\ pc'[q] = "storecount" => hkey'
               /\ count'[q] # 0 => hcount' # 0
               /\ key'[q] => hkey'
               /\ pc'[q] \in {"free", "poll"} => key'[q] /\ set'
               /\ pc'[q] \in {"load", "loadcount", "loadkey", "semget"}
                    => early'[q] \/ hcount' # 0
               /\ pc'[q] \in {"loadcount", "semget"} => early'[q] \/ key'[q]
               /\ semid'[q] # "none" => pc'[q] = "attached"
               /\ semid'[q] = "own" => early'[q]
    BY <2>1, <2>3, <2>5, <2>8
  <2>9. /\ count'[p] # 0 => hcount' # 0
        /\ key'[p] => hkey'
        /\ pc'[p] = "load" => early'[p] \/ hcount' # 0
        /\ semid'[p] = "none"
    BY <2>1, <2>4, <2>6, <2>7
  <2>10. hcount' # 0 => hkey'
    BY <2>1
  <2>11. QED
    BY <2>6, <2>8, <2>9, <2>10
<1>6. CASE StoreKey(p)
  BY <1>6 DEF StoreKey
<1>7. CASE StoreCount(p)
  BY <1>7 DEF StoreCount
<1>8. CASE LoadCount(p)
  BY <1>8 DEF LoadCount
<1>9. CASE LoadKey(p)
  BY <1>9 DEF LoadKey
<1>10. CASE CreateSet(p)
  BY <1>10 DEF CreateSet
<1>11. CASE OpenSet(p)
  BY <1>11 DEF OpenSet
<1>12. CASE SemGetFails(p) \/ OwnSet(p)
  BY <1>12 DEF SemGetFails, OwnSet, Attached
<1>13. CASE Free(p)
  BY <1>13 DEF Free, Attached
<1>14. CASE Poll(p)
  BY <1>14 DEF Poll, Attached
<1>15. CASE Crash(p)
  BY <1>15 DEF Crash
<1>16. QED
  BY <1>1, <1>2, <1>3, <1>4, <1>5, <1>6, <1>7, <1>8, <1>9, <1>10, <1>11, <1>12, <1>13, <1>14, <1>15 DEF Step

\* The set and its values (semaphore_interface.cpp:51-73): semget with IPC_EXCL
\* lets one process in, once, and nobody follows it if it dies.
LEMMA FreeingKept ==
  ASSUME IInv, NEW p \in Procs, Step(p) \/ TruncateFails(p) \/ Crash(p)
  PROVE  Freeing'
<1> USE ConstantsAssumption DEF Goto, header, kernel, local, ghost, IInv, TypeOK,
          Freeing, FreedOnce
<1>1. CASE Create(p)
  BY <1>1 DEF Create
<1>2. CASE Open(p)
  BY <1>2 DEF Open
<1>3. CASE Truncate(p)
  BY <1>3 DEF Truncate
<1>4. CASE TruncateFails(p)
  BY <1>4 DEF TruncateFails
<1>5. CASE Map(p)
  BY <1>5 DEF Map
<1>6. CASE StoreKey(p)
  BY <1>6 DEF StoreKey
<1>7. CASE StoreCount(p)
  BY <1>7 DEF StoreCount
<1>8. CASE LoadCount(p)
  BY <1>8 DEF LoadCount
<1>9. CASE LoadKey(p)
  BY <1>9 DEF LoadKey
<1>10. CASE CreateSet(p)
  BY <1>10 DEF CreateSet, Index, Header
<1>11. CASE OpenSet(p)
  BY <1>11 DEF OpenSet
<1>12. CASE SemGetFails(p) \/ OwnSet(p)
  BY <1>12 DEF SemGetFails, OwnSet, Attached
<1>13. CASE Free(p)
  <2>1. pc[p] = "free" /\ tries[p] \in Index /\ set
    BY <1>13 DEF Free, Header
  <2>2. /\ val' = [val EXCEPT ![tries[p]] = @ + Elements]
        /\ UNCHANGED set
    BY <1>13 DEF Free
  <2>3. \A q \in Procs : pc'[q] = "free" => q = p /\ tries'[q] = tries[p] + 1
    BY <1>13, <2>1 DEF Free, Attached
  <2>4. val[tries[p]] = 0
    BY <2>1 DEF Index
  <2>5. FreedOnce'
    BY <2>1, <2>2, <2>4
  <2>6. \A i \in Index : i >= tries[p] + 1 => i # tries[p] /\ i >= tries[p]
    BY <2>1 DEF Index
  <2>7. \A i \in Index : i >= tries[p] + 1 => val'[i] = 0
    BY <2>1, <2>2, <2>6
  <2>8. \A q \in Procs : pc'[q] = "free" => \A i \in Index : i >= tries'[q] => val'[i] = 0
    BY <2>3, <2>7
  <2>9. \A q, r \in Procs : pc'[q] = "free" /\ pc'[r] = "free" => q = r
    BY <2>3
  <2>10. \A q \in Procs : pc'[q] = "free" => set'
    BY <2>1, <2>2
  <2>11. ~set' => \A i \in Index : val'[i] = 0
    BY <2>1, <2>2
  <2>12. QED
    BY <2>5, <2>8, <2>9, <2>10, <2>11
<1>14. CASE Poll(p)
  <2>1. UNCHANGED <<set, val>>
    BY <1>14 DEF Poll
  <2>2. \A q \in Procs : pc'[q] = "free" => pc[q] = "free" /\ tries'[q] = tries[q]
    BY <1>14 DEF Poll, Attached
  <2>3. QED
    BY <2>1, <2>2
<1>15. CASE Crash(p)
  BY <1>15 DEF Crash
<1>16. QED
  BY <1>1, <1>2, <1>3, <1>4, <1>5, <1>6, <1>7, <1>8, <1>9, <1>10, <1>11, <1>12, <1>13, <1>14, <1>15 DEF Step

\* What a process finds that opens the memory after its creator has attached.
LEMMA LatecomersKept ==
  ASSUME IInv, NEW p \in Procs, Step(p) \/ TruncateFails(p) \/ Crash(p)
  PROVE  Latecomers'
<1> USE ConstantsAssumption DEF Goto, header, kernel, local, ghost, IInv, TypeOK,
          Latecomers, LateIsSynchronised, Synchronised, Header, Memory, AloneOnlyIfEarly
<1>1. CASE Create(p)
  BY <1>1 DEF Create
<1>2. CASE Open(p)
  BY <1>2 DEF Open
<1>3. CASE Truncate(p)
  BY <1>3 DEF Truncate
<1>4. CASE TruncateFails(p)
  BY <1>4 DEF TruncateFails
<1>5. CASE Map(p)
  BY <1>5 DEF Map
<1>6. CASE StoreKey(p)
  BY <1>6 DEF StoreKey
<1>7. CASE StoreCount(p)
  BY <1>7 DEF StoreCount
<1>8. CASE LoadCount(p)
  BY <1>8 DEF LoadCount
<1>9. CASE LoadKey(p)
  BY <1>9 DEF LoadKey
<1>10. CASE CreateSet(p)
  BY <1>10 DEF CreateSet
<1>11. CASE OpenSet(p)
  BY <1>11 DEF OpenSet
<1>12. CASE SemGetFails(p) \/ OwnSet(p)
  BY <1>12 DEF SemGetFails, OwnSet, Attached
<1>13. CASE Free(p)
  BY <1>13 DEF Free, Attached
<1>14. CASE Poll(p)
  BY <1>14 DEF Poll, Attached
<1>15. CASE Crash(p)
  BY <1>15 DEF Crash
<1>16. QED
  BY <1>1, <1>2, <1>3, <1>4, <1>5, <1>6, <1>7, <1>8, <1>9, <1>10, <1>11, <1>12, <1>13, <1>14, <1>15 DEF Step

-----------------------------------------------------------------------------
\* The theorems.

\* Before any process has started there is nothing.
LEMMA InitIInv == Init => IInv
<1> SUFFICES ASSUME Init
             PROVE  IInv
  OBVIOUS
<1> USE DEF Init
<1>1. TypeOK
  <2>1. crashes \in 0 .. MaxCrashes /\ refusals \in 0 .. MaxRefusals
    BY ConstantsAssumption
  <2>2. QED
    BY <2>1 DEF TypeOK
<1>2. Memory /\ Header
  BY DEF Memory, Header, AloneOnlyIfEarly
<1>3. Freeing /\ Latecomers
  BY DEF Freeing, FreedOnce, Latecomers, LateIsSynchronised
<1>4. QED
  BY <1>1, <1>2, <1>3 DEF IInv

\* The invariant from which the theorems below follow.
THEOREM Invariance == Spec => []IInv
<1>1. IInv /\ [Next]_vars => IInv'
  <2> SUFFICES ASSUME IInv, [Next]_vars
               PROVE  IInv'
    OBVIOUS
  <2>1. CASE UNCHANGED vars
    BY <2>1 DEF vars, IInv, TypeOK, Memory, Header, AloneOnlyIfEarly, Freeing, FreedOnce,
                Latecomers, LateIsSynchronised, Synchronised
  <2>2. ASSUME NEW p \in Procs, Step(p) \/ TruncateFails(p) \/ Crash(p)
        PROVE  IInv'
    BY <2>2, TypesKept, MemoryKept, HeaderKept, FreeingKept, LatecomersKept DEF IInv
  <2>3. QED
    BY <2>1, <2>2 DEF Next
<1>2. QED
  BY InitIInv, <1>1, PTL DEF Spec

\* Every variable keeps its type, and semop is given semaphores of the set only.
THEOREM TypeCorrect == Spec => []TypeOK
<1>1. IInv => TypeOK
  BY DEF IInv
<1>2. QED
  BY <1>1, Invariance, PTL

\* However many processes race to create the set, and wherever they die, no
\* semaphore gets its units twice (semaphore_interface.cpp:51-73).
THEOREM InitialisedOnce == Spec => []FreedOnce
<1>1. IInv => FreedOnce
  BY DEF IInv, Freeing
<1>2. QED
  BY <1>1, Invariance, PTL

\* Whatever the compiler makes of the order of the two loads, a process that does not
\* map the memory while its header is being written is never left alone on a set of its
\* own (databuffer.cpp:50-63, 82, 99).
THEOREM OnlyEarlyAlone == Spec => []AloneOnlyIfEarly
<1>1. IInv => AloneOnlyIfEarly
  BY DEF IInv, Header
<1>2. QED
  BY <1>1, Invariance, PTL

\* Whoever opens the memory after its creator has attached ends up on the same
\* semaphores, whatever fails meanwhile (databuffer.cpp:85-100).
THEOREM LatecomersSynchronised == Spec => []LateIsSynchronised
<1>1. IInv => LateIsSynchronised
  BY DEF IInv, Latecomers
<1>2. QED
  BY <1>1, Invariance, PTL

=============================================================================
