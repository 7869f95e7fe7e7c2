------------------------------- MODULE Attach -------------------------------
(***************************************************************************)
(* How processes come to share a buffer: the two constructors of           *)
(* DataBuffer (src/src/databuffer.cpp), SharedMemory::init, open, mapWrite *)
(* (src/src/sharedmemory.cpp) and semaphore_interface::init                *)
(* (src/src/semaphore_interface.cpp), run by several processes at once.    *)
(*                                                                         *)
(* Each action is one system call or one access to the shared header.      *)
(* sem_key is stored before elements (lines 58, 62).  They are loaded for  *)
(* the arguments of a call (lines 82, 99), whose order C++ leaves to the   *)
(* compiler: gcc takes the last first, clang the first.  The model has     *)
(* both, for each process anew.                                            *)
(***************************************************************************)
EXTENDS Integers

CONSTANTS Procs,
          Creators,   \* those that call the constructor with a size (a Writer)
          Elements,   \* semaphores in the set, and units of each
          Polls,      \* how often sem_otime is looked at (10 in the code)
          MaxCrashes, \* processes that die and are started again
          MaxRefusals \* ftruncate calls that fail

ASSUME ConstantsAssumption ==
  /\ Creators \subseteq Procs
  /\ Elements \in Nat /\ Elements >= 2
  /\ Polls \in Nat \ {0} /\ MaxCrashes \in Nat /\ MaxRefusals \in Nat

VARIABLES shm,       \* the object in /dev/shm: absent, empty (size 0) or sized
          hkey,      \* m_header->sem_key has been stored (0 is IPC_PRIVATE)
          hcount,    \* m_header->elements
          set,       \* the semaphore set of that key exists
          val,       \* its values
          otime,     \* its sem_otime is not 0
          pc,
          made,      \* m_created
          count,     \* Semaphore::m_count
          key,       \* the sem_key read is the stored one
          semid,     \* Semaphore::m_semid
          tries,     \* the loop counter of init: semaphores freed, or polls
          crashes, refusals,
          founded,   \* history: whoever created the memory has attached
          late,      \* history: the process opened the memory after that
          early      \* history: it mapped the memory before its header was written

vars == <<shm, hkey, hcount, set, val, otime, pc, made, count, key, semid, tries,
          crashes, refusals, founded, late, early>>

header == <<hkey, hcount>>
kernel == <<set, val, otime>>
local  == <<made, count, key, semid, tries>>
ghost  == <<crashes, refusals, founded, late, early>>

Index == 0 .. Elements - 1

Init ==
  /\ shm = "absent" /\ hkey = FALSE /\ hcount = 0
  /\ set = FALSE /\ val = [i \in Index |-> 0] /\ otime = FALSE
  /\ pc    = [p \in Procs |-> "start"]
  /\ made  = [p \in Procs |-> FALSE]
  /\ count = [p \in Procs |-> 0]
  /\ key   = [p \in Procs |-> FALSE]
  /\ semid = [p \in Procs |-> "none"]
  /\ tries = [p \in Procs |-> 0]
  /\ crashes = 0 /\ refusals = 0 /\ founded = FALSE
  /\ late  = [p \in Procs |-> FALSE]
  /\ early = [p \in Procs |-> FALSE]

Goto(p, from, to) ==
  /\ pc[p] = from
  /\ pc' = [pc EXCEPT ![p] = to]

-----------------------------------------------------------------------------
\* The memory.

\* shm_open with O_CREAT and O_EXCL succeeds.
Create(p) ==
  /\ p \in Creators /\ shm = "absent"
  /\ Goto(p, "start", "truncate")
  /\ shm'  = "empty"
  /\ made' = [made EXCEPT ![p] = TRUE]
  /\ UNCHANGED <<header, kernel, count, key, semid, tries, ghost>>

\* The memory is there: EEXIST and shm_open again, or the retry loop ends.
Open(p) ==
  /\ shm # "absent"
  /\ Goto(p, "start", "map")
  /\ late' = [late EXCEPT ![p] = founded]
  /\ UNCHANGED <<shm, header, kernel, local, crashes, refusals, founded, early>>

Truncate(p) ==
  /\ Goto(p, "truncate", "map")
  /\ shm' = "sized"
  /\ UNCHANGED <<header, kernel, local, ghost>>

\* ftruncate fails: the name is unlinked and the process exits; whoever has the
\* object open keeps it, empty for ever.
TruncateFails(p) ==
  /\ pc[p] = "truncate" /\ refusals < MaxRefusals
  /\ pc'  = [q \in Procs |-> IF q = p THEN "exited"
                             ELSE IF pc[q] = "map" THEN "unlinked" ELSE pc[q]]
  /\ shm' = "absent"
  /\ refusals' = refusals + 1
  /\ UNCHANGED <<header, kernel, local, crashes, founded, late, early>>

\* fstat and mmap with the size found; a mapping of no bytes is refused: exit(1).
Map(p) ==
  /\ \/ shm = "sized" /\ Goto(p, "map", IF made[p] THEN "storekey" ELSE "load")
     \/ shm # "sized" /\ Goto(p, "map", "exited")
     \/ Goto(p, "unlinked", "exited")
  /\ early' = [early EXCEPT ![p] = ~made[p] /\ hcount = 0]
  /\ UNCHANGED <<shm, header, kernel, local, crashes, refusals, founded, late>>

-----------------------------------------------------------------------------
\* The header.

\* A faulty variant of StoreKey: the element count is stored first.
StoreCountFirst(p) ==
  /\ Goto(p, "storekey", "storecount")
  /\ hcount' = Elements
  /\ UNCHANGED <<shm, hkey, kernel, local, ghost>>

StoreKey(p) ==
  /\ Goto(p, "storekey", "storecount")
  /\ hkey' = TRUE
  /\ UNCHANGED <<shm, hcount, kernel, local, ghost>>

\* elements, elem_size and the info of each element.
StoreCount(p) ==
  /\ Goto(p, "storecount", "load")
  /\ hcount' = Elements
  /\ UNCHANGED <<shm, hkey, kernel, local, ghost>>

\* The two loads, in either order.
LoadCount(p) ==
  /\ Goto(p, "load", "loadkey") \/ Goto(p, "loadcount", "semget")
  /\ count' = [count EXCEPT ![p] = hcount]
  /\ UNCHANGED <<shm, header, kernel, made, key, semid, tries, ghost>>

LoadKey(p) ==
  /\ Goto(p, "load", "loadcount") \/ Goto(p, "loadkey", "semget")
  /\ key' = [key EXCEPT ![p] = hkey]
  /\ UNCHANGED <<shm, header, kernel, made, count, semid, tries, ghost>>

-----------------------------------------------------------------------------
\* The semaphore set.

\* A constructor returns with m_semid at id.
Attached(p, from, id) ==
  /\ Goto(p, from, "attached")
  /\ semid'   = [semid EXCEPT ![p] = id]
  /\ founded' = (founded \/ (made[p] /\ id = "set" /\ count[p] = Elements))
  /\ UNCHANGED <<shm, header, made, count, key, crashes, refusals, late, early>>

\* A faulty variant of CreateSet: semget without IPC_EXCL.
CreateSetAnyway(p) ==
  /\ key[p] /\ count[p] # 0
  /\ Goto(p, "semget", "free")
  /\ set'   = TRUE
  /\ tries' = [tries EXCEPT ![p] = 0]
  /\ UNCHANGED <<shm, header, val, otime, made, count, key, semid, ghost>>

\* semget creates the set, all values and sem_otime at 0.
CreateSet(p) ==
  /\ key[p] /\ ~set /\ count[p] # 0
  /\ Goto(p, "semget", "free")
  /\ set'   = TRUE
  /\ tries' = [tries EXCEPT ![p] = 0]
  /\ UNCHANGED <<shm, header, val, otime, made, count, key, semid, ghost>>

\* EEXIST: the set is opened, sem_otime will be polled.
OpenSet(p) ==
  /\ key[p] /\ set
  /\ Goto(p, "semget", "poll")
  /\ tries' = [tries EXCEPT ![p] = 0]
  /\ UNCHANGED <<shm, header, kernel, made, count, key, semid, ghost>>

\* A set of no semaphores cannot be created: EINVAL, which nobody looks at.
SemGetFails(p) ==
  /\ count[p] = 0 /\ (~key[p] \/ ~set)
  /\ Attached(p, "semget", "failed")
  /\ UNCHANGED <<kernel, tries>>

\* With the key at 0, IPC_PRIVATE, a set that nobody else can find is created and freed.
OwnSet(p) ==
  /\ ~key[p] /\ count[p] # 0
  /\ Attached(p, "semget", "own")
  /\ UNCHANGED <<kernel, tries>>

\* A faulty variant of Free: semctl(SETVAL) does not set sem_otime.
FreeBySetVal(p) ==
  /\ pc[p] = "free"
  /\ val'   = [val EXCEPT ![tries[p]] = Elements]
  /\ tries' = [tries EXCEPT ![p] = @ + 1]
  /\ \/ /\ tries[p] + 1 < Elements
        /\ Goto(p, "free", "free")
        /\ UNCHANGED <<shm, header, made, count, key, semid, ghost>>
     \/ /\ tries[p] + 1 = Elements
        /\ Attached(p, "free", "set")
  /\ UNCHANGED <<set, otime>>

\* A faulty variant of Free: the loop runs to nsems inclusive.
FreeOnePast(p) ==
  /\ pc[p] = "free"
  /\ val'   = [i \in Index |-> IF i = tries[p] THEN val[i] + Elements ELSE val[i]]
  /\ otime' = TRUE
  /\ tries' = [tries EXCEPT ![p] = @ + 1]
  /\ \/ /\ tries[p] + 1 <= Elements
        /\ Goto(p, "free", "free")
        /\ UNCHANGED <<shm, header, made, count, key, semid, ghost>>
     \/ /\ tries[p] + 1 > Elements
        /\ Attached(p, "free", "set")
  /\ UNCHANGED set

\* One round of the loop that frees the semaphores, without SEM_UNDO.
Free(p) ==
  /\ pc[p] = "free"
  /\ val'   = [val EXCEPT ![tries[p]] = @ + Elements]
  /\ otime' = TRUE
  /\ tries' = [tries EXCEPT ![p] = @ + 1]
  /\ \/ /\ tries[p] + 1 < Elements
        /\ Goto(p, "free", "free")
        /\ UNCHANGED <<shm, header, made, count, key, semid, ghost>>
     \/ /\ tries[p] + 1 = Elements
        /\ Attached(p, "free", "set")
  /\ UNCHANGED set

\* A faulty variant of Poll: the rounds are not counted.
PollForever(p) ==
  /\ \/ /\ otime
        /\ Attached(p, "poll", "set")
     \/ /\ ~otime
        /\ Goto(p, "poll", "poll")
        /\ UNCHANGED <<shm, header, made, count, key, semid, ghost>>
  /\ UNCHANGED <<kernel, tries>>

\* One round of the wait for sem_otime; after the last, ETIME and no set at all.
Poll(p) ==
  /\ tries' = [tries EXCEPT ![p] = @ + 1]
  /\ \/ /\ otime
        /\ Attached(p, "poll", "set")
     \/ /\ ~otime /\ tries[p] + 1 < Polls
        /\ Goto(p, "poll", "poll")
        /\ UNCHANGED <<shm, header, made, count, key, semid, ghost>>
     \/ /\ ~otime /\ tries[p] + 1 = Polls
        /\ Attached(p, "poll", "failed")
  /\ UNCHANGED kernel

-----------------------------------------------------------------------------
\* The process dies, and another is started in its place.
Crash(p) ==
  /\ pc[p] # "start" /\ crashes < MaxCrashes
  /\ pc'    = [pc    EXCEPT ![p] = "start"]
  /\ made'  = [made  EXCEPT ![p] = FALSE]
  /\ count' = [count EXCEPT ![p] = 0]
  /\ key'   = [key   EXCEPT ![p] = FALSE]
  /\ semid' = [semid EXCEPT ![p] = "none"]
  /\ tries' = [tries EXCEPT ![p] = 0]
  /\ crashes' = crashes + 1
  /\ UNCHANGED <<shm, header, kernel, refusals, founded, late, early>>

Step(p) ==
  \/ Create(p) \/ Open(p) \/ Truncate(p) \/ Map(p)
  \/ StoreKey(p) \/ StoreCount(p) \/ LoadCount(p) \/ LoadKey(p)
  \/ CreateSet(p) \/ OpenSet(p) \/ OwnSet(p) \/ SemGetFails(p) \/ Free(p) \/ Poll(p)

Next == \E p \in Procs : Step(p) \/ TruncateFails(p) \/ Crash(p)

Spec == Init /\ [][Next]_vars

\* A constructor is straight-line code, its process keeps running.
FairSpec == Spec /\ \A p \in Procs : WF_vars(Step(p))

-----------------------------------------------------------------------------
\* Properties.

\* Every variable has its type; semop is given a semaphore of the set.
TypeOK ==
  /\ shm \in {"absent", "empty", "sized"}
  /\ hkey \in BOOLEAN /\ hcount \in {0, Elements}
  /\ set \in BOOLEAN /\ val \in [Index -> Nat] /\ otime \in BOOLEAN
  /\ pc \in [Procs -> {"start", "truncate", "map", "unlinked", "storekey", "storecount",
                       "load", "loadcount", "loadkey", "semget", "free", "poll",
                       "attached", "exited"}]
  /\ made \in [Procs -> BOOLEAN] /\ key \in [Procs -> BOOLEAN]
  /\ count \in [Procs -> {0, Elements}]
  /\ semid \in [Procs -> {"none", "set", "own", "failed"}]
  /\ tries \in [Procs -> Nat]
  /\ \A p \in Procs : pc[p] = "free" => tries[p] \in Index
  /\ crashes \in 0 .. MaxCrashes /\ refusals \in 0 .. MaxRefusals
  /\ founded \in BOOLEAN /\ late \in [Procs -> BOOLEAN] /\ early \in [Procs -> BOOLEAN]

\* Whoever creates the set first, and whoever dies half way, no semaphore is freed
\* twice: its units would admit two writers (semaphore_interface.cpp:51-73).
FreedOnce == \A i \in Index : val[i] \in {0, Elements}

\* In whichever order the fields are loaded, only a process that mapped the memory while
\* its header was being written can end up alone on a semaphore set of its own, with no
\* error to tell it so; never the one that made the memory, and none that finds the
\* number of elements there (databuffer.cpp:50-63 against 82, 99).
AloneOnlyIfEarly == \A p \in Procs : semid[p] = "own" => early[p]

Synchronised(p) == count[p] = Elements /\ semid[p] = "set"

\* A process that opens the memory after its creator has attached ends up on the
\* creator's semaphores, whoever initialised them and whoever has died since
\* (databuffer.cpp:85-100, semaphore_interface.cpp:74-104).
LateIsSynchronised ==
  \A p \in Procs : pc[p] = "attached" /\ late[p] => Synchronised(p)

\* Whoever has found or made the memory comes to an end with it: the constructor
\* returns, the process exits, or it dies (the polls of semaphore_interface.cpp:84
\* are bounded because the process they wait for may be dead).
AttemptEnds ==
  \A p \in Procs : pc[p] \in {"truncate", "map"} ~> pc[p] \in {"attached", "exited", "start"}

=============================================================================
