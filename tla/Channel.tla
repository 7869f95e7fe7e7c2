------------------------------- MODULE Channel -------------------------------
(***************************************************************************)
(* What a ring promises its readers: who asks is handed a frame begun no   *)
(* earlier than the newest one was when it asked, and no longer in the     *)
(* making.  Hence each frame a reader is handed is newer than those it was *)
(* handed before.                                                          *)
(***************************************************************************)
EXTENDS Integers

CONSTANT Readers

VARIABLES newest,  \* how many frames have been begun: the number of the newest
          asked,   \* asked[r]: the newest frame when r asked, if it is asking
          given    \* given[r]: the frame r was handed last

Nothing == -1

Init ==
  /\ newest = 0
  /\ asked = [r \in Readers |-> Nothing]
  /\ given = [r \in Readers |-> Nothing]

Begin == newest' = newest + 1 /\ UNCHANGED <<asked, given>>

Ask(r) ==
  /\ asked' = [asked EXCEPT ![r] = newest]
  /\ UNCHANGED <<newest, given>>

Hand(r) ==
  /\ asked[r] # Nothing
  /\ \E n \in asked[r] .. newest - 1 : given' = [given EXCEPT ![r] = n]
  /\ asked' = [asked EXCEPT ![r] = Nothing]
  /\ UNCHANGED newest

Next == Begin \/ \E r \in Readers : Ask(r) \/ Hand(r)

Spec == Init /\ [][Next]_<<newest, asked, given>>
==============================================================================
