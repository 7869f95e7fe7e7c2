----------------------------- MODULE Rendezvous -----------------------------
(***************************************************************************)
(* What a barrier promises: threads that arrive stay until as many as the  *)
(* barrier is for have arrived, these are then let go together, and the    *)
(* next round can start before the last of them has left.                  *)
(***************************************************************************)
EXTENDS Naturals, FiniteSets

CONSTANTS Threads, Parties

VARIABLES arrived,   \* the threads held in the round that is filling up
          released   \* those of complete rounds that have still to return

vars == <<arrived, released>>

Init == arrived = {} /\ released = {}

\* The round fills up.
Arrive(t) ==
  /\ t \notin arrived \cup released
  /\ Cardinality(arrived) + 1 < Parties
  /\ arrived' = arrived \cup {t}
  /\ UNCHANGED released

\* The last of the round passes through and lets the others go.
Complete(t) ==
  /\ t \notin arrived \cup released
  /\ Cardinality(arrived) + 1 = Parties
  /\ arrived'  = {}
  /\ released' = released \cup arrived

Return(t) ==
  /\ t \in released
  /\ released' = released \ {t}
  /\ UNCHANGED arrived

Next == \E t \in Threads : Arrive(t) \/ Complete(t) \/ Return(t)

Spec == Init /\ [][Next]_vars

\* Who is let go returns.
FairSpec == Spec /\ \A t \in Threads : WF_vars(Return(t))

=============================================================================
