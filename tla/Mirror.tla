-------------------------------- MODULE Mirror --------------------------------
(***************************************************************************)
(* What a Server and a Client promise between them: the frames one side is *)
(* handed appear on the other, each of them once, whole and in order.      *)
(***************************************************************************)
EXTENDS Naturals

VARIABLES offered,  \* how many frames the server's Reader has been handed
          shown     \* how many of them the client's Writer has published

Init == offered = 0 /\ shown = 0

Offer == offered' = offered + 1 /\ UNCHANGED shown

Show == shown < offered /\ shown' = shown + 1 /\ UNCHANGED offered

Spec == Init /\ [][Offer \/ Show]_<<offered, shown>>
=============================================================================
