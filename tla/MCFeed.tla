------------------------------- MODULE MCFeed -------------------------------
(* Feed on a small ring: what may fail, and which readers are alike. *)
EXTENDS Feed, TLC

CONSTANTS Alike      \* readers that are interchangeable, a set of model values

Faults == [k \in FaultKinds |->
             IF k \in {"readerCrash", "drop"} THEN 1 ELSE 0]

Symmetry == Permutations(Alike)
=============================================================================
