---------------------------- MODULE MCDataBuffer ----------------------------
(* DataBuffer on small rings: who may fail, and which processes are alike. *)
EXTENDS DataBuffer, TLC

CONSTANTS Alike      \* readers that are interchangeable, a set of model values

NoFaults == [k \in FaultKinds |-> 0]
With(kinds) == [k \in FaultKinds |-> IF k \in kinds THEN 1 ELSE 0]

Crashes     == With({"writerCrash", "readerCrash"})
Ends        == With({"writerCrash", "close", "drop"})
Interrupts  == With({"interrupt", "readerCrash", "writerCrash"})

Symmetry == Permutations(Alike)
=============================================================================
