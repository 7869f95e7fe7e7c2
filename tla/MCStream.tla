------------------------------- MODULE MCStream -------------------------------
(* Stream with a uint32_t of six bits: shapes of one byte, two and three, one that *)
(* is no whole number of bytes, and two whose product wraps.                       *)
EXTENDS Stream

Shape(w, h, b) == [width |-> w, height |-> h, bpp |-> b]

SmallShapes == {Shape(1, 1, 8), Shape(2, 1, 8), Shape(2, 1, 12), Shape(8, 8, 8)}
=============================================================================
