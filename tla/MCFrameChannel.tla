--------------------------- MODULE MCFrameChannel ---------------------------
(* An instance of FrameChannel for TLC: two sizes neither of which contains  *)
(* the other, and one that both contain.                                     *)
EXTENDS FrameChannel

MCSizes == {[w |-> 1, h |-> 1], [w |-> 2, h |-> 1], [w |-> 1, h |-> 2]}
=============================================================================
