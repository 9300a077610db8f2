---------------------------- MODULE MCLarkDedup ----------------------------
(* Bounds: three ids against a capacity of two, three saves of which any    *)
(* number overlap, one crash; one of the ids may come from a legacy file.  *)
EXTENDS LarkDedup

CONSTANTS m1, m2, m3

MCIds == {m1, m2, m3}
=============================================================================
