------------------------- MODULE MC_BlockColdStore -------------------------
EXTENDS BlockColdStore, TLC
CONSTANTS p1, p2, c1, l1, b1, b2, b3, m1, m2

(* m2 extends m1: it shares the whole block b1, m1's partial tail b2 has   *)
(* become b3.                                                              *)
MCBlocksOf == (m1 :> {b1, b2}) @@ (m2 :> {b1, b3})
MCSupersedes == (m1 :> {}) @@ (m2 :> {m1})
=============================================================================
