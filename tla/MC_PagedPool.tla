---------------------------- MODULE MC_PagedPool ----------------------------
(* Small instances of PagedPool for TLC. *)
EXTENDS PagedPool, TLC

(* Many sharers of small writes, writes that run out of blocks, and layers     *)
(* that compete for the budget.                                                *)
MCSetups == {[layers |-> 1, budget |-> 3, maxLen |-> 3, maxWrite |-> 1],
             [layers |-> 1, budget |-> 2, maxLen |-> 3, maxWrite |-> 3],
             [layers |-> 2, budget |-> 3, maxLen |-> 1, maxWrite |-> 1]}

(* Layers of different fill. *)
TwoLayers == {[layers |-> 2, budget |-> 3, maxLen |-> 3, maxWrite |-> 2]}

Symmetry == Permutations(Seqs) \cup Permutations(Sets)
=============================================================================
