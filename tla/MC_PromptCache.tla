--------------------------- MODULE MC_PromptCache ---------------------------
(* Small instances of PromptCache for TLC. *)
EXTENDS PromptCache

(* A chain, a fork inside it and an unrelated prefix. *)
Forked == {<<1, 2>>, <<1, 2, 3, 4>>, <<1, 2, 5>>, <<6>>}
(* For a minimum of two and room for six: a chain between a prefix that is too *)
(* short and one that is too large.                                            *)
Chain == {<<1>>, <<1, 2, 3>>, <<1, 2, 3, 4, 5>>, <<1, 2, 3, 4, 5, 6, 7>>}
(* Requests that continue the chain and that leave it halfway. *)
Longer == {<<1, 2, 3, 4, 5, 6>>, <<1, 2, 3, 4, 7>>}

(* Whole-entry and block-level matching with both caps binding. *)
Dense(apc, blockSize, alignment) ==
  [kind |-> "dense", apc |-> apc, donated |-> Forked,
   requests |-> {<<1, 2, 3, 4>>, <<1, 2, 5>>},
   blockSize |-> blockSize, poolBlock |-> 1, alignment |-> alignment,
   minPrefix |-> 1, maxEntries |-> 3, capacity |-> 6]

(* Paged sets, shared or taken out. *)
PagedSets(kind, blockSize, poolBlock, alignment) ==
  [kind |-> kind, apc |-> TRUE, donated |-> Chain, requests |-> Longer,
   blockSize |-> blockSize, poolBlock |-> poolBlock, alignment |-> alignment,
   minPrefix |-> 2, maxEntries |-> 2, capacity |-> 6]

(* The match block, the alignment and the pool block all differ, divide one    *)
(* another in either direction, and in one setup are incompatible.             *)
MCSetups ==
  {Dense(FALSE, 1, 1), Dense(TRUE, 3, 2),
   PagedSets("take", 1, 2, 1), PagedSets("take", 1, 4, 2), PagedSets("take", 2, 3, 2),
   PagedSets("clone", 2, 3, 1), PagedSets("clone", 1, 2, 4)}

Shared == {PagedSets("clone", 2, 3, 1)}
=============================================================================
