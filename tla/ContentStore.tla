---------------------------- MODULE ContentStore ----------------------------
(***************************************************************************)
(* What a content-addressed store promises its readers and writers,        *)
(* without locks, epochs, marks or tombstones: a manifest is published     *)
(* only over blocks that are present, and a block leaves only when no      *)
(* committed manifest and no load in progress needs it.                    *)
(***************************************************************************)
CONSTANTS Blocks, Manifests, BlocksOf

VARIABLES blocks,  \* blocks that can be read
          mans,    \* manifests that can be found
          pinned   \* blocks some load in progress may still read

vars == <<blocks, mans, pinned>>

LiveBlocks(S) == UNION {BlocksOf[m] : m \in S}

Init == blocks = {} /\ mans = {} /\ pinned = {}

Install(b) == blocks' = blocks \cup {b} /\ UNCHANGED <<mans, pinned>>

Publish(m) ==
    /\ BlocksOf[m] \subseteq blocks
    /\ mans' = mans \cup {m}
    /\ UNCHANGED <<blocks, pinned>>

Drop(m) == mans' = mans \ {m} /\ UNCHANGED <<blocks, pinned>>

Collect(b) ==
    /\ b \notin LiveBlocks(mans) \cup pinned
    /\ blocks' = blocks \ {b}
    /\ UNCHANGED <<mans, pinned>>

(* A load starts on committed manifests, moves on or ends.                 *)
Repin ==
    /\ pinned' \subseteq pinned \cup LiveBlocks(mans)
    /\ UNCHANGED <<blocks, mans>>

Next ==
    \/ \E b \in Blocks : Install(b) \/ Collect(b)
    \/ \E m \in Manifests : Publish(m) \/ Drop(m)
    \/ Repin

Spec == Init /\ [][Next]_vars
=============================================================================
