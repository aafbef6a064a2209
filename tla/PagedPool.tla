----------------------------- MODULE PagedPool -----------------------------
(***************************************************************************)
(* The paged KV block pool and the sequences that share its blocks:        *)
(* PagedBlockPool (cache/paged.rs), detached sets (cache/paged_detach.rs)  *)
(* and the paged half of CachePool (cache.rs).  Blocks are reference       *)
(* counted, a block gets a physical row at its first write, and a shared   *)
(* block is copied before it is written.                                   *)
(*                                                                         *)
(* K and V of one token at one layer are one value, told apart by the      *)
(* position and by the sequence that wrote it.  What a free row still      *)
(* holds is Blank, which no reader may ever see.  The free blocks, and the *)
(* free rows, of a layer then differ in nothing but their name, and the    *)
(* smallest is reused (the code takes the last one freed).                 *)
(* The pool is used from one thread: a call that is under way excludes     *)
(* every other one, and its steps are the places where it may fail.        *)
(***************************************************************************)
EXTENDS Integers, Sequences, FiniteSets, FiniteSetsExt

CONSTANTS
    Seqs, Sets,
    BlockSize,
    Setups,     \* the pools considered
    Absent, Blank

(* layers = num_layers, budget = block_budget over all layers; the others  *)
(* bound a sequence's length and the tokens of one write.                  *)
ASSUME PoolAssumption ==
    /\ BlockSize \in Nat \ {0}
    /\ Setups \subseteq [layers : Nat \ {0}, budget : Nat, maxLen : Nat, maxWrite : Nat]

VARIABLES
    setup,     \* the pool's configuration
    blocks,    \* id -> [layer, ref], the ids handed out so far are 0 .. n-1
    free,      \* free_lists
    rows,      \* block_rows: id -> row, per layer
    freeRows, nextRow,
    mem,       \* the layer's physical rows
    active,    \* sequence -> [ids, len, text, ok] per layer, text being what it wrote
    detached,  \* detached set -> [ids, len, text], holding its pins besides
    call       \* the call under way

pool == <<setup, blocks, free, rows, freeRows, nextRow, mem>>
vars == <<pool, active, detached, call>>

Layers == 1 .. setup.layers
Budget == setup.budget
MaxLen == setup.maxLen
MaxWrite == setup.maxWrite
Idle == [op |-> "idle"]
CeilDiv(n) == (n + BlockSize - 1) \div BlockSize
Text(s, first, n) == [k \in 1 .. n |-> <<s, first + k>>]
Fresh == [ids |-> [l \in Layers |-> <<>>], len |-> [l \in Layers |-> 0],
          text |-> [l \in Layers |-> <<>>], ok |-> TRUE]

Init ==
    /\ setup \in Setups
    /\ blocks = <<>> /\ mem = [l \in Layers |-> <<>>]
    /\ free = [l \in Layers |-> {}]
    /\ rows = [l \in Layers |-> <<>>]
    /\ freeRows = [l \in Layers |-> {}]
    /\ nextRow = [l \in Layers |-> 0]
    /\ active = [s \in Seqs |-> Absent]
    /\ detached = [d \in Sets |-> Absent]
    /\ call = Idle

Live(s) == active[s] # Absent
Ids(st) == UNION {{st.ids[l][i] : i \in 1 .. Len(st.ids[l])} : l \in Layers}

-----------------------------------------------------------------------------
(* The pool, as functions on its record of blocks, rows and free lists.    *)

Pool == [blocks |-> blocks, free |-> free, rows |-> rows, freeRows |-> freeRows,
         nextRow |-> nextRow, mem |-> mem]

SetPool(p) ==
    /\ blocks' = p.blocks /\ free' = p.free /\ rows' = p.rows
    /\ freeRows' = p.freeRows /\ nextRow' = p.nextRow /\ mem' = p.mem
    /\ UNCHANGED setup

Put(f, x, v) == [y \in DOMAIN f \cup {x} |-> IF y = x THEN v ELSE f[y]]

(* retain_block, for every block of bs; a free block is refused. *)
Retain(p, bs) ==
    [p EXCEPT !.blocks = [b \in DOMAIN @ |->
        [@[b] EXCEPT !.ref = IF b \in bs /\ @ > 0 THEN @ + 1 ELSE @]]]

(* Mutant: the row of the released block is not made reusable. *)
ReleaseBlock_LosesRow(p, b) ==
    LET l == p.blocks[b].layer IN
    IF p.blocks[b].ref > 1
    THEN [p EXCEPT !.blocks[b].ref = @ - 1]
    ELSE [p EXCEPT !.blocks[b].ref = 0, !.free[l] = @ \cup {b},
                   !.rows[l] = [c \in DOMAIN @ \ {b} |-> @[c]]]

(* release_block: at zero the row and the block become reusable; a block   *)
(* already released is refused.                                            *)
ReleaseBlock(p, b) ==
    LET l == p.blocks[b].layer IN
    IF p.blocks[b].ref = 0 THEN p
    ELSE IF p.blocks[b].ref > 1
    THEN [p EXCEPT !.blocks[b].ref = @ - 1]
    ELSE LET held == IF b \in DOMAIN p.rows[l] THEN {p.rows[l][b]} ELSE {} IN
         [p EXCEPT !.blocks[b].ref = 0,
                   !.free[l] = @ \cup {b},
                   !.freeRows[l] = @ \cup held,
                   !.mem[l] = [r \in DOMAIN @ \ held |-> @[r]],
                   !.rows[l] = [c \in DOMAIN @ \ {b} |-> @[c]]]

Release(p, bs) == FoldSet(LAMBDA b, q : ReleaseBlock(q, b), p, bs)

(* acquire_block: a free block of the layer, or a new one within the       *)
(* budget; no result when the budget is exhausted.                         *)
Acquire(p, l) ==
    IF p.free[l] # {}
    THEN LET b == Min(p.free[l])
         IN  {[id |-> b, pool |-> [p EXCEPT !.free[l] = @ \ {b}, !.blocks[b].ref = 1]]}
    ELSE IF Cardinality(DOMAIN p.blocks) < Budget
    THEN LET b == Cardinality(DOMAIN p.blocks)
         IN  {[id |-> b, pool |-> [p EXCEPT !.blocks = Put(@, b, [layer |-> l, ref |-> 1])]]}
    ELSE {}

(* assign_row and write_block: the slots of block b that upd is defined on *)
(* change, in the row the block has or now gets.                           *)
WriteBlock(p, l, b, upd) ==
    LET write(q, r) == [q EXCEPT !.mem[l] = Put(@, r, [k \in 0 .. BlockSize - 1 |->
                             IF k \in DOMAIN upd THEN upd[k]
                             ELSE IF r \in DOMAIN @ THEN @[r][k] ELSE Blank])]
        give(q, r) == write([q EXCEPT !.rows[l] = Put(@, b, r)], r)
    IN  IF b \in DOMAIN p.rows[l] THEN write(p, p.rows[l][b])
        ELSE IF p.freeRows[l] # {}
        THEN LET r == Min(p.freeRows[l]) IN give([p EXCEPT !.freeRows[l] = @ \ {r}], r)
        ELSE give([p EXCEPT !.nextRow[l] = @ + 1], p.nextRow[l])

(* copy_on_write_block: a fresh block with the contents of b, which loses  *)
(* this reference.                                                         *)
CopyOnWrite(p, l, b) ==
    {[id |-> a.id, pool |-> ReleaseBlock(WriteBlock(a.pool, l, a.id, p.mem[l][p.rows[l][b]]), b)] :
        a \in Acquire(p, l)}

-----------------------------------------------------------------------------
(* write_prefill                                                           *)

Return == call' = Idle
Fail(s) == active' = [active EXCEPT ![s].ok = FALSE] /\ Return

WriteStart(s, l, n) ==
    /\ call = Idle /\ Live(s) /\ active[s].ok
    /\ active[s].len[l] + n <= MaxLen
    /\ call' = [op |-> "append", seq |-> s, layer |-> l, toks |-> Text(s, active[s].len[l], n),
                first |-> active[s].len[l], block |-> active[s].len[l] \div BlockSize]
    /\ UNCHANGED <<pool, active, detached>>

(* append_tokens: blocks for the new length, one at a time; blocks         *)
(* acquired before a failure stay in the block table.                      *)
AppendBlock ==
    /\ call.op = "append"
    /\ LET s == call.seq
           l == call.layer
           new == active[s].len[l] + Len(call.toks)
       IN  \/ /\ Len(active[s].ids[l]) < CeilDiv(new)
              /\ \E a \in Acquire(Pool, l) :
                    /\ SetPool(a.pool)
                    /\ active' = [active EXCEPT ![s].ids[l] = Append(@, a.id)]
              /\ UNCHANGED <<call, detached>>
           \/ /\ Len(active[s].ids[l]) < CeilDiv(new)
              /\ Acquire(Pool, l) = {}
              /\ Fail(s)
              /\ UNCHANGED <<pool, detached>>
           \/ /\ Len(active[s].ids[l]) >= CeilDiv(new)
              /\ active' = [active EXCEPT ![s].len[l] = new]
              /\ call' = [call EXCEPT !.op = "write"]
              /\ UNCHANGED <<pool, detached>>

(* What the write puts into block i: the tokens at the absolute positions  *)
(* of the block from call.first on.                                        *)
Slots(i) ==
    [k \in {k \in 0 .. BlockSize - 1 : /\ i * BlockSize + k >= call.first
                                       /\ i * BlockSize + k < call.first + Len(call.toks)} |->
        call.toks[i * BlockSize + k - call.first + 1]]

(* Mutant: a shared block is written in place. *)
Target_NoCopy(p, l, b) == {[id |-> b, pool |-> p]}

(* The block a write may go to: the sequence's own, or a copy of a shared  *)
(* one.                                                                    *)
Target(p, l, b) == IF p.blocks[b].ref > 1 THEN CopyOnWrite(p, l, b) ELSE {[id |-> b, pool |-> p]}

WriteSpanBlock ==
    /\ call.op = "write"
    /\ LET s == call.seq
           l == call.layer
           i == call.block
           b == active[s].ids[l][i + 1]
           last == (call.first + Len(call.toks) - 1) \div BlockSize
       IN  \/ /\ Target(Pool, l, b) = {}
              /\ Fail(s)
              /\ UNCHANGED <<pool, detached>>
           \/ \E t \in Target(Pool, l, b) :
                 /\ SetPool(WriteBlock(t.pool, l, t.id, Slots(i)))
                 /\ active' = [active EXCEPT ![s].ids[l][i + 1] = t.id,
                                             ![s].text[l] = IF i = last THEN @ \o call.toks ELSE @]
                 /\ call' = IF i = last THEN Idle ELSE [call EXCEPT !.block = i + 1]
                 /\ UNCHANGED detached

-----------------------------------------------------------------------------
(* The lifetime of sequences and detached sets                             *)

Allocate(s) ==
    /\ call = Idle /\ ~Live(s)
    /\ active' = [active EXCEPT ![s] = Fresh]
    /\ UNCHANGED <<pool, detached, call>>

(* Mutant: the count is not limited to what the layer holds. *)
Trimmed_Unclamped(held, n) == n
Trimmed(held, n) == Min({held, n})

(* trim_tokens with logical_start = 0 *)
TrimTokens(s, l, n) ==
    /\ call = Idle /\ Live(s) /\ active[s].ok /\ active[s].len[l] > 0
    /\ LET new == active[s].len[l] - Trimmed(active[s].len[l], n)
           ids == active[s].ids[l]
       IN  /\ SetPool(Release(Pool, {ids[i] : i \in CeilDiv(new) + 1 .. Len(ids)}))
           /\ active' = [active EXCEPT ![s].len[l] = new,
                                       ![s].ids[l] = SubSeq(@, 1, CeilDiv(new)),
                                       ![s].text[l] = SubSeq(@, 1, new)]
    /\ UNCHANGED <<detached, call>>

(* CachePool::release *)
ReleaseSequence(s) ==
    /\ call = Idle /\ Live(s)
    /\ SetPool(Release(Pool, Ids(active[s])))
    /\ active' = [active EXCEPT ![s] = Absent]
    /\ UNCHANGED <<detached, call>>

(* Between forward passes every layer has the same length. *)
Uniform(st) == \A l \in Layers : st.len[l] = st.len[1]

(* detach_paged: the set takes over the references of the sequence and     *)
(* pins every block once more.                                             *)
DetachPaged(s, d) ==
    /\ call = Idle /\ Live(s) /\ active[s].ok /\ detached[d] = Absent
    /\ Uniform(active[s])
    /\ SetPool(Retain(Pool, Ids(active[s])))
    /\ detached' = [detached EXCEPT ![d] = active[s]]
    /\ active' = [active EXCEPT ![s] = Absent]
    /\ UNCHANGED call

(* adopt_paged: the pins go, the sequence inherits the table's references. *)
AdoptPaged(d, s) ==
    /\ call = Idle /\ ~Live(s) /\ detached[d] # Absent
    /\ SetPool(Release(Pool, Ids(detached[d])))
    /\ active' = [active EXCEPT ![s] = detached[d]]
    /\ detached' = [detached EXCEPT ![d] = Absent]
    /\ UNCHANGED call

Prefix(st, n) ==
    [st EXCEPT !.ids = [l \in Layers |-> SubSeq(@[l], 1, n \div BlockSize)],
               !.len = [l \in Layers |-> n],
               !.text = [l \in Layers |-> SubSeq(@[l], 1, n)]]

WholeBlocks(st) == {n \in 0 .. st.len[1] : n % BlockSize = 0}

(* clone_detached_paged_prefix: whole blocks only, each referenced twice.  *)
CloneDetachedPrefix(d, e, n) ==
    /\ call = Idle /\ detached[d] # Absent /\ detached[e] = Absent
    /\ n \in WholeBlocks(detached[d]) \ {0}
    /\ LET clone == Prefix(detached[d], n)
       IN  /\ SetPool(Retain(Retain(Pool, Ids(clone)), Ids(clone)))
           /\ detached' = [detached EXCEPT ![e] = clone]
    /\ UNCHANGED <<active, call>>

(* trim_detached_paged_to: a dropped block loses both references.          *)
TrimDetachedTo(d, n) ==
    /\ call = Idle /\ detached[d] # Absent
    /\ n \in WholeBlocks(detached[d]) \ {detached[d].len[1]}
    /\ LET cut == Prefix(detached[d], n)
           dropped == Ids(detached[d]) \ Ids(cut)
       IN  /\ SetPool(Release(Release(Pool, dropped), dropped))
           /\ detached' = [detached EXCEPT ![d] = cut]
    /\ UNCHANGED <<active, call>>

(* release_detached_paged, and adopt_paged when it declines the set.       *)
ReleaseDetached(d) ==
    /\ call = Idle /\ detached[d] # Absent
    /\ SetPool(Release(Release(Pool, Ids(detached[d])), Ids(detached[d])))
    /\ detached' = [detached EXCEPT ![d] = Absent]
    /\ UNCHANGED <<active, call>>

-----------------------------------------------------------------------------
(* restore_paged_state_with_contents: what the sequence held is released,  *)
(* then every transferred block is written to a fresh one; a failure gives *)
(* back the blocks acquired so far.                                        *)
RestoreStart(s, n) ==
    /\ call = Idle /\ Live(s)
    /\ SetPool(Release(Pool, Ids(active[s])))
    /\ active' = [active EXCEPT ![s] = Fresh]
    /\ call' = [op |-> "restore", seq |-> s, toks |-> Text(s, 0, n), first |-> 0,
                got |-> [l \in Layers |-> <<>>]]
    /\ UNCHANGED detached

RestoreBlock ==
    /\ call.op = "restore"
    /\ LET missing == {l \in Layers : Len(call.got[l]) < CeilDiv(Len(call.toks))}
           l == Min(missing)
       IN  /\ missing # {}
           /\ \E a \in Acquire(Pool, l) :
                 /\ SetPool(WriteBlock(a.pool, l, a.id, Slots(Len(call.got[l]))))
                 /\ call' = [call EXCEPT !.got[l] = Append(@, a.id)]
    /\ UNCHANGED <<active, detached>>

(* Mutant: the blocks acquired before the failure are not given back. *)
RestoreFail_Strands ==
    /\ call.op = "restore"
    /\ Return
    /\ UNCHANGED <<pool, active, detached>>

(* The budget is exhausted, a transferred slab does not fit the pool, or a *)
(* block of the table has no contents.                                     *)
RestoreFail ==
    /\ call.op = "restore"
    /\ SetPool(Release(Pool, Ids([ids |-> call.got])))
    /\ Return
    /\ UNCHANGED <<active, detached>>

RestoreInstall ==
    /\ call.op = "restore"
    /\ \A l \in Layers : Len(call.got[l]) = CeilDiv(Len(call.toks))
    /\ active' = [active EXCEPT ![call.seq] =
                     [ids |-> call.got, len |-> [l \in Layers |-> Len(call.toks)],
                      text |-> [l \in Layers |-> call.toks], ok |-> TRUE]]
    /\ Return
    /\ UNCHANGED <<pool, detached>>

-----------------------------------------------------------------------------
Next ==
    \/ AppendBlock
    \/ WriteSpanBlock
    \/ RestoreBlock
    \/ RestoreInstall
    \/ RestoreFail
    \/ \E s \in Seqs :
          \/ Allocate(s)
          \/ ReleaseSequence(s)
          \/ \E l \in Layers, n \in 1 .. MaxWrite : WriteStart(s, l, n)
          \/ \E l \in Layers, n \in 1 .. MaxLen : TrimTokens(s, l, n)
          \/ \E n \in 1 .. MaxLen : RestoreStart(s, n)
          \/ \E d \in Sets : DetachPaged(s, d) \/ AdoptPaged(d, s)
    \/ \E d \in Sets :
          \/ ReleaseDetached(d)
          \/ \E n \in 0 .. MaxLen : TrimDetachedTo(d, n)
          \/ \E e \in Sets, n \in 0 .. MaxLen : CloneDetachedPrefix(d, e, n)

Spec == Init /\ [][Next]_vars

-----------------------------------------------------------------------------
(* Properties                                                              *)

(* The tables of the pool and the states of its users have their types. *)
TypeOK ==
    /\ \A b \in DOMAIN blocks : blocks[b].layer \in Layers /\ blocks[b].ref \in Nat
    /\ \A l \in Layers :
          /\ free[l] \subseteq DOMAIN blocks
          /\ DOMAIN rows[l] \subseteq DOMAIN blocks
          /\ nextRow[l] \in Nat
          /\ freeRows[l] \subseteq 0 .. nextRow[l] - 1
          /\ DOMAIN mem[l] \subseteq 0 .. nextRow[l] - 1
    /\ \A s \in Seqs : Live(s) => \A l \in Layers :
          active[s].len[l] \in 0 .. MaxLen /\ Ids(active[s]) \subseteq DOMAIN blocks
    /\ call.op \in {"idle", "append", "write", "restore"}

(* The references to block b: one per sequence whose table names it, two   *)
(* per detached set, the table's and the pin.                              *)
References(b) ==
    Cardinality({s \in Seqs : Live(s) /\ b \in Ids(active[s])})
      + 2 * Cardinality({d \in Sets : detached[d] # Absent /\ b \in Ids(detached[d])})

(* Between calls a block's refcount is the number of references to it, and *)
(* exactly the blocks nobody refers to are on their layer's free list:     *)
(* whatever order sequences and sets are detached, cloned, trimmed,        *)
(* adopted, restored and released in, and wherever a write or a restore    *)
(* failed, no block leaks and none is freed under a user.                  *)
RefcountExact ==
    call = Idle => \A b \in DOMAIN blocks :
        /\ blocks[b].ref = References(b)
        /\ \A l \in Layers : b \in free[l] <=> (References(b) = 0 /\ l = blocks[b].layer)

(* What gather_visible returns for layer l of st. *)
GatherVisible(st, l) ==
    [k \in 1 .. st.len[l] |->
        mem[l][rows[l][st.ids[l][(k - 1) \div BlockSize + 1]]][(k - 1) % BlockSize]]

(* Every block of the table has a row, or gather_visible fails. *)
Gatherable(st, l) ==
    /\ \A i \in DOMAIN st.ids[l] : st.ids[l][i] \in DOMAIN rows[l]
    /\ st.len[l] <= Len(st.ids[l]) * BlockSize

(* Between calls, every sequence whose writes succeeded and every detached *)
(* set reads back exactly the tokens it wrote or inherited: sharing,       *)
(* copy-on-write, trimming and the reuse of blocks and rows never let one  *)
(* user see or overwrite another's tokens.                                 *)
ReadsBack ==
    call = Idle => \A st \in {active[s] : s \in Seqs} \cup {detached[d] : d \in Sets} :
        (st # Absent /\ st.ok) => \A l \in Layers :
            Gatherable(st, l) /\ GatherVisible(st, l) = st.text[l]

(* Rows are neither lost nor shared: every row minted is free or belongs   *)
(* to exactly one block, and no layer mints more rows than it has blocks,  *)
(* so the memory of the pool stays within the block budget.                *)
RowsConserved ==
    \A l \in Layers :
        /\ Cardinality(DOMAIN rows[l]) + Cardinality(freeRows[l]) = nextRow[l]
        /\ {rows[l][b] : b \in DOMAIN rows[l]} = (0 .. nextRow[l] - 1) \ freeRows[l]
        /\ nextRow[l] <= Cardinality({b \in DOMAIN blocks : blocks[b].layer = l})

(* free_block_budget documents that acquiring a block succeeds whenever    *)
(* fewer than the budgeted blocks are live.  Stated for the moments its    *)
(* callers ask: no call under way and every sequence between two passes.   *)
AcquireWithinBudget ==
    /\ call = Idle
    /\ \A s \in Seqs : Live(s) => Uniform(active[s]) /\ active[s].ok
    /\ Cardinality({b \in DOMAIN blocks : blocks[b].ref > 0}) < Budget
    => \A l \in Layers : Acquire(Pool, l) # {}
=============================================================================
