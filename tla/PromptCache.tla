----------------------------- MODULE PromptCache -----------------------------
(* The in-memory prompt-prefix store (server/prompt_cache) and the scheduler   *)
(* thread that looks prefixes up, adopts them, donates finished sequences and  *)
(* reclaims memory (server/batch/scheduler.rs), while HTTP threads release     *)
(* sessions and reset the store.                                               *)
(*                                                                             *)
(* `inner` is the state behind the store's RwLock; every action that touches   *)
(* it is one critical section.  A stored entry is a shared object: a lookup    *)
(* leaves the scheduler with a reference to it, and the cache set inside can   *)
(* be taken out by whoever comes first.  A paged set pins pool blocks that     *)
(* only the scheduler can give back, so the store queues the sets it removes.  *)
EXTENDS RadixTrie

CONSTANTS
  Sessions, Anonymous,  \* session keys and the shared bucket's sentinel
  PoolSets,             \* bound: paged sets the pool can pin at a time
  Setups                \* the servers considered

(* donated, requests = token sequences that are stored and looked up; kind =   *)
(* "dense", "clone" (paged, shareable) or "take" (paged, not); apc = block-    *)
(* level matching, in blocks of blockSize; poolBlock = the paged pool's block; *)
(* alignment = the model's prefill alignment; minPrefix, maxEntries, capacity  *)
(* = the store's, a token counting for one byte.                               *)
ASSUME /\ PoolSets \in Nat
       /\ \A u \in Setups :
            /\ u.kind \in {"dense", "clone", "take"} /\ u.apc \in BOOLEAN
            /\ {u.blockSize, u.poolBlock, u.alignment, u.minPrefix} \subseteq Nat \ {0}
            /\ {u.maxEntries, u.capacity} \subseteq Nat

VARIABLES
  setup,     \* the server's configuration
  inner,     \* Inner: entries (key -> is the set still inside), lru, trie, bytes, pending
  worker,    \* the scheduler's lookup: pc, session, request, winner, matched, orphan
  pins,      \* paged sets that hold pool pins without belonging to a sequence
  lost,      \* of those, the sets dropped with their pins
  adopted    \* the last adoption: source prefix, request, length (0: none yet)

vars == <<setup, inner, worker, pins, lost, adopted>>

Donated == setup.donated
Requests == setup.requests
Kind == setup.kind
Apc == setup.apc
BlockSize == setup.blockSize
PoolBlock == setup.poolBlock
Alignment == setup.alignment
MinPrefix == setup.minPrefix
MaxEntries == setup.maxEntries
Capacity == setup.capacity

Keys == Sessions \X Donated
Session(k) == k[1]
Toks(k) == k[2]
Size(k) == Len(Toks(k))
Paged == Kind # "dense"

Idle == [pc |-> "idle", session |-> Anonymous, request |-> Root, winner |-> <<Anonymous, Root>>,
         matched |-> 0, orphan |-> FALSE]
EmptyInner == [entries |-> << >>, lru |-> << >>, trie |-> EmptyTrie, bytes |-> 0, pending |-> 0]

Init == /\ setup \in Setups /\ inner = EmptyInner /\ worker = Idle
        /\ pins = 0 /\ lost = 0
        /\ adopted = [source |-> Root, request |-> Root, len |-> 0]
----------------------------------------------------------------------------
(* Inner: operations inside a critical section.                               *)

Stored(in) == DOMAIN in.entries
Full(in) == {k \in Stored(in) : in.entries[k]}

(* remove_entry: out of the map and the trie, its bytes off the total, and a   *)
(* paged set that nobody took queued for release.                              *)
RemoveEntry(in, k) ==
  [entries |-> [e \in Stored(in) \ {k} |-> in.entries[e]],
   lru     |-> Remove(in.lru, k),
   trie    |-> RemoveFrom(in.trie, Toks(k), k),
   bytes   |-> in.bytes - Size(k),
   pending |-> in.pending + IF Paged /\ in.entries[k] THEN 1 ELSE 0]

RemoveEntries(in, ks) == FoldLeft(RemoveEntry, in, ks)

(* sweep_drained, then sweep_ttl: the n least recently used entries expired.   *)
Sweep(in, n) ==
  LET live == RemoveEntries(in, SelectSeq(in.lru, LAMBDA k : ~in.entries[k]))
  IN RemoveEntries(live, SubSeq(live.lru, 1, n))

(* The entry, its bytes, its place as the most recently used and its digest    *)
(* in the trie.                                                                *)
AddEntry(in, k) ==
  [entries |-> (k :> TRUE) @@ in.entries,
   lru     |-> Append(in.lru, k),
   trie    |-> InsertInto(in.trie, Toks(k), k),
   bytes   |-> in.bytes + Size(k),
   pending |-> in.pending]

EnforceCaps_CountOnly(in) ==
  RemoveEntries(in, SubSeq(in.lru, 1, Max({0, Len(in.lru) - MaxEntries})))

(* enforce_caps: evict_oldest until neither cap is exceeded. *)
EnforceCaps(in) ==
  LET After(n) == RemoveEntries(in, SubSeq(in.lru, 1, n))
      Fits(n) == After(n).bytes =< Capacity /\ Len(After(n).lru) =< MaxEntries
  IN After(Min({n \in 0..Len(in.lru) : Fits(n)}))

(* The declines of insert, PrefixTooShort and OversizedEntry. *)
Declined(k) == Size(k) < MinPrefix \/ Size(k) > Capacity

InsertEntry_KeepsOld(in, k) ==
  IF Declined(k) THEN [in EXCEPT !.pending = @ + IF Paged THEN 1 ELSE 0]
  ELSE EnforceCaps(AddEntry(in, k))

InsertEntry_StashesOversizedOnly(in, k) ==
  IF Declined(k) THEN [in EXCEPT !.pending = @ + IF Paged /\ Size(k) > Capacity THEN 1 ELSE 0]
  ELSE EnforceCaps(AddEntry(IF k \in Stored(in) THEN RemoveEntry(in, k) ELSE in, k))

(* insert: a decline queues the set; a repeated key replaces its entry. *)
InsertEntry(in, k) ==
  IF Declined(k) THEN [in EXCEPT !.pending = @ + IF Paged THEN 1 ELSE 0]
  ELSE EnforceCaps(AddEntry(IF k \in Stored(in) THEN RemoveEntry(in, k) ELSE in, k))
----------------------------------------------------------------------------
(* Candidate selection.                                                        *)

SharedLen(k, request) == Len(Common(Toks(k), request))

(* BestCandidate::beats within a session tier C; `matched` maps candidates to  *)
(* their matched lengths: the longer match, then the more recently used.       *)
BestOf(in, C, matched) ==
  LET Rank(k) == SelectInSeq(in.lru, LAMBDA e : e = k)
  IN CHOOSE k \in C : \A c \in C : \/ matched[k] > matched[c]
                                   \/ matched[k] = matched[c] /\ Rank(k) >= Rank(c)

(* The best of the caller's own session unless another's match is strictly     *)
(* longer; the empty set when there is no candidate.                           *)
TwoTier(in, session, matched) ==
  LET own    == {k \in DOMAIN matched : Session(k) = session}
      other  == DOMAIN matched \ own
      s      == BestOf(in, own, matched)
      o      == BestOf(in, other, matched)
      Won(k) == {[key |-> k, matched |-> matched[k]]}
  IN IF own = {} /\ other = {} THEN {}
     ELSE IF own = {} THEN Won(o)
     ELSE IF other = {} THEN Won(s)
     ELSE IF matched[o] > matched[s] THEN Won(o) ELSE Won(s)

(* select_best: the candidates are the subtree where the trie walk stopped. *)
SelectByTrie(in, session, request) ==
  LET walk == WalkLongest(in.trie, request)
      Matched(k) == Min({walk.depth, Size(k)})
      C == {k \in Candidates(in.trie, walk.subtree) \cap Full(in) :
              /\ ~Apc => Size(k) =< Len(request) /\ Matched(k) = Size(k)
              /\ Matched(k) >= MinPrefix}
  IN IF walk.depth = 0 \/ walk.depth < MinPrefix THEN {}
     ELSE TwoTier(in, session, [k \in C |-> Matched(k)])

(* select_best_by_scan: every entry of the bucket. *)
SelectByScan(in, session, request) ==
  LET Matched(k) == IF Apc THEN SharedLen(k, request) ELSE Size(k)
      C == {k \in Full(in) : /\ ~Apc => IsPrefix(Toks(k), request)
                             /\ Matched(k) >= MinPrefix}
  IN TwoTier(in, session, [k \in C |-> Matched(k)])

Select_TrieOnly(in, session, request) == SelectByTrie(in, session, request)

(* The read-locked middle of lookup_longest_prefix. *)
Select(in, session, request) ==
  IF SelectByTrie(in, session, request) # {} THEN SelectByTrie(in, session, request)
  ELSE SelectByScan(in, session, request)

(* apc_consistent_prefix_len: the whole blocks of the match whose hash chains  *)
(* agree.  A chain commits to every token before its block, so block hashes    *)
(* agree exactly when the tokens up to the block's end do.                     *)
ApcPrefixLen(k, request, matched) ==
  LET Agree(b) == /\ b * BlockSize =< Min({matched, Size(k), Len(request)})
                  /\ SubSeq(Toks(k), 1, b * BlockSize) = SubSeq(request, 1, b * BlockSize)
  IN BlockSize * Max({b \in 0..matched : Agree(b)})

Floor(n, q) == (n \div q) * q

(* reusable_prefix_len: bounded by the match, the state present and all but    *)
(* one request token, then aligned; 0 declines.                                *)
ReusablePrefixLen(matched, state, request) ==
  LET floored == Floor(Min({matched, state, request - 1}), Alignment)
  IN IF floored < MinPrefix THEN 0 ELSE floored
----------------------------------------------------------------------------
(* The scheduler thread.                                                      *)

(* drain_store_paged_releases: release_detached_paged on every queued set.    *)
Drain == /\ pins' = pins - inner.pending
         /\ inner' = [inner EXCEPT !.pending = 0]

(* Back to idle.  An entry a reset removed from the map lived on in the        *)
(* scheduler's reference and is dropped with it, pins and all.                 *)
Return(orphan) == /\ worker' = Idle
                  /\ lost' = lost + IF orphan /\ Paged THEN 1 ELSE 0

(* donate_finished_sequence_cache up to the end of store.insert.  k is already *)
(* cut to what the caches cover, so it may be below the minimum although the   *)
(* token history, which is screened before a paged set is detached, was not.   *)
Donate(k) ==
  /\ worker.pc = "idle"
  /\ Paged => pins < PoolSets
  /\ inner' = InsertEntry(inner, k)
  /\ pins' = pins + IF Paged THEN 1 ELSE 0
  /\ worker' = [Idle EXCEPT !.pc = "drain"]
  /\ UNCHANGED <<setup, lost, adopted>>

(* reclaim_paged_blocks: evict_one_lru; draining only follows an eviction. *)
EvictOneLru ==
  /\ worker.pc = "idle" /\ Stored(inner) # {}
  /\ inner' = RemoveEntry(inner, Head(inner.lru))
  /\ worker' = [Idle EXCEPT !.pc = "drain"]
  /\ UNCHANGED <<setup, pins, lost, adopted>>

DrainReleases ==
  /\ worker.pc = "drain"
  /\ Drain /\ worker' = Idle
  /\ UNCHANGED <<setup, lost, adopted>>

(* try_adopt_cached_prefix begins by draining. *)
LookupStart(s, request) ==
  /\ worker.pc = "idle"
  /\ Drain
  /\ worker' = [Idle EXCEPT !.pc = "sweep", !.session = s, !.request = request]
  /\ UNCHANGED <<setup, lost, adopted>>

LookupSweep ==
  /\ worker.pc = "sweep"
  /\ \E n \in 0..Cardinality(Full(inner)) : inner' = Sweep(inner, n)
  /\ worker' = [worker EXCEPT !.pc = "select"]
  /\ UNCHANGED <<setup, pins, lost, adopted>>

LookupSelect ==
  /\ worker.pc = "select"
  /\ LET best == Select(inner, worker.session, worker.request)
     IN worker' = IF best = {} THEN Idle
                  ELSE LET b == CHOOSE b \in best : TRUE
                       IN [worker EXCEPT !.pc = "fetch", !.winner = b.key, !.matched = b.matched]
  /\ UNCHANGED <<setup, inner, pins, lost, adopted>>

(* The winner may have been removed since; a match the block hashes cut below  *)
(* the minimum is a miss; a hit refreshes the entry's last use.                *)
LookupFetch ==
  /\ worker.pc = "fetch"
  /\ LET k == worker.winner
         matched == IF Apc THEN ApcPrefixLen(k, worker.request, worker.matched) ELSE worker.matched
     IN IF k \notin Stored(inner) \/ matched < MinPrefix
        THEN worker' = Idle /\ UNCHANGED inner
        ELSE /\ worker' = [worker EXCEPT !.pc = "measure", !.matched = matched]
             /\ inner' = [inner EXCEPT !.lru = Append(Remove(@, k), k)]
  /\ UNCHANGED <<setup, pins, lost, adopted>>

(* The set is still inside the entry the scheduler refers to. *)
HasDetached == worker.orphan \/ worker.winner \in Full(inner)

(* The length the request may reuse, from the state still in the entry.       *)
Measure ==
  /\ worker.pc = "measure"
  /\ LET len == ReusablePrefixLen(worker.matched, Size(worker.winner), Len(worker.request))
     IN IF HasDetached /\ len > 0
        THEN worker' = [worker EXCEPT !.pc = "install", !.matched = len] /\ UNCHANGED lost
        ELSE Return(worker.orphan)
  /\ UNCHANGED <<setup, inner, pins, adopted>>

(* One quantum divides the other, so flooring to the pool block keeps the      *)
(* model's alignment.                                                          *)
Compatible == Alignment = 1 \/ PoolBlock % Alignment = 0 \/ Alignment % PoolBlock = 0

Adoptable_TakeFloorsOnly ==
  CASE Kind = "dense" -> worker.matched
    [] Paged /\ ~Compatible -> 0
    [] Kind = "clone" \/ worker.matched = Size(worker.winner) -> worker.matched
    [] OTHER -> Floor(worker.matched, PoolBlock)

(* Whole pool blocks only, unless a taken set is used whole; 0 declines. *)
Adoptable ==
  CASE Kind = "dense" -> worker.matched
    [] Paged /\ ~Compatible -> 0
    [] Kind = "take" /\ worker.matched = Size(worker.winner) -> worker.matched
    [] OTHER -> Floor(worker.matched, PoolBlock)

Adopt == adopted' = [source |-> Toks(worker.winner), request |-> worker.request, len |-> Adoptable]

(* A clone-eligible paged set: pinned again for the new sequence inside        *)
(* with_detached, the entry keeping its own.  A clone pins and adoption hands  *)
(* those pins to the sequence, so the sets outside sequences do not change.    *)
InstallClone ==
  /\ worker.pc = "install" /\ Kind = "clone" /\ HasDetached
  /\ IF Adoptable < MinPrefix THEN UNCHANGED adopted ELSE Adopt
  /\ Return(worker.orphan)
  /\ UNCHANGED <<setup, inner, pins>>

(* take_detached: the set leaves the entry, which stays behind as a drained    *)
(* shell, and goes to the sequence or, when too short, back to the pool.       *)
InstallTake ==
  /\ worker.pc = "install" /\ Kind # "clone" /\ HasDetached
  /\ IF Paged /\ Adoptable < MinPrefix THEN UNCHANGED adopted ELSE Adopt
  /\ pins' = pins - IF Paged THEN 1 ELSE 0
  /\ inner' = IF worker.orphan THEN inner
              ELSE [inner EXCEPT !.entries[worker.winner] = FALSE]
  /\ Return(FALSE)
  /\ UNCHANGED setup

(* Somebody emptied the entry first: a cold prefill. *)
InstallDrained ==
  /\ worker.pc = "install" /\ ~HasDetached
  /\ worker' = Idle
  /\ UNCHANGED <<setup, inner, pins, lost, adopted>>
----------------------------------------------------------------------------
(* HTTP threads.                                                              *)

(* release_session: refused for the shared bucket; whatever the session has    *)
(* stored goes, also from under a lookup that refers to it.                    *)
ReleaseSession(s) ==
  /\ s # Anonymous
  /\ inner' = RemoveEntries(inner, SelectSeq(inner.lru, LAMBDA k : Session(k) = s))
  /\ UNCHANGED <<setup, worker, pins, lost, adopted>>

(* POST /v1/cache/reset: clear() drops the entries, and a paged set that is    *)
(* dropped keeps its pins.  The one the scheduler refers to lives on for now.  *)
Reset ==
  /\ Stored(inner) # {}
  /\ LET held == worker.pc \in {"measure", "install"} /\ worker.winner \in Full(inner)
     IN /\ worker' = [worker EXCEPT !.orphan = @ \/ held]
        /\ lost' = lost + IF Paged THEN Cardinality(Full(inner)) - (IF held THEN 1 ELSE 0) ELSE 0
  /\ inner' = [EmptyInner EXCEPT !.pending = inner.pending]
  /\ UNCHANGED <<setup, pins, adopted>>

Scheduler ==
  \/ \E k \in Keys : Donate(k)
  \/ \E s \in Sessions, request \in Requests : LookupStart(s, request)
  \/ EvictOneLru \/ DrainReleases
  \/ LookupSweep \/ LookupSelect \/ LookupFetch
  \/ Measure \/ InstallClone \/ InstallTake \/ InstallDrained

Next == Scheduler \/ Reset \/ \E s \in Sessions : ReleaseSession(s)

Spec == Init /\ [][Next]_vars
----------------------------------------------------------------------------
(* Types, and the bookkeeping `inner` keeps twice: the use order and the map   *)
(* name the same entries.                                                      *)
TypeOK ==
  /\ Stored(inner) \subseteq Keys /\ inner.entries \in [Stored(inner) -> BOOLEAN]
  /\ ToSet(inner.lru) = Stored(inner) /\ Len(inner.lru) = Cardinality(Stored(inner))
  /\ inner.pending \in 0..PoolSets /\ pins \in 0..PoolSets /\ lost \in 0..PoolSets
  /\ worker.pc \in {"idle", "drain", "sweep", "select", "fetch", "measure", "install"}
  /\ worker.orphan \in BOOLEAN /\ worker.matched \in Nat

(* Every paged set that pins blocks is somewhere it can be adopted or released *)
(* from: inside a stored entry, in the release queue, or in the scheduler's    *)
(* hands; only a reset has ever lost one.  No eviction, replacement, decline   *)
(* (too short once cut to the caches, or too large for the store), session     *)
(* release or lost race with a lookup leaks a pin or returns it twice.         *)
PinsAccounted ==
  Paged => pins = Cardinality(Full(inner)) + inner.pending
                  + (IF worker.orphan THEN 1 ELSE 0) + lost

(* total_bytes is the size of what is stored and the store is within both caps *)
(* after every operation ("we never exceed the configured budget").            *)
WithinCaps ==
  /\ inner.bytes = MapThenSumSet(Size, Stored(inner))
  /\ inner.bytes =< Capacity /\ Cardinality(Stored(inner)) =< MaxEntries

(* subtree_count, which lookup trusts to skip an empty trie and the store to   *)
(* drop one, is the number of entries stored below the node, although every    *)
(* operation repairs it only along the path it walked.                         *)
CountExact ==
  \A p \in DOMAIN inner.trie :
    inner.trie[p].count = Cardinality({k \in Stored(inner) : IsPrefix(p, Toks(k))})

(* A walk finds the longest prefix of the request that any stored entry        *)
(* shares, and its candidates are exactly the entries that share it, whatever  *)
(* splits and merges evictions and insertions put the edges through.           *)
WalkIsLongest ==
  \A request \in Requests :
    LET walk == WalkLongest(inner.trie, request)
        best == Max({0} \cup {SharedLen(k, request) : k \in Stored(inner)})
    IN /\ walk.depth = best
       /\ best > 0 => Candidates(inner.trie, walk.subtree)
                        = {k \in Stored(inner) : SharedLen(k, request) = best}

(* What a lookup should choose: of the entries whose set is present and that   *)
(* share a usable prefix with the request, the longest match, then the         *)
(* caller's session, then the most recent use.                                 *)
Usable(in, request) ==
  {k \in Full(in) : IF Apc THEN SharedLen(k, request) >= MinPrefix
                    ELSE IsPrefix(Toks(k), request) /\ Size(k) >= MinPrefix}

BestMatch(in, session, request) ==
  LET U       == Usable(in, request)
      longest == {k \in U : \A u \in U : SharedLen(k, request) >= SharedLen(u, request)}
      own     == {k \in longest : Session(k) = session}
      C       == IF own = {} THEN longest ELSE own
      latest  == SelectLastInSeq(in.lru, LAMBDA k : k \in C)
  IN IF U = {} THEN {}
     ELSE {[key |-> in.lru[latest], matched |-> SharedLen(in.lru[latest], request)]}

(* The trie walk with its fallback scan chooses the best match although the    *)
(* walk only sees one subtree and drained shells are still indexed.            *)
LookupIsBest ==
  \A s \in Sessions, request \in Requests :
    Select(inner, s, request) = BestMatch(inner, s, request)

(* An adopted prefix is one that the request really starts with, leaves at     *)
(* least one of its tokens to prefill, keeps the minimum and the model's       *)
(* alignment, and ends a pool block unless it is a whole set that was taken:   *)
(* each of the three roundings on the way (match block, alignment, pool block) *)
(* keeps what the ones before it established, however stale the selection was. *)
AdoptsSharedPrefix ==
  adopted.len > 0 =>
    /\ adopted.len < Len(adopted.request)
    /\ SubSeq(adopted.source, 1, adopted.len) = SubSeq(adopted.request, 1, adopted.len)
    /\ adopted.len >= MinPrefix
    /\ adopted.len % Alignment = 0
    /\ Paged => \/ adopted.len % PoolBlock = 0
                \/ Kind = "take" /\ adopted.len = Len(adopted.source)

(* A dropped paged set is a leak ("burning block budget forever"): nobody ever *)
(* drops one that holds pins.                                                  *)
NoPinLost == lost = 0

==============================================================================
