---------------------------- MODULE PagedAdmission ----------------------------
(* Admission of prefills under a paged KV block budget (server/batch/          *)
(* scheduler.rs, --kv-cache-budget).  A request may adopt a cached prefix when *)
(* it arrives and holds its blocks while it waits; the gate admits a prefill   *)
(* only when the pool can serve the whole prompt, evicting cold prefixes and   *)
(* then preempting running sequences to make room.                             *)
(*                                                                             *)
(* Blocks are counted over one layer and a "token" of a prompt is one block of *)
(* tokens; the partial block of generated tokens is left out, so a decode      *)
(* acquires nothing and a donation is the prompt's blocks.  Priorities,        *)
(* chunks and coalescing are the subject of BatchScheduler, the choice of the  *)
(* cached prefix that of PromptCache.  Batched prefill does not pass the gate  *)
(* and is left out: one request is prefilled at a time.                        *)
EXTENDS Integers, Sequences, FiniteSets, SequencesExt

CONSTANTS
  Requests,
  Prompt,       \* [Requests -> sequences of tokens]
  Budget,       \* the pool's blocks
  MaxBatch,     \* max_batch_size
  MaxQueue,     \* max_queue_size
  MaxTokens,    \* every request's max_tokens
  CanRelease    \* sessions are released over HTTP

ASSUME /\ Budget \in Nat \ {0} /\ MaxBatch \in Nat \ {0} /\ MaxTokens \in Nat \ {0}
       /\ MaxQueue \in Nat \ {0}
       /\ CanRelease \in BOOLEAN

VARIABLES unsent, s

vars == <<unsent, s>>

(* entries = the store, in use order, each with the blocks it pins; pending =  *)
(* its release queue; holds = the blocks in a sequence's table; active = the   *)
(* tokens each running sequence has generated; ctx = sequences that will       *)
(* donate.                                                                     *)
Empty ==
  [entries |-> << >>, pending |-> {}, queue |-> << >>, active |-> << >>, ctx |-> {},
   holds |-> [r \in Requests |-> << >>], answer |-> [r \in Requests |-> "none"]]

Init == unsent = Requests /\ s = Empty

Need(r) == Len(Prompt[r])
Active(t) == DOMAIN t.active
LiveBlocks(t) ==
  UNION ({ToSet(e.blocks) : e \in ToSet(t.entries)}
         \cup {ToSet(b) : b \in t.pending} \cup {ToSet(t.holds[r]) : r \in Requests})

(* free_paged_block_budget *)
FreeBudget(t) == Budget - Cardinality(LiveBlocks(t))
Room(t, r) == FreeBudget(t) >= Need(r)

Release(t, r) == [t EXCEPT !.holds[r] = << >>, !.ctx = @ \ {r}]
Drain(t) == [t EXCEPT !.pending = {}]
----------------------------------------------------------------------------
(* Arrival, with block-level matching: try_adopt_cached_prefix drains the      *)
(* release queue and clones the longest stored prefix that leaves a token to   *)
(* prefill; the lookup makes that entry the most recently used.                *)
SharedLen_TooLong(e, r) ==
  Min({Len(LongestCommonPrefix({e.key, Prompt[r]})) + 1, Len(e.blocks), Need(r) - 1})

SharedLen(e, r) == Min({Len(LongestCommonPrefix({e.key, Prompt[r]})), Need(r) - 1})

Adopt(t, r) ==
  LET best == SelectLastInSeq(t.entries, LAMBDA e :
                \A f \in ToSet(t.entries) : SharedLen(e, r) >= SharedLen(f, r))
      entry == t.entries[best]
  IN IF \A e \in ToSet(t.entries) : SharedLen(e, r) = 0 THEN t
     ELSE [t EXCEPT !.entries = Append(RemoveAt(@, best), entry),
                    !.holds[r] = SubSeq(entry.blocks, 1, SharedLen(entry, r))]

Enqueue_KeepsBlocks(t, r) ==
  IF Len(t.queue) >= MaxQueue THEN [t EXCEPT !.ctx = @ \ {r}, !.answer[r] = "error"]
  ELSE [t EXCEPT !.queue = Append(@, r)]

(* prefill_queue.enqueue: whoever finds it full, a request that arrives, a     *)
(* victim or a deferred one, gives its blocks back and fails.                  *)
Enqueue(t, r) ==
  IF Len(t.queue) >= MaxQueue THEN [Release(t, r) EXCEPT !.answer[r] = "error"]
  ELSE [t EXCEPT !.queue = Append(@, r)]

Arrive(r) ==
  /\ r \in unsent /\ unsent' = unsent \ {r}
  /\ s' = Enqueue([Adopt(Drain(s), r) EXCEPT !.ctx = @ \cup {r}], r)
----------------------------------------------------------------------------
(* reclaim_paged_blocks.                                                      *)

(* evict_one_lru and drain, until there is room or nothing is stored. *)
EvictCold(t, r) ==
  LET After(n) == IF n = 0 THEN t
                  ELSE [t EXCEPT !.entries = SubSeq(@, n + 1, Len(@)), !.pending = {}]
      enough == {n \in 0..Len(t.entries) : Room(After(n), r)}
  IN After(IF enough = {} THEN Len(t.entries) ELSE Min(enough))

(* try_evict_for_preemption: the blocks go, the victim queues again and, its   *)
(* id being new, has no context left to donate with.                           *)
Preempt(t, v) ==
  Enqueue(Release([t EXCEPT !.active = [a \in Active(t) \ {v} |-> t.active[a]]], v), v)

LongestFirst(t) ==
  {o \in SetToSeqs(Active(t)) :
     \A i, j \in DOMAIN o : i < j => t.active[o[i]] >= t.active[o[j]]}

(* Victims in that order until there is room or nobody runs. *)
PreemptRunning(t, r, order) ==
  LET After(n) == FoldLeft(Preempt, t, SubSeq(order, 1, n))
      enough == {n \in 0..Len(order) : Room(After(n), r)}
  IN After(IF enough = {} THEN Len(order) ELSE Min(enough))

Reclaim_RunningFirst(t, r, order) == EvictCold(PreemptRunning(t, r, order), r)

Reclaim(t, r, order) == PreemptRunning(EvictCold(t, r), r, order)
----------------------------------------------------------------------------
(* write_prefill acquires the blocks the sequence does not hold yet. *)
Prefilled(t, r) ==
  LET free == SetToSeq(1..Budget \ LiveBlocks(t))
  IN [t EXCEPT !.holds[r] = @ \o SubSeq(free, 1, Need(r) - Len(@))]

(* donate_finished_sequence_cache, or the release of a sequence without        *)
(* context: a stored prompt is replaced and its pins go through the queue.     *)
Donate(t, r) ==
  LET old == SelectSeq(t.entries, LAMBDA e : e.key = Prompt[r])
  IN IF r \notin t.ctx THEN Release(t, r)
     ELSE Drain(Release([t EXCEPT !.entries = Append(SelectSeq(@, LAMBDA e : e.key # Prompt[r]),
                                                     [key |-> Prompt[r], blocks |-> t.holds[r]]),
                                  !.pending = @ \cup {e.blocks : e \in ToSet(old)}], r))

(* finish_prefill: the first token ends the sequence or starts its decoding. *)
FinishPrefill(t, r, stop) ==
  IF stop \/ MaxTokens = 1 THEN Donate([t EXCEPT !.answer[r] = "done"], r)
  ELSE [t EXCEPT !.active = (r :> 1) @@ @]

(* admit_paged_prefill: reject, admit, reclaim and admit, or defer. *)
Admit(t, r, order, stop) ==
  IF Need(r) > Budget THEN [Release(t, r) EXCEPT !.answer[r] = "error"]
  ELSE IF Room(t, r) THEN FinishPrefill(Prefilled(t, r), r, stop)
  ELSE LET u == Reclaim(t, r, order)
       IN IF Room(u, r) THEN FinishPrefill(Prefilled(u, r), r, stop) ELSE Enqueue(u, r)

(* decide_action *)
WantsPrefill == s.queue # << >> /\ Cardinality(Active(s)) < MaxBatch

Prefill ==
  /\ WantsPrefill
  /\ \E order \in LongestFirst(s), stop \in BOOLEAN :
       s' = Admit([s EXCEPT !.queue = Tail(@)], Head(s.queue), order, stop)
  /\ UNCHANGED unsent

(* One decode step of the batch, and finalize_completed for those that stop    *)
(* or reach max_tokens.                                                        *)
Decode ==
  /\ ~WantsPrefill /\ Active(s) # {}
  /\ \E stop \in SUBSET Active(s) :
       LET done == stop \cup {r \in Active(s) : s.active[r] + 1 >= MaxTokens}
           t == [s EXCEPT !.active = [r \in Active(s) \ done |-> s.active[r] + 1],
                          !.answer = [r \in Requests |-> IF r \in done THEN "done" ELSE @[r]]]
       IN s' = FoldLeft(Donate, t, SetToSeq(done))
  /\ UNCHANGED unsent

(* release_session from an HTTP thread: one stored prefix to the queue. *)
ReleaseSession ==
  /\ CanRelease
  /\ \E i \in DOMAIN s.entries :
       s' = [s EXCEPT !.entries = RemoveAt(@, i), !.pending = @ \cup {s.entries[i].blocks}]
  /\ UNCHANGED unsent

Next == Prefill \/ Decode \/ ReleaseSession \/ \E r \in Requests : Arrive(r)

(* The scheduler's loop blocks only when nothing is queued or running. *)
Spec == Init /\ [][Next]_vars /\ WF_vars(Prefill \/ Decode)
----------------------------------------------------------------------------
(* Types; a running sequence has a block for every prompt token, and one that  *)
(* was answered has none.                                                      *)
TypeOK ==
  /\ unsent \subseteq Requests
  /\ s.answer \in [Requests -> {"none", "done", "error"}]
  /\ LiveBlocks(s) \subseteq 1..Budget
  /\ \A r \in Requests : IsInjective(s.holds[r])
  /\ \A r \in Active(s) : Len(s.holds[r]) = Need(r)
  /\ \A r \in Requests : s.answer[r] # "none" => s.holds[r] = << >>

(* Two sequences have a block in common only where their prompts agree up to   *)
(* it: no sequence of adoptions, evictions, preemptions and donations gives a  *)
(* sequence a block whose contents belong to somebody else's tokens.           *)
SharedOnlyPrefix ==
  \A r, q \in Requests : \A i \in DOMAIN s.holds[r], j \in DOMAIN s.holds[q] :
    s.holds[r][i] = s.holds[q][j]
      => i = j /\ SubSeq(Prompt[r], 1, i) = SubSeq(Prompt[q], 1, i)

(* "First evicts cold prompt-cache prefixes, then preempts running sequences": *)
(* when a running sequence loses its state, to be queued again or refused by a *)
(* full queue, no cold prefix is left; the only one stored after the step is   *)
(* that of the request it made room for, when its first token ends it.         *)
ColdBeforeRunning ==
  [][\A r \in Active(s) : Contains(s'.queue, r) \/ s'.answer[r] = "error"
       => \A e \in ToSet(s'.entries) :
            e.key = Prompt[Head(s.queue)] /\ s'.answer[Head(s.queue)] = "done"]_vars

(* A request that fits the budget is not left waiting for ever ("deferring     *)
(* forever would wedge the queue"): everybody who arrives is answered.         *)
Served == \A r \in Requests : r \notin unsent ~> s.answer[r] # "none"
===============================================================================
