---------------------------- MODULE BatchScheduler ----------------------------
(* The continuous-batching scheduler thread (server/batch/scheduler.rs with    *)
(* queue.rs and active.rs): requests arrive on a channel, wait in three        *)
(* priority lanes, are prefilled whole or chunk by chunk, decode in a batch    *)
(* and donate their state to the prompt cache.  Requests for a prompt that is  *)
(* being prefilled are parked ("coalesced") until that prefill ends, and a     *)
(* chunked prefill whose client left may be driven on as an orphan.            *)
(*                                                                             *)
(* One tick of the loop is three steps, between which clients may send and     *)
(* disconnect: drain the channel, act, finalize.  The paged block budget is    *)
(* the subject of PagedAdmission; speculative bursts are left out.             *)
EXTENDS Integers, Sequences, FiniteSets, SequencesExt

CONSTANT Setups         \* the servers and their clients considered

(* requests; prompt, priority = what they ask and their lane (3 is High);      *)
(* chunks = prefill chunks of a prompt; structured = requests under a          *)
(* structured-output constraint; withCtx = those with a prompt-cache context;  *)
(* donations = what a donation may come to: "kv" (detached and stored),        *)
(* "snapshot" (a copy stored) or "skip"; takes = an adoption takes the stored  *)
(* state out (dense) and does not share it (paged); canAbort = a forward pass  *)
(* may fail; maxTokens = every request's; window = max_batch_prefill;          *)
(* preempt, policy, decouple, minOrphanChunks, maxOrphaned, maxBatch, maxQueue *)
(* = the configuration; canShutdown = a shutdown message may be sent.          *)
ASSUME \A u \in Setups :
         /\ u.prompt \in [u.requests -> DOMAIN u.chunks] /\ u.priority \in [u.requests -> 1..3]
         /\ u.maxBatch \in Nat \ {0} /\ u.maxTokens \in Nat \ {0} /\ u.window \in Nat \ {0}
         /\ u.policy \in {"longest", "priority"}
         /\ u.donations \in (SUBSET {"kv", "snapshot", "skip"}) \ {{}}

VARIABLES
  setup,      \* the configuration
  unsent,     \* requests the clients have not sent yet
  chan,       \* request_rx
  cancelled,  \* requests whose client has disconnected
  pc,         \* where the loop is: drain, act, finalize, stopped
  s           \* BatchScheduler's fields

vars == <<setup, unsent, chan, cancelled, pc, s>>

Requests == setup.requests
Prompt == setup.prompt
Priority == setup.priority
Chunks == setup.chunks
Structured == setup.structured
WithCtx == setup.withCtx
Donations == setup.donations
Takes == setup.takes
CanAbort == setup.canAbort
MaxBatch == setup.maxBatch
MaxQueue == setup.maxQueue
MaxBatchPrefill == setup.window
MaxTokens == setup.maxTokens
EnablePreemption == setup.preempt
Policy == setup.policy
Decouple == setup.decouple
MinOrphanChunks == setup.minOrphanChunks
MaxOrphaned == setup.maxOrphaned
CanShutdown == setup.canShutdown

(* lanes, armed = prefill_in_progress, chunked = chunked_prefill_seq (at most  *)
(* one, with the chunks it has left), active = active_batch, count =           *)
(* orphaned_prefill_count, ctx = prompt_cache_seq_ctx, slots = cache_pool,     *)
(* hits = sequences that adopted a cached prefix, cached = donated prompts,    *)
(* answer = the first terminal event a request's client gets.  Two fields only *)
(* observe: dropped = sequences a full batch refused, undrained = armed        *)
(* prompts one of whose sequences ended without draining them.                 *)
Empty ==
  [lanes |-> [p \in 1..3 |-> << >>], armed |-> << >>, chunked |-> {}, active |-> << >>,
   orphaned |-> {}, count |-> 0, ctx |-> {}, slots |-> {}, hits |-> {}, cached |-> {},
   answer |-> [r \in Requests |-> "none"], dropped |-> {}, undrained |-> {}]

Init == /\ setup \in Setups /\ unsent = Requests /\ chan = << >> /\ cancelled = {}
        /\ pc = "drain" /\ s = Empty

Armed(t) == DOMAIN t.armed
Active(t) == DOMAIN t.active
Chunking(t) == {c.req : c \in t.chunked}
Queue(t) == t.lanes[3] \o t.lanes[2] \o t.lanes[1]
Parked(t) == UNION {ToSet(t.armed[p]) : p \in Armed(t)}
Live(t) == ToSet(Queue(t)) \cup Chunking(t) \cup Active(t)
Full(t) == Cardinality(Active(t)) >= MaxBatch
QueueFull(t) == Len(Queue(t)) >= MaxQueue
PoolCapacity == MaxBatch + MaxQueue

Answer(t, r, event) ==
  [t EXCEPT !.answer[r] = IF @ = "none" THEN event ELSE @]

(* release_sequence_caches and the removal of the prompt-cache context. *)
Forget(t, r) == [t EXCEPT !.slots = @ \ {r}, !.ctx = @ \ {r}, !.hits = @ \ {r}]

(* The end of a sequence on a path that does not reach the drain. *)
Undrained(t, r) == [t EXCEPT !.undrained = @ \cup ({Prompt[r]} \cap Armed(t))]

Enqueue(t, r) == [t EXCEPT !.lanes[Priority[r]] = Append(@, r)]
----------------------------------------------------------------------------
(* Ingestion and coalescing.                                                  *)

HandleIncoming_NoQueueCap(t, r) ==
  LET p   == Prompt[r]
      hit == r \in WithCtx /\ p \in t.cached
      out == [t EXCEPT !.cached = IF hit /\ Takes THEN @ \ {p} ELSE @]
  IN IF Decouple /\ p \in Armed(t) THEN [t EXCEPT !.armed[p] = Append(@, r)]
     ELSE IF Cardinality(t.slots) >= PoolCapacity THEN Answer(out, r, "error")
     ELSE Enqueue([out EXCEPT !.slots = @ \cup {r},
                              !.ctx   = IF r \in WithCtx THEN @ \cup {r} ELSE @,
                              !.hits  = IF hit THEN @ \cup {r} ELSE @], r)

(* handle_incoming / enqueue_request: park behind a prefill of the same        *)
(* prompt; otherwise look the prompt up, take a pool slot and queue.  What the *)
(* lookup took out of the cache is gone also when there is no room.            *)
HandleIncoming(t, r) ==
  LET p   == Prompt[r]
      hit == r \in WithCtx /\ p \in t.cached
      out == [t EXCEPT !.cached = IF hit /\ Takes THEN @ \ {p} ELSE @]
  IN IF Decouple /\ p \in Armed(t) THEN [t EXCEPT !.armed[p] = Append(@, r)]
     ELSE IF Cardinality(t.slots) >= PoolCapacity \/ QueueFull(t) THEN Answer(out, r, "error")
     ELSE Enqueue([out EXCEPT !.slots = @ \cup {r},
                              !.ctx   = IF r \in WithCtx THEN @ \cup {r} ELSE @,
                              !.hits  = IF hit THEN @ \cup {r} ELSE @], r)

Disarmed(t, p) == [t EXCEPT !.armed = [q \in Armed(t) \ {p} |-> t.armed[q]],
                            !.undrained = @ \ {p}]

DrainCoalescing_LosesLast(t, p) ==
  IF p \notin Armed(t) \/ t.armed[p] = << >> THEN t
  ELSE FoldLeft(HandleIncoming, Disarmed(t, p), Front(t.armed[p]))

(* drain_prefill_coalescing outside shutdown: promoting one leader and         *)
(* redispatching everybody make the same calls.                                *)
DrainCoalescing(t, p) ==
  IF p \notin Armed(t) THEN t ELSE FoldLeft(HandleIncoming, Disarmed(t, p), t.armed[p])

Abort_NoDrain(t, r) == Forget(Answer(t, r, "error"), r)

(* abort_sequence *)
Abort(t, r) == Forget(Answer(DrainCoalescing(t, Prompt[r]), r, "error"), r)

(* donate_finished_sequence_cache.  An unhealthy finish, a missing context, a  *)
(* family without detachable state, a paged history below the minimum, a       *)
(* detach that fails or does not match the history ("skip") and a snapshot     *)
(* family's donation all return before the drain.                              *)
Donate(t, r, healthy, donation) ==
  IF ~healthy \/ r \notin t.ctx THEN Undrained(t, r)
  ELSE LET out == [t EXCEPT !.ctx = @ \ {r}]
           kept == [out EXCEPT !.cached = @ \cup {Prompt[r]}]
       IN CASE donation = "skip"     -> Undrained(out, r)
            [] donation = "snapshot" -> Undrained(kept, r)
            [] donation = "kv"       -> DrainCoalescing([kept EXCEPT !.slots = @ \ {r}], Prompt[r])
----------------------------------------------------------------------------
(* Prefill.                                                                   *)

(* active_batch.add: a full batch drops the sequence, which closes the         *)
(* client's channel; nothing releases its slot or its context.                 *)
AddActive(t, r, state) ==
  IF Full(t) THEN Undrained([Answer(t, r, "closed") EXCEPT !.dropped = @ \cup {r}], r)
  ELSE [t EXCEPT !.active = (r :> [state |-> state, tokens |-> 1]) @@ @]

(* finish_prefill: an orphan's waiters are drained and the orphan is left for  *)
(* finalize; otherwise sample, and stop at once, decode on, or fail the        *)
(* structured-output mask.                                                     *)
FinishPrefill(t, r, outcome) ==
  IF r \in t.orphaned
  THEN AddActive([DrainCoalescing(t, Prompt[r]) EXCEPT !.count = IF @ = 0 THEN 0 ELSE @ - 1],
                 r, "cancelled")
  ELSE CASE outcome = "structured"  -> Undrained(Forget(Answer(t, r, "error"), r), r)
         [] outcome = "decode"      -> AddActive(t, r, "decoding")
         [] outcome \in Donations   -> Forget(Donate(Answer(t, r, "done"), r, TRUE, outcome), r)

(* To stop at the first token is to donate, with any outcome of that. *)
PrefillOutcomes(r) ==
  Donations \cup (IF MaxTokens > 1 THEN {"decode"} ELSE {})
            \cup (IF r \in Structured THEN {"structured"} ELSE {})

(* One chunk of a prefill with `left` chunks still to run: abort, store for    *)
(* the next tick, or finish.                                                   *)
RunChunk(t, r, left) ==
  (IF CanAbort THEN {Abort(t, r)} ELSE {})
  \cup (IF left > 1 THEN {[t EXCEPT !.chunked = {[req |-> r, left |-> left - 1]}]}
        ELSE {FinishPrefill(t, r, o) : o \in PrefillOutcomes(r)})

ChunksOf(t, r) == IF r \in t.hits THEN 1 ELSE Chunks[Prompt[r]]

(* The start of a prefill outside the batched path: the prompt is armed. *)
StartPrefill(t, r) ==
  LET p == Prompt[r]
      armed == IF Decouple /\ p \notin Armed(t) THEN [t EXCEPT !.armed = (p :> << >>) @@ @] ELSE t
  IN RunChunk(armed, r, ChunksOf(t, r))

Lane(t) == CHOOSE p \in 1..3 : t.lanes[p] # << >> /\ \A q \in (p+1)..3 : t.lanes[q] = << >>
NextUp(t) == Head(Queue(t))
Dequeue(t) == [t EXCEPT !.lanes[Lane(t)] = Tail(@)]
----------------------------------------------------------------------------
(* Preemption.                                                                *)

ShouldPreempt(t) ==
  /\ EnablePreemption /\ Full(t) /\ Queue(t) # << >>
  /\ \E a \in Active(t) : Priority[NextUp(t)] > Priority[a]

(* select_eviction_victim; ties are the hash map's order. *)
Victims(t) ==
  LET C == Active(t) \ Structured
      Longest(D) == {v \in D : \A c \in D : t.active[v].tokens >= t.active[c].tokens}
  IN IF Policy = "longest" THEN Longest(C)
     ELSE Longest({v \in C : \A c \in C : Priority[v] =< Priority[c]})

(* try_evict_for_preemption: its state is dropped and it queues again under a  *)
(* new sequence id, to which the context of the old one is not moved.          *)
Evict(t, v) ==
  LET out == [t EXCEPT !.active = [a \in Active(t) \ {v} |-> t.active[a]],
                       !.ctx = @ \ {v}, !.hits = @ \ {v}]
  IN IF QueueFull(t) THEN Undrained([Answer(out, v, "error") EXCEPT !.slots = @ \ {v}], v)
     ELSE Enqueue(out, v)
----------------------------------------------------------------------------
(* The loop.                                                                  *)

Send(r) == /\ r \in unsent /\ pc # "stopped"
           /\ unsent' = unsent \ {r} /\ chan' = Append(chan, r)
           /\ UNCHANGED <<setup, cancelled, pc, s>>

Disconnect(r) == /\ r \notin unsent \cup cancelled /\ s.answer[r] = "none"
                 /\ cancelled' = cancelled \cup {r}
                 /\ UNCHANGED <<setup, unsent, chan, pc, s>>

SendShutdown == /\ CanShutdown /\ pc # "stopped" /\ "shutdown" \notin ToSet(chan)
                /\ chan' = Append(chan, "shutdown")
                /\ UNCHANGED <<setup, unsent, cancelled, pc, s>>

(* The drain that follows the loop fails the parked requests; everything else  *)
(* the scheduler and the channel still hold is dropped.                        *)
Stop ==
  LET told == [r \in Requests |-> IF r \in Parked(s) /\ s.answer[r] = "none"
                                  THEN "error" ELSE s.answer[r]]
      gone == Live(s) \cup (ToSet(chan) \cap Requests)
  IN /\ pc' = "stopped"
     /\ s' = [Empty EXCEPT !.answer = [r \in Requests |-> IF r \in gone /\ told[r] = "none"
                                                          THEN "closed" ELSE told[r]]]
     /\ chan' = << >>
     /\ UNCHANGED <<setup, unsent, cancelled>>

Receive ==
  /\ pc = "drain" /\ chan # << >>
  /\ IF Head(chan) = "shutdown" THEN Stop
     ELSE /\ s' = HandleIncoming(s, Head(chan)) /\ chan' = Tail(chan)
          /\ UNCHANGED <<setup, unsent, cancelled, pc>>

Drained == /\ pc = "drain" /\ chan = << >> /\ pc' = "act"
           /\ UNCHANGED <<setup, unsent, chan, cancelled, s>>

(* decide_action *)
Decide(t) ==
  IF t.chunked # {} THEN IF Active(t) # {} THEN "decode" ELSE "prefill"
  ELSE IF Active(t) = {} /\ Queue(t) = << >> THEN "idle"
  ELSE IF Active(t) = {} THEN "prefill"
  ELSE IF ShouldPreempt(t) \/ (~Full(t) /\ Queue(t) # << >>) THEN "prefill"
  ELSE "decode"

Act(t) == /\ s' = t /\ pc' = "finalize"
          /\ UNCHANGED <<setup, unsent, chan, cancelled>>

Batched == MaxBatchPrefill > 1 /\ Len(Queue(s)) >= 2 /\ s.chunked = {}

ContinueChunk ==
  /\ pc = "act" /\ Decide(s) = "prefill" /\ s.chunked # {}
  /\ \E c \in s.chunked : \E t \in RunChunk([s EXCEPT !.chunked = {}], c.req, c.left) : Act(t)

Prefill ==
  /\ pc = "act" /\ Decide(s) = "prefill" /\ s.chunked = {} /\ ~Batched
  /\ \E t \in IF Full(s) THEN {Evict(s, v) : v \in Victims(s)} ELSE {s} :
       \E u \in StartPrefill(Dequeue(t), NextUp(t)) : Act(u)

(* Cannot evict: the tick is skipped. *)
PrefillBlocked ==
  /\ pc = "act" /\ Decide(s) = "prefill" /\ s.chunked = {} /\ ~Batched
  /\ Full(s) /\ Victims(s) = {}
  /\ Act(s)

(* execute_batched_prefill takes its window without regard to the room in the  *)
(* active batch, and arms nothing.  Each row ends as a prefill of its own.     *)
BatchedPrefill ==
  /\ pc = "act" /\ Decide(s) = "prefill" /\ Batched
  /\ LET window == SubSeq(Queue(s), 1, MaxBatchPrefill)
         rest   == [s EXCEPT !.lanes = [p \in 1..3 |->
                      SelectSeq(s.lanes[p], LAMBDA r : ~Contains(window, r))]]
         Row(t, r, o) == IF o = "abort" THEN Abort(t, r) ELSE FinishPrefill(t, r, o)
     IN \E o \in [ToSet(window) -> Donations \cup {"decode", "structured", "abort"}] :
          /\ \A r \in ToSet(window) : o[r] \in PrefillOutcomes(r) \/ (CanAbort /\ o[r] = "abort")
          /\ Act(FoldLeft(LAMBDA t, r : Row(t, r, o[r]), rest, window))

(* One decode step for the whole batch: each sequence stops, fails its         *)
(* structured-output mask, or grows by a token up to max_tokens.               *)
Decode ==
  /\ pc = "act" /\ Decide(s) = "decode"
  /\ \E o \in [Active(s) -> {"token", "stop", "error"}] :
       /\ \A r \in Active(s) : o[r] = "error" => r \in Structured
       /\ LET Step(r) == LET n == s.active[r].tokens + 1
                         IN IF o[r] # "token" THEN [state |-> o[r], tokens |-> n - 1]
                            ELSE [state |-> IF n >= MaxTokens THEN "stop" ELSE "decoding",
                                  tokens |-> n]
              failed == {r \in Active(s) : o[r] = "error"}
          IN Act([s EXCEPT !.active = [r \in Active(s) |-> Step(r)],
                           !.answer = [r \in Requests |-> IF r \in failed THEN "error" ELSE @[r]]])

(* Idle blocks on the channel. *)
Idle ==
  /\ pc = "act" /\ Decide(s) = "idle" /\ chan # << >>
  /\ IF Head(chan) = "shutdown" THEN Stop
     ELSE /\ s' = HandleIncoming(s, Head(chan)) /\ chan' = Tail(chan) /\ pc' = "finalize"
          /\ UNCHANGED <<setup, unsent, cancelled>>
----------------------------------------------------------------------------
(* finalize_completed.                                                        *)

CancelActive(t) ==
  [t EXCEPT !.active = [r \in Active(t) |->
     IF @[r].state = "decoding" /\ r \in cancelled /\ r \notin t.orphaned
     THEN [@[r] EXCEPT !.state = "cancelled"] ELSE @[r]]]

(* should_orphan_prefill *)
CanOrphan(t, r) == Decouple /\ Chunks[Prompt[r]] >= MinOrphanChunks /\ t.count < MaxOrphaned

CancelChunked_DropsWaiters(t) ==
  LET gone == Chunking(t) \cap cancelled
  IN IF gone = {} THEN t
     ELSE LET r == CHOOSE r \in gone : TRUE
          IN IF CanOrphan(t, r)
             THEN [Answer(t, r, "error") EXCEPT !.orphaned = @ \cup {r}, !.count = @ + 1]
             ELSE Forget([Answer(t, r, "error") EXCEPT !.chunked = {}], r)

(* A chunked prefill whose client is gone is orphaned, or cancelled and its    *)
(* waiters drained.  The test reads the cancelled flag alone.                  *)
CancelChunked(t) ==
  LET gone == Chunking(t) \cap cancelled
  IN IF gone = {} THEN t
     ELSE LET r == CHOOSE r \in gone : TRUE
          IN IF CanOrphan(t, r)
             THEN [Answer(t, r, "error") EXCEPT !.orphaned = @ \cup {r}, !.count = @ + 1]
             ELSE Forget(DrainCoalescing([Answer(t, r, "error") EXCEPT !.chunked = {}],
                                         Prompt[r]), r)

(* cancel_queued_disconnected: a queued sequence may lead the parked requests  *)
(* of its prompt, after a preemption, and does not drain them.                 *)
CancelQueued(t) ==
  LET gone == ToSet(Queue(t)) \cap cancelled
      out  == FoldLeft(LAMBDA u, r : Undrained(Forget(Answer(u, r, "error"), r), r),
                       t, SetToSeq(gone))
  IN [out EXCEPT !.lanes = [p \in 1..3 |-> SelectSeq(@[p], LAMBDA r : r \notin gone)]]

Finish(t, r, donation) ==
  Forget(Donate([Answer(t, r, "done") EXCEPT !.active = [a \in Active(t) \ {r} |-> t.active[a]],
                                             !.orphaned = @ \ {r}],
                r, t.active[r].state # "error", donation), r)

Finalize ==
  /\ pc = "finalize"
  /\ LET t == CancelQueued(CancelChunked(CancelActive(s)))
         finished == {r \in Active(t) : t.active[r].state # "decoding"}
     IN \E order \in SetToSeqs(finished), donation \in [finished -> Donations] :
          s' = FoldLeft(LAMBDA u, r : Finish(u, r, donation[r]), t, order)
  /\ pc' = "drain"
  /\ UNCHANGED <<setup, unsent, chan, cancelled>>

(* The prompt cache evicts, expires or releases an entry. *)
Uncache(p) == /\ p \in s.cached /\ pc # "stopped"
              /\ s' = [s EXCEPT !.cached = @ \ {p}]
              /\ UNCHANGED <<setup, unsent, chan, cancelled, pc>>

Tick == \/ Receive \/ Drained \/ ContinueChunk \/ Prefill \/ PrefillBlocked
        \/ BatchedPrefill \/ Decode \/ Idle \/ Finalize

Clients == SendShutdown \/ \E r \in Requests : Send(r) \/ Disconnect(r)

Next == Tick \/ Clients \/ \E p \in DOMAIN Chunks : Uncache(p)

(* The loop never blocks but on an empty channel with nothing to do. *)
Spec == Init /\ [][Next]_vars /\ WF_vars(Tick)
----------------------------------------------------------------------------
(* Types, the capacities of the queue and the batch, and the one chunked slot. *)
TypeOK ==
  /\ unsent \subseteq Requests /\ cancelled \subseteq Requests
  /\ ToSet(chan) \subseteq Requests \cup {"shutdown"}
  /\ pc \in {"drain", "act", "finalize", "stopped"}
  /\ ToSet(Queue(s)) \subseteq Requests /\ Len(Queue(s)) =< MaxQueue
  /\ Active(s) \subseteq Requests /\ Cardinality(Active(s)) =< MaxBatch
  /\ Cardinality(s.chunked) =< 1 /\ Armed(s) \subseteq DOMAIN Chunks
  /\ s.ctx \subseteq Requests /\ s.slots \subseteq Requests /\ s.hits \subseteq s.slots
  /\ s.count \in Nat /\ s.answer \in [Requests -> {"none", "done", "error", "closed"}]

(* Every request that was sent and not answered is in exactly one place - the  *)
(* channel, a coalescing queue, a lane, the chunked slot or the batch - and    *)
(* exactly the live sequences, and those a full batch refused, hold cache-pool *)
(* slots: none of the hand-overs between ingestion, parking, prefill,          *)
(* preemption and cleanup drops a request silently, keeps one twice, or leaks  *)
(* a slot.  A refused one ends with its channel closed; nothing else closes a  *)
(* channel before shutdown.                                                    *)
Accounted ==
  /\ \A r \in Requests \ unsent :
       LET places == Len(SelectSeq(chan, LAMBDA x : x = r))
                     + Len(SelectSeq(Queue(s), LAMBDA x : x = r))
                     + Cardinality({p \in Armed(s) : Contains(s.armed[p], r)})
                     + (IF r \in Chunking(s) THEN 1 ELSE 0)
                     + (IF r \in Active(s) THEN 1 ELSE 0)
       IN places =< 1 /\ (s.answer[r] = "none" => places = 1)
  /\ s.slots = Live(s) \cup s.dropped /\ Live(s) \cap s.dropped = {}
  /\ pc # "stopped" => s.dropped = {r \in Requests : s.answer[r] = "closed"}

(* Requests parked behind a prompt that no live sequence has can only have     *)
(* been stranded by a sequence of that prompt that ended on a path without     *)
(* drain_prefill_coalescing: a donation that returned early (no context, as    *)
(* after a preemption, or nothing detached), a structured-output failure, a    *)
(* full queue or batch, a cancellation in the queue.  Aborts, cancelled chunks,*)
(* finished orphans and complete donations always release them, also when      *)
(* several sequences of one prompt are alive ("MUST be called on EVERY         *)
(* terminal path of a prefill" holds of these).                                *)
StrandedOnlyUndrained ==
  \A p \in Armed(s) :
    s.armed[p] # << >> /\ (\A r \in Live(s) : Prompt[r] # p) => p \in s.undrained

(* The clients that have sent a request, are still there and know nothing yet. *)
Waiting == {r \in Requests \ (unsent \cup cancelled) : s.answer[r] = "none"}

(* A client that stays connected gets a terminal event. *)
AllAnswered ==
  \A r \in UNION {u.requests : u \in Setups} : r \in Waiting ~> r \notin Waiting
===============================================================================
