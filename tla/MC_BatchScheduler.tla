-------------------------- MODULE MC_BatchScheduler --------------------------
(* Small instances of BatchScheduler for TLC. *)
EXTENDS BatchScheduler

CONSTANTS r1, r2, r3, a, b

(* Three requests of one priority, two of them for a prompt of two chunks, in  *)
(* a batch of two: coalescing, orphaning, failing passes and shutdown.         *)
Core ==
  [requests |-> {r1, r2, r3}, prompt |-> r1 :> a @@ r2 :> a @@ r3 :> b,
   priority |-> [r \in {r1, r2, r3} |-> 2], chunks |-> a :> 2 @@ b :> 1,
   structured |-> {}, withCtx |-> {r1, r2, r3}, donations |-> {"kv"}, takes |-> TRUE,
   canAbort |-> TRUE, maxBatch |-> 2, maxQueue |-> 2, window |-> 1, maxTokens |-> 3,
   preempt |-> FALSE, policy |-> "priority",
   decouple |-> TRUE, minOrphanChunks |-> 2, maxOrphaned |-> 1, canShutdown |-> TRUE]

Quiet == [Core EXCEPT !.canAbort = FALSE, !.canShutdown = FALSE]

(* Three priorities, no coalescing, a queue of one, the default policy. *)
Preempt ==
  [Quiet EXCEPT !.priority = r1 :> 3 @@ r2 :> 2 @@ r3 :> 1, !.maxQueue = 1,
                !.preempt = TRUE, !.policy = "longest", !.decouple = FALSE]

(* One slot, and a request that preempts the one the other is parked behind;   *)
(* the queue has room for both of them or for one.                             *)
Leader ==
  [Quiet EXCEPT !.priority = r1 :> 1 @@ r2 :> 2 @@ r3 :> 3, !.maxBatch = 1,
                !.preempt = TRUE, !.takes = FALSE, !.maxTokens = 2]

(* A structured sequence cannot be preempted, and fails its mask while another *)
(* request is parked behind it.                                                *)
Masked == [Leader EXCEPT !.structured = {r1}]

(* Donations that come to nothing, and a family that donates snapshots. *)
Undonated == [Quiet EXCEPT !.donations = {"kv", "skip"}, !.maxTokens = 2]
Snapshots == [Undonated EXCEPT !.donations = {"snapshot", "skip"}, !.takes = FALSE]

(* Batched prefill with a window larger than the room, and failing rows. *)
Wide ==
  [Quiet EXCEPT !.structured = {r3}, !.withCtx = {r1, r2}, !.canAbort = TRUE,
                !.window = 2, !.maxTokens = 2]

MCSetups == {Core, Preempt, Leader, [Leader EXCEPT !.maxQueue = 1], Masked,
             Undonated, Snapshots, Wide}

(* Two requests for a prompt of four chunks. *)
Pair ==
  [Core EXCEPT !.requests = {r1, r2}, !.prompt = r1 :> a @@ r2 :> a,
               !.priority = r1 :> 2 @@ r2 :> 2, !.chunks = a :> 4, !.withCtx = {r1, r2},
               !.maxOrphaned = 2, !.canShutdown = FALSE]

(* A prompt of three chunks that waits while another request decodes. *)
Interleaved ==
  [Pair EXCEPT !.prompt = r1 :> a @@ r2 :> b, !.chunks = a :> 3 @@ b :> 1, !.canAbort = FALSE]

LiveSetups == {Pair, Interleaved, [Preempt EXCEPT !.maxBatch = 1, !.maxQueue = 2]}

(* The same pair on a model family whose state cannot be detached. *)
ModelOwned ==
  {[Pair EXCEPT !.chunks = a :> 2, !.donations = {"skip"}, !.canAbort = FALSE, !.maxTokens = 2]}
==============================================================================
