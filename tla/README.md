# A TLA+ development for mlxcel's serving path

mlxcel serves language models from one process per model: HTTP threads hand requests to a
scheduler thread that batches them, a paged pool holds their KV state, a prompt cache keeps the
state of finished prompts in memory, and a content-addressed store keeps it on disk, shared by
every server process on the machine. This directory models the parts whose correctness depends on
orders of events that tests hardly produce, checks them with TLC on small instances, and proves
the central results of the disk store with TLAPS for any instance.

`PROJECT.json` holds the machine-readable side: components, runs, mutants (one plausible bug per
checked property, which TLC must detect), the map from definitions to source lines, findings,
hazards and theorems. Paths below are relative to `src/` of the repository.

The scope is small next to the repository: the map covers about 6,700 lines of some 460,000 lines of
Rust (tests included), most of which are model families and tensor code. Within the files of section
1 it follows the state changes; the distributed layers, the largest body of control code still
outside, are on the plan.

## 1. Inventory

| part | state | operations | hard behaviour |
|---|---|---|---|
| v4 block cold store, `lib/mlxcel-core/src/cache/block_cold_store.rs` | block, tombstone, staging and manifest directories; `publication.epoch`; the store lock | `persist`, `write_block`, `write_manifest`, `prune_prefix_manifests`, `gc_blocks`, `load_prefix_longer_than` | several processes on one directory; a sweep racing a publication or a load; I/O errors and crashes between any two steps |
| session registry, same file | registry file (incarnation, generation, `closed_through`), index file, in-process lock | `record_session_manifest`, `session_registry`, `close_current_generation`, `releasable_manifests` | read-modify-write of shared files; a lost registry; deletion authority computed without a lock |
| paged pool, `cache/paged.rs`, `cache/paged_detach.rs`, `cache.rs` | refcounts, free lists, block-to-row maps, block tables, detached sets | acquire, retain, release, append, prefill write, copy-on-write, trim, detach, adopt, clone, restore | long chains of sharing; writes and restores that fail half-way |
| radix trie, `server/prompt_cache/trie.rs` | edges, digests, `subtree_count` | insert, remove, longest walk, candidates | edge splits and merges; counts repaired along one path |
| prompt cache, `server/prompt_cache/{store,lookup,apc_lookup,entry}.rs` with its users in `server/batch/scheduler.rs` | entries, LRU, byte total, trie, release queue | insert, lookup, sweeps, eviction, session release, reset, adopt by clone or by take | a lookup is three critical sections and two more on the entry; HTTP threads run in between |
| batch scheduler, `server/batch/{scheduler,queue,active}.rs` | three lanes, active batch, chunked slot, coalescing map, orphans, contexts, pool slots | ingest, full / chunked / batched prefill, decode, preempt, cancel, orphan, donate, shut down | clients send and disconnect at any point; requests wait for each other's prefill |
| admission gate, `server/batch/scheduler.rs` | blocks held by queued, running, cached and released prefixes | admit, reject, defer, evict, preempt | waiting requests hold what they wait for |

The remaining parts are listed under `components` in `PROJECT.json`, each with the reason it is
left out or what is planned for it: model families, vision, audio, tokenizers and the GPU library
are numerics; routes and translators are formatting; the distributed and disaggregated layers,
the model worker's life cycle and speculative bursts are state machines still to come (section 7).

### How the parts interact

The scheduler looks a prompt up in the prompt cache when a request arrives (`LookupStart` ...
`InstallClone`/`InstallTake` in PromptCache, `Adopt` in PagedAdmission, the `hit` of
`HandleIncoming` in BatchScheduler), and donates a finished sequence to it (`Donate` in all three).
A paged set in the cache pins pool blocks (`DetachPaged`, `CloneDetachedPrefix`, `AdoptPaged` in
PagedPool); only the scheduler can return them, so the cache queues the sets it removes. Finished
prompts also go to disk (`persist`), and a miss in memory may be served from there. Each module
takes its neighbours' promises as they are stated in the other: PromptCache counts a paged set as
one unit of pins, PagedPool shows what such a unit is; BatchScheduler takes a cached prompt as a
shorter prefill, PromptCache shows which prefix that may be.

## 2. Modules

* **BlockColdStore** - every publisher, collector and loader is a thread with a program counter;
  each access to the disk outside the store lock is a step. A directory scan is two steps
  (`MarkBegin`, `MarkEnd`): it surely sees what is there throughout and may see what is there for a
  part. `Abort` is an I/O error, a panic or the death of the process anywhere. Refcount sidecars are
  left out because no guard reads them, and damaged block contents are the nondeterministic failure
  of `ReadBlock`. `StageManifest` takes the first check of a manifest's blocks and its staging as one
  step; the check that counts is the one repeated under the lock.
* **ContentStore** - the contract BlockColdStore implements: publish only over present blocks,
  collect only what no manifest and no load needs; no locks, marks or epochs.
* **SessionRegistry** - one session key, threads of one or several store instances. `closed_through`
  is stored one higher, 0 standing for `None`. The registry file is written atomically.
* **PagedPool** - sequences and detached sets over one pool. A token's K and V are one value that
  names its writer and position, so reading another's data is visible. `call` is the write or
  restore under way; its steps are the points where it can fail.
* **RadixTrie** - the trie as a function from paths to nodes; pure operators.
* **PromptCache** - `inner` is what the store's `RwLock` protects, `worker` the scheduler's lookup.
  Keys are (session, tokens) pairs, and a block hash agrees exactly when the tokens up to the block's
  end do. The match block, the model's alignment and the pool block are separate fields of a setup.
* **BatchScheduler** - one tick is three steps (drain the channel, act, finalize) between which
  clients send and disconnect. `s` holds the scheduler's fields, and its operations are functions on
  that record, composed in the order of the code. Prefill, decode and donation are modelled by their
  outcomes; a donation is stored as KV state, stored as a snapshot, or comes to nothing, and only the
  first reaches the drain of the parked requests. `Uncache` is the prompt cache losing an entry. A
  sequence keeps its request's name when it is preempted, whereas the code gives it a new id. Two
  fields only observe: `dropped` holds the sequences a full batch refused, `undrained` the armed
  prompts one of whose sequences ended on a path that does not drain them.
* **PagedAdmission** - counts blocks over one layer, a "token" being one block of tokens. A decode
  acquires nothing, no sequence is structured, and matching is block-level. A full queue refuses
  arrivals, victims and deferred requests. Batched prefill (`--max-batch-prefill` above 1) does not
  call `admit_paged_prefill` at all and is outside the model.

`MC_*` modules give the constants. Where one question is asked of several configurations, `Setups` is
a set of configuration records, `Init` picks one as `setup` and no step changes it.

## 3. Runs

| run | result | what it shows |
|---|---|---|
| `store` | passes, 279,423 states | no committed manifest loses a block (`NoDanglingManifest`), a load never misses a block it listed (`LeaseProtectsBlocks`), no exit of a call keeps the lock (`LockInv`), and the store implements `ContentStore` (`ContractSpec`) |
| `sessions` | passes, 31,900 states | only closed generations are handed to cleanup, acknowledged associations stay, none is releasable at birth |
| `sessions_two_instances` | violated | two store instances on one directory lose an acknowledged association |
| `paged` | passes, 708,345 states | refcounts equal references, everyone reads back what they wrote or inherited, rows are conserved |
| `paged_layers` | violated | free budget of one layer cannot serve another |
| `prompt` | passes, 42,641 states | trie counts and walks are exact, selection is the best match, an adopted prefix is usable and respects all three block sizes, caps hold, pins are accounted for on every path, declined donations included |
| `prompt_reset` | violated | a reset over HTTP drops paged sets with their pins |
| `batch` | passes, 176,626 states | every unanswered request is in exactly one place, exactly the live sequences and those a full batch refused hold slots, parked requests lose their leader only on the paths without a drain |
| `batch_live` | passes, 19,746 states | every client that stays is answered |
| `batch_unanswered` | violated | parked requests are never released for a model family whose state cannot be detached |
| `admission` | passes, 27,545 states | blocks are shared only below a common prefix; cold prefixes go before running sequences; whoever is answered, refused by a full queue included, holds nothing |
| `admission_wedge` | violated | a request that adopted a prefix waits for the budget its own blocks occupy |

What the code does not guarantee is not excluded from `batch`; it is bounded there. Some terminal paths
leave parked requests behind: `StrandedOnlyUndrained` says that only the paths named in section 6 can
do so. A batched prefill may be larger than the room in the batch: `Accounted` says that the sequences
that do not fit, and only those, end with a closed channel and a slot nobody releases. `batch_live`, in
contrast, holds only for the setups it names, where a donation always succeeds and neither structured
sequences nor batched prefill nor preemption together with coalescing occur. Outside them clients do
wait for ever (run `batch_unanswered` and section 6).

### Bounds

* `store`: two publishers and two calls of `persist`, so that a publication can race another's of the
  same manifest or of one it supersedes; one collector with two mark attempts, so that the retry and
  the give-up both happen; one loader; manifests that share a block and one that prunes the other.
* `sessions`: two threads, two manifests, one close per lifetime and two lifetimes, enough for a close
  between read and write and for a registry lost and minted again.
* `paged`: two sequences and two sets over blocks of two tokens, with three pools: many sharers with
  one-token writes, multi-block writes that exhaust the budget, and two layers that compete for it.
  Symmetry over sequences and over sets is sound: nothing orders them.
* `prompt`: for dense sets a chain, a fork inside it and an unrelated prefix, in the shared bucket and
  one session; a byte cap of 6 tokens and at most three entries both bind. For paged sets a chain
  that starts with a prefix below the minimum of two and ends with one above the byte cap, so that
  both declines happen. Match block, alignment and pool block take different values between 1 and 4,
  dividing each other in either direction or not at all (2 and 3). Requests end at, inside and beyond
  stored prefixes and diverge inside an edge. `PoolSets` bounds the paged sets outside sequences.
* `batch`: three requests, two of them for one prompt of two chunks; a batch of one or two and a
  queue of one or two, so that both fill up; up to three tokens. With one slot a leader is preempted
  while another request is parked behind it; with a window of two a batched prefill meets a batch
  that has room for one. `batch_live` is smaller because liveness is costly, with a four-chunk
  prompt so that an orphan's counter reaches its cap, and a three-chunk prompt beside a request that
  decodes.
* `admission`: budget 4 against prompts of 2, 3, 2, 2 and 5 blocks: no two unrelated prompts beside a
  cached one, and one that never fits. A batch of three and a queue of two, so that a victim and a
  deferred request can each find the queue full.

### Fairness

`batch_live` and the violated liveness runs assume weak fairness of the scheduler's steps only
(`WF_vars(Tick)`, `WF_vars(Prefill \/ Decode)`). The code justifies it: the loop in `run` blocks only
on an empty channel with nothing queued, chunked or active, which is the state where no such step is
enabled; forward passes return. Nothing is assumed of clients, which may never send, leave or stay.
`CHECK_DEADLOCK FALSE` is set where the system may come to rest: all requests answered, all sets
idle, or all bounded lifetimes used up.

## 4. Proofs

`BlockColdStore_proofs` and `SessionRegistry_proofs` hold for any sets of threads, blocks, manifests
and instances, from the assumptions `ConstantsAssumption` (the kinds of threads are disjoint, the null
values are not members, a manifest does not supersede itself) and `SessionAssumption`.

`NoDanglingManifest` is not inductive. `StoreInv` adds what the argument uses: the lock is held exactly
in the critical sections and excludes leases (`LockInv`); between revalidation and rename a
publisher's blocks stay (`RevalidatedInv`); the mark that authorises a sweep, taken under the lock,
covers every committed manifest, prunes only shrinking that set (`RescanInv`); the candidates of a
load keep their blocks (`CandidateInv`). The tombstone rename is the step where all of these meet.
The epoch is not part of the invariant: the second mark under the lock is what makes the sweep safe.
The proof looks at one thread at a time: `Sound` is what `StoreInv` asks of a thread, and a step that
removes no block and commits no manifest can only disturb it for the thread that takes it (`LocalStep`).

* `TypeCorrect`, `LockDiscipline`, `NoDangling`, `LeaseProtects`: the invariants of run `store`.
* `Refinement`: `Spec => ContractSpec`, each step mapping to a step of ContentStore or a stutter.
* `ReleaseSound`: what `releasable_manifests` returns was closed by an accepted close, for any number
  of instances. `ReleaseInv` says that in every registry on disk or in a caller's hands all
  generations below the current one were closed by such a close.
* `AckedKept`, `BornOpenAlways`: with one instance, acknowledged associations stay and none is
  releasable at birth. `RecordInv` says that what a recorder read is still what the files hold. The
  assumption is needed: run `sessions_two_instances` shows what happens without it.

The other modules are only model-checked: PromptCache, RadixTrie, PagedPool and PagedAdmission rest on
folds and recursive structure whose induction is out of the prover's reach, and liveness
(`AllAnswered`, `Served`) always is. Their invariants that need no such induction are on the plan.

## 5. Where the code and its documentation disagree: findings with a run

* `sessions_two_instances`: `session_index_lock` belongs to one `BlockColdStore`, the files to all.
* `paged_layers`: `free_block_budget` promises that acquiring succeeds below the budget; free lists
  are per layer.
* `prompt_reset`: `POST /v1/cache/reset` calls `clear()`, which drops paged sets without queueing them.
* `batch_unanswered`: `donate_finished_sequence_cache` releases parked requests only at its end, after
  its early returns.
* `admission_wedge`: `admit_paged_prefill` asks for the whole prompt's blocks although the request
  already holds its adopted ones.

## 6. Other disagreements met while modelling

They show in the same modules, some under other constants: except for the rows that are read off the
code, TLC finds a counterexample to the property in the last column. They are kept out of the findings
because each concerns less than the five above or has the cause of one of them.

| where | what happens | to reproduce |
|---|---|---|
| block_cold_store.rs:1524 | the epoch is bumped before the rename, so equal epoch reads around a mark do not mean a complete mark (:798 says a publication since the mark invalidates it); the rescan under the lock covers it | `pc[c] = "recheck" /\ epoch = seenEpoch[c] => mans \subseteq mark[c]` in BlockColdStore |
| block_cold_store.rs:2262 | a tombstone left by a stopped collector is never unlinked (:2282 "collectable later") | `b \in tombs ~> b \notin tombs` under fair threads |
| block_cold_store.rs:2170 | `PruneMode::Off` still collects (cold_store_reference.rs:83 "no deletion") | `PruneMode = "Off"`, `tombs = {}` |
| trie.rs:606 | `remove` offers only ancestors for merging, so an emptied inner node with one child stays (:602); lookups stay exact | every inner node of `inner.trie` has an entry or two children |
| apc_lookup.rs:81 | a match that ends inside a block is cut back although all blocks agree (:46 "is preserved") | `ApcPrefixLen = matched` when all tokens agree |
| scheduler.rs:4421 | a batched prefill larger than the room in the batch closes a channel without an event, keeps the slot and drains nobody (:4506 "no request is lost") | `s.dropped = {}` in run `batch` |
| scheduler.rs:4420 | a batched prefill does not ask `admit_paged_prefill` (:3917 "Paged block-budget admission gate") | read off the code; not in PagedAdmission |
| scheduler.rs:5247, :5287 | a structured-output error leaves the requests parked behind it (:484 "Drained on ANY termination path") | `Stranded = {}` (below) in run `batch` |
| scheduler.rs:2560 | so does a leader that was preempted and finishes: its new id has no context, and the donation returns before the drain | the same, with `Setups <- {Leader}` |
| scheduler.rs:5556, :6336 | so do a preempted leader the full queue refuses and one cancelled in the queue | the same, with `maxQueue = 1`, and with `Disconnect` |
| scheduler.rs:2594-2868 | so do a donation that detaches nothing and one that stores a snapshot | the same, with `Setups <- {Undonated, Snapshots}` |
| scheduler.rs:6198 | an orphan is orphaned again at every tick and cancelled once the cap is reached (:6224); the counter drifts from the orphans there are (:487, :6231) | `s.count = Cardinality(s.orphaned \cap Chunking(s))` |
| scheduler.rs:1684 | a failed prefill queues all its waiters (:1642 "promote ONE") | queue length after `Abort` with two parked requests |
| scheduler.rs:5213 | an orphan's waiters are dispatched before its state is donated (:1641 "they HIT the cache") | `p \in t.cached` at the drain in `FinishPrefill` |
| scheduler.rs:3817 | a chunked prefill waits as long as anything decodes (:3818 "Interleave") | count consecutive `Decode` ticks with `s.chunked # {}` in an added variable |
| scheduler.rs:5584 | the default `LongestFirst` policy evicts higher priorities too (:3977; docs/CONTINUOUS_BATCHING.md:22) | in run `batch`, a `Prefill` step from a full batch evicts `v` with `Priority[v] > Priority[NextUp(s)]` |
| scheduler.rs:5452 | a preempted sequence's prompt-cache context stays under its old id (:6313) | read off the code; `Evict` leaves the old id's context out of `ctx` |
| scheduler.rs:3979 | prefill is chosen to preempt, nothing may be preempted, nobody decodes (:5578 "a rare scheduling stall") | `AllAnswered` with `structured = {r3}` in one slot |
| scheduler.rs:3909 | with `MaxBatch >= 2` two sequences that do not fit together preempt each other for ever (:3950) | `Served`, `Budget = 3`, two unrelated two-block prompts, `MaxBatch = 2` |
| scheduler.rs:3899 | a released session's pins are not drained when nothing is left to evict (:2515 "promptly") | `Served` with the same prompts and budget, `CanRelease = TRUE`, `MaxBatch = 1` |

`Stranded` stands for the prompts whose parked requests no live sequence leads,
`{p \in Armed(s) : s.armed[p] # << >> /\ \A r \in Live(s) : Prompt[r] # p}`.

## 7. Plan

Done: the disk store with its contract and proofs, the session registry with its proofs, the paged
pool, the trie and prompt cache, the scheduler, the admission gate. Next, in this order:

1. **Cluster membership** (`distributed/{registry,heartbeat,failure_detector}.rs`): heartbeats over a
   lossy network; a node declared dead is not routed to, a live one returns. Small sets of nodes, a
   bounded clock.
2. **Request life cycle** (`request_tracker.rs`, `handoff_queue.rs`, `backpressure.rs`): the tracker's
   state machine, the queue's overflow policies; proofs of the queue bound and of terminal states.
3. **Disaggregated serving** (`disaggregated/*.rs`): the coordinator composed with 2, against an
   abstract "every request ends exactly once".
4. **Worker life cycle** (`server/model_provider.rs`, `server/model_worker.rs`): composed with the
   scheduler's channel; fatal errors reach every waiting client.
5. **Pipeline** (`pipeline/schedule.rs` as a pure algorithm against a reference, `elastic.rs` as a
   protocol) and the accept walk of speculative decoding.
6. **Disk tier at a miss** (`load_prefix_longer_than` feeding PromptCache) as a composition, and the
   snapshot tier of the prompt cache.
7. **Proofs**: `TypeOK` and `Accounted`-style invariants of the request tracker and of the membership
   module; refcount conservation of PagedPool for single operations.

## 8. Not modelled

* SessionRegistry: the torn write of one temporary file by two instances, beyond the lost update that
  run `sessions_two_instances` already shows.
* PagedPool: Turbo4 sidecars, sliding windows, the shadow path, the metadata-only
  `restore_paged_state`.
* PromptCache: the snapshot tier, the whole-entry restriction for multimodal prompts, backend
  mismatch, the early stop of `enforce_caps` at a zero-size entry (no donated entry has size zero).
* BatchScheduler: the entries left under a preempted sequence's old id, speculative bursts, `donation_in_progress` (donation is synchronous, so it is empty
  whenever a request is handled), hand-off requests, sampling.
* PagedAdmission: batched prefill, blocks acquired by generated tokens, structured sequences,
  priorities.
