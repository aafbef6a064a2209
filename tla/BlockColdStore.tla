--------------------------- MODULE BlockColdStore ---------------------------
(***************************************************************************)
(* The v4 content-addressed KV block store on disk                         *)
(* (src/lib/mlxcel-core/src/cache/block_cold_store.rs): persist with its   *)
(* publication protocol and its prune-on-persist, the epoch-guarded mark   *)
(* and sweep of gc_blocks, and loads under a read lease.  The processes    *)
(* are threads of any number of server processes that share one base       *)
(* directory, so every step that touches the disk outside the store lock   *)
(* is a step of its own.                                                   *)
(*                                                                         *)
(* A block and a manifest are the names of the directories that hold them. *)
(* Refcount files are left out: no modelled guard reads them (gc_blocks    *)
(* only logs them).                                                        *)
(***************************************************************************)
EXTENDS Naturals, FiniteSets

CONSTANTS
    Publishers,      \* threads that call persist
    Collectors,      \* threads that call gc_blocks
    Loaders,         \* threads that call load_prefix_longer_than
    Blocks,          \* block addresses
    Manifests,       \* manifest addresses
    BlocksOf,        \* the blocks a manifest names
    Supersedes,      \* the manifests proved a strict token prefix of a manifest
    PruneMode,       \* prune_mode of the store instances
    MaxMarkAttempts, \* MAX_MARK_ATTEMPTS of gc_blocks
    MaxPersists,     \* bound on the calls of persist
    NoProc, NoManifest

Procs == Publishers \cup Collectors \cup Loaders

ASSUME ConstantsAssumption ==
    /\ Publishers \cap Collectors = {}
    /\ Publishers \cap Loaders = {}
    /\ Collectors \cap Loaders = {}
    /\ NoProc \notin Procs
    /\ NoManifest \notin Manifests
    /\ BlocksOf \in [Manifests -> SUBSET Blocks]
    /\ Supersedes \in [Manifests -> SUBSET Manifests]
    /\ \A m \in Manifests : m \notin Supersedes[m]
    /\ PruneMode \in {"Off", "Observe", "Delete"}
    /\ MaxMarkAttempts \in Nat \ {0}
    /\ MaxPersists \in Nat

VARIABLES
    blocks,    \* block directories under their final name
    tombs,     \* .tombstone.<block> directories
    stage,     \* .tmp.<manifest> directories
    mans,      \* committed manifest directories
    epoch,     \* publication.epoch, NoEpoch when the file is missing
    exlock,    \* the holder of the store lock in exclusive mode
    leases,    \* the holders of it in shared mode
    pc,        \* where each thread stands in its call
    man,       \* the manifest a publisher writes or a loader assembles
    todo,      \* blocks still to install, read or tombstone
    old,       \* manifests still to prune, or to try to load
    mark,      \* manifests a collector's scan is sure to have read
    seenEpoch, \* the epoch a collector compares the next read with
    attempts,  \* mark attempts of the running gc_blocks
    mine,      \* tombstones this collector renamed and has to unlink
    persists   \* calls of persist so far

disk == <<blocks, tombs, stage, mans, epoch>>
lock == <<exlock, leases>>
gcVars == <<mark, seenEpoch, attempts, mine>>
vars == <<disk, lock, pc, man, todo, old, gcVars, persists>>

(* read_publication_epoch returns u64::MAX for a missing file, and the     *)
(* first bump writes 1; 0 is never on disk and stands for the sentinel.    *)
NoEpoch == 0

PublisherPC == {"idle", "install", "staged", "locked", "checked", "bumped",
                "published", "pruning"}
CollectorPC == {"idle", "before", "begin", "scan", "after", "stable",
                "nominate", "wait", "recheck", "rescan", "sweep", "unlink"}
LoaderPC == {"idle", "list", "try", "read"}

(* The steps at which a thread holds the lock: the guard is a local that   *)
(* drop releases on every return path.                                     *)
ExclusivePC == {"locked", "checked", "bumped", "recheck", "rescan", "sweep"}
LeasePC == {"list", "try", "read"}

LiveBlocks(S) == UNION {BlocksOf[m] : m \in S}

-----------------------------------------------------------------------------
Init ==
    /\ blocks = {} /\ tombs = {} /\ stage = {} /\ mans = {}
    /\ epoch = NoEpoch
    /\ exlock = NoProc /\ leases = {}
    /\ pc = [p \in Procs |-> "idle"]
    /\ man = [p \in Procs |-> NoManifest]
    /\ todo = [p \in Procs |-> {}]
    /\ old = [p \in Procs |-> {}]
    /\ mark = [p \in Procs |-> {}]
    /\ seenEpoch = [p \in Procs |-> NoEpoch]
    /\ attempts = [p \in Procs |-> 0]
    /\ mine = [p \in Procs |-> {}]
    /\ persists = 0

Goto(p, l) == pc' = [pc EXCEPT ![p] = l]

(* Mutant: the exclusive mode does not wait for the leases.                *)
AcquireStoreLock_IgnoresLeases(p) ==
    /\ exlock = NoProc
    /\ exlock' = p /\ UNCHANGED leases

(* acquire_store_lock: the process RwLock in write mode, then LOCK_EX.     *)
AcquireStoreLock(p) ==
    /\ exlock = NoProc /\ leases = {}
    /\ exlock' = p /\ UNCHANGED leases

Unlock(p) ==
    /\ exlock' = IF exlock = p THEN NoProc ELSE exlock
    /\ leases' = leases \ {p}

(* Every local of a finished call is gone.                                 *)
Forget(p) ==
    /\ Goto(p, "idle")
    /\ man' = [man EXCEPT ![p] = NoManifest]
    /\ todo' = [todo EXCEPT ![p] = {}]
    /\ old' = [old EXCEPT ![p] = {}]
    /\ mark' = [mark EXCEPT ![p] = {}]
    /\ seenEpoch' = [seenEpoch EXCEPT ![p] = NoEpoch]
    /\ attempts' = [attempts EXCEPT ![p] = 0]
    /\ mine' = [mine EXCEPT ![p] = {}]

Return(p) == Forget(p) /\ Unlock(p)

-----------------------------------------------------------------------------
(* persist                                                                 *)

(* Mutant: the target of the call is not kept.                             *)
PersistStart_NoTarget(p, m) ==
    /\ pc[p] = "idle" /\ persists < MaxPersists
    /\ persists' = persists + 1
    /\ todo' = [todo EXCEPT ![p] = BlocksOf[m]]
    /\ Goto(p, "install")
    /\ UNCHANGED <<disk, lock, man, old, gcVars>>

PersistStart(p, m) ==
    /\ pc[p] = "idle" /\ persists < MaxPersists
    /\ persists' = persists + 1
    /\ man' = [man EXCEPT ![p] = m]
    /\ todo' = [todo EXCEPT ![p] = BlocksOf[m]]
    /\ Goto(p, "install")
    /\ UNCHANGED <<disk, lock, old, gcVars>>

(* One turn of the block loop: an existing directory is skipped, an absent *)
(* one is staged and renamed to its final name.                            *)
InstallBlock(p, b) ==
    /\ pc[p] = "install" /\ b \in todo[p]
    /\ blocks' = blocks \cup {b}
    /\ todo' = [todo EXCEPT ![p] = @ \ {b}]
    /\ UNCHANGED <<tombs, stage, mans, epoch, lock, pc, man, old, gcVars, persists>>

(* write_manifest up to the lock: return early when the directory exists,  *)
(* otherwise stage .tmp.<manifest>.                                        *)
StageManifest(p) ==
    /\ pc[p] = "install" /\ todo[p] = {}
    /\ \/ /\ man[p] \in mans
          /\ Goto(p, "published")
          /\ UNCHANGED stage
       \/ /\ man[p] \notin mans
          /\ stage' = stage \cup {man[p]}
          /\ Goto(p, "staged")
    /\ UNCHANGED <<blocks, tombs, mans, epoch, lock, man, todo, old, gcVars, persists>>

PublishLock(p) ==
    /\ pc[p] = "staged"
    /\ AcquireStoreLock(p)
    /\ Goto(p, "locked")
    /\ UNCHANGED <<disk, man, todo, old, gcVars, persists>>

(* Mutant: blocks seen before the lock are taken to be there still.        *)
RevalidateBlocks_Skipped(p) ==
    /\ pc[p] = "locked"
    /\ Goto(p, "checked")
    /\ UNCHANGED <<disk, lock, man, todo, old, gcVars, persists>>

(* Revalidation under the lock; a missing block fails the call.            *)
RevalidateBlocks(p) ==
    /\ pc[p] = "locked"
    /\ IF BlocksOf[man[p]] \subseteq blocks
       THEN /\ Goto(p, "checked")
            /\ UNCHANGED <<lock, man, todo, old, gcVars>>
       ELSE Return(p)
    /\ UNCHANGED <<disk, persists>>

BumpPublicationEpoch(p) ==
    /\ pc[p] = "checked"
    /\ epoch' = epoch + 1
    /\ Goto(p, "bumped")
    /\ UNCHANGED <<blocks, tombs, stage, mans, lock, man, todo, old, gcVars, persists>>

(* fs::rename(tmp, final): fails when another publisher's rename took the  *)
(* shared .tmp directory, or when the final directory is there already.    *)
CommitManifest(p) ==
    /\ pc[p] = "bumped"
    /\ IF man[p] \in stage /\ man[p] \notin mans
       THEN /\ mans' = mans \cup {man[p]}
            /\ stage' = stage \ {man[p]}
            /\ Goto(p, "published")
            /\ Unlock(p)
            /\ UNCHANGED <<man, todo, old, gcVars>>
       ELSE Return(p) /\ UNCHANGED <<mans, stage>>
    /\ UNCHANGED <<blocks, tombs, epoch, persists>>

(* prune_prefix_manifests lists the directory once; Observe only logs, Off *)
(* does not get here.                                                      *)
PruneList(p) ==
    /\ pc[p] = "published"
    /\ old' = [old EXCEPT ![p] = IF PruneMode = "Delete"
                                 THEN Supersedes[man[p]] \cap mans ELSE {}]
    /\ Goto(p, "pruning")
    /\ UNCHANGED <<disk, lock, man, todo, gcVars, persists>>

(* delete_manifest of one entry, without the store lock.  A scan that has  *)
(* not reached the entry yet can no longer be sure to read it.             *)
PruneManifest(p, m) ==
    /\ pc[p] = "pruning" /\ m \in old[p]
    /\ mans' = mans \ {m}
    /\ old' = [old EXCEPT ![p] = @ \ {m}]
    /\ mark' = [c \in Procs |-> IF pc[c] \in {"scan", "rescan"} THEN mark[c] \ {m} ELSE mark[c]]
    /\ UNCHANGED <<blocks, tombs, stage, epoch, lock, pc, man, todo,
                   seenEpoch, attempts, mine, persists>>

PersistDone(p) ==
    /\ pc[p] = "pruning" /\ old[p] = {}
    /\ Return(p)
    /\ UNCHANGED <<disk, persists>>

-----------------------------------------------------------------------------
(* gc_blocks                                                               *)

GcStart(c) ==
    /\ pc[c] = "idle"
    /\ Goto(c, "before")
    /\ UNCHANGED <<disk, lock, man, todo, old, gcVars, persists>>

ReadEpochBefore(c) ==
    /\ pc[c] = "before"
    /\ seenEpoch' = [seenEpoch EXCEPT ![c] = epoch]
    /\ Goto(c, "begin")
    /\ UNCHANGED <<disk, lock, man, todo, old, mark, attempts, mine, persists>>

(* mark_reachable_blocks is a directory scan: it reads every manifest that *)
(* is there from its start to its end, and may read one that is there only *)
(* for a part of it.                                                       *)
MarkBegin(c) ==
    /\ pc[c] = "begin"
    /\ mark' = [mark EXCEPT ![c] = mans]
    /\ Goto(c, "scan")
    /\ UNCHANGED <<disk, lock, man, todo, old, seenEpoch, attempts, mine, persists>>

MarkEnd(c) ==
    /\ pc[c] = "scan"
    /\ \E extra \in SUBSET (mans \ mark[c]) : mark' = [mark EXCEPT ![c] = @ \cup extra]
    /\ Goto(c, "after")
    /\ UNCHANGED <<disk, lock, man, todo, old, seenEpoch, attempts, mine, persists>>

ReadEpochAfter(c) ==
    /\ pc[c] = "after"
    /\ \/ /\ seenEpoch[c] = epoch /\ epoch # NoEpoch
          /\ Goto(c, "stable")
          /\ UNCHANGED <<lock, man, todo, old, gcVars>>
       \/ /\ ~(seenEpoch[c] = epoch /\ epoch # NoEpoch)
          /\ attempts[c] + 1 < MaxMarkAttempts
          /\ attempts' = [attempts EXCEPT ![c] = @ + 1]
          /\ Goto(c, "before")
          /\ UNCHANGED <<lock, man, todo, old, mark, seenEpoch, mine>>
       \/ /\ ~(seenEpoch[c] = epoch /\ epoch # NoEpoch)
          /\ attempts[c] + 1 >= MaxMarkAttempts
          /\ Return(c)
    /\ UNCHANGED <<disk, persists>>

(* marked_epoch is a third read of the epoch file, after the stable pair.  *)
ReadMarkedEpoch(c) ==
    /\ pc[c] = "stable"
    /\ seenEpoch' = [seenEpoch EXCEPT ![c] = epoch]
    /\ Goto(c, "nominate")
    /\ UNCHANGED <<disk, lock, man, todo, old, mark, attempts, mine, persists>>

(* The unlocked nomination: unreachable blocks at or over the age floor.   *)
(* In Observe mode, and only there, nothing is nominated.                  *)
Nominate(c) ==
    /\ pc[c] = "nominate"
    /\ \E aged \in SUBSET (blocks \ LiveBlocks(mark[c])) :
          IF PruneMode # "Observe" /\ aged # {}
          THEN /\ todo' = [todo EXCEPT ![c] = aged]
               /\ Goto(c, "wait")
               /\ UNCHANGED <<lock, man, old, gcVars>>
          ELSE Return(c)
    /\ UNCHANGED <<disk, persists>>

SweepLock(c) ==
    /\ pc[c] = "wait"
    /\ AcquireStoreLock(c)
    /\ Goto(c, "recheck")
    /\ UNCHANGED <<disk, man, todo, old, gcVars, persists>>

(* Mutant: an unmoved epoch is trusted, and the first mark authorises the  *)
(* sweep.                                                                  *)
RecheckEpoch_NoRescan(c) ==
    /\ pc[c] = "recheck"
    /\ IF epoch = seenEpoch[c]
       THEN /\ Goto(c, "sweep")
            /\ UNCHANGED <<lock, man, todo, old, gcVars>>
       ELSE Return(c)
    /\ UNCHANGED <<disk, persists>>

(* A moved epoch ends the pass; otherwise the authoritative second mark    *)
(* starts, under the lock.                                                 *)
RecheckEpoch(c) ==
    /\ pc[c] = "recheck"
    /\ IF epoch = seenEpoch[c]
       THEN /\ mark' = [mark EXCEPT ![c] = mans]
            /\ Goto(c, "rescan")
            /\ UNCHANGED <<lock, man, todo, old, seenEpoch, attempts, mine>>
       ELSE Return(c)
    /\ UNCHANGED <<disk, persists>>

RescanEnd(c) ==
    /\ pc[c] = "rescan"
    /\ \E extra \in SUBSET (mans \ mark[c]) : mark' = [mark EXCEPT ![c] = @ \cup extra]
    /\ Goto(c, "sweep")
    /\ UNCHANGED <<disk, lock, man, todo, old, seenEpoch, attempts, mine, persists>>

(* One candidate: skipped when it became reachable; the rename fails, and  *)
(* the block stays, when it is gone or its tombstone name is taken.        *)
Tombstone(c, b) ==
    /\ pc[c] = "sweep" /\ b \in todo[c]
    /\ todo' = [todo EXCEPT ![c] = @ \ {b}]
    /\ IF b \notin LiveBlocks(mark[c]) /\ b \in blocks /\ b \notin tombs
       THEN /\ blocks' = blocks \ {b}
            /\ tombs' = tombs \cup {b}
            /\ mine' = [mine EXCEPT ![c] = @ \cup {b}]
       ELSE UNCHANGED <<blocks, tombs, mine>>
    /\ UNCHANGED <<stage, mans, epoch, lock, pc, man, old, mark, seenEpoch, attempts, persists>>

SweepUnlock(c) ==
    /\ pc[c] = "sweep" /\ todo[c] = {}
    /\ Unlock(c)
    /\ Goto(c, "unlink")
    /\ UNCHANGED <<disk, man, todo, old, gcVars, persists>>

UnlinkTombstone(c, b) ==
    /\ pc[c] = "unlink" /\ b \in mine[c]
    /\ tombs' = tombs \ {b}
    /\ mine' = [mine EXCEPT ![c] = @ \ {b}]
    /\ UNCHANGED <<blocks, stage, mans, epoch, lock, pc, man, todo, old, mark,
                   seenEpoch, attempts, persists>>

GcDone(c) ==
    /\ pc[c] = "unlink" /\ mine[c] = {}
    /\ Return(c)
    /\ UNCHANGED <<disk, persists>>

-----------------------------------------------------------------------------
(* load_prefix_longer_than                                                 *)

AcquireReadLease(l) ==
    /\ pc[l] = "idle" /\ exlock = NoProc
    /\ leases' = leases \cup {l}
    /\ Goto(l, "list")
    /\ UNCHANGED <<disk, exlock, man, todo, old, gcVars, persists>>

(* The scan keeps the manifests that match more than the floor; tier 1 is  *)
(* the case of at most one, found by its address.                          *)
ListCandidates(l) ==
    /\ pc[l] = "list"
    /\ \E match \in SUBSET mans : old' = [old EXCEPT ![l] = match]
    /\ Goto(l, "try")
    /\ UNCHANGED <<disk, lock, man, todo, gcVars, persists>>

TryCandidate(l, m) ==
    /\ pc[l] = "try" /\ m \in old[l]
    /\ man' = [man EXCEPT ![l] = m]
    /\ todo' = [todo EXCEPT ![l] = BlocksOf[m]]
    /\ old' = [old EXCEPT ![l] = @ \ {m}]
    /\ Goto(l, "read")
    /\ UNCHANGED <<disk, lock, gcVars, persists>>

(* read_block; an absent or damaged block sends the load to the next       *)
(* candidate.                                                              *)
ReadBlock(l, b) ==
    /\ pc[l] = "read" /\ b \in todo[l]
    /\ \/ /\ b \in blocks
          /\ todo' = [todo EXCEPT ![l] = @ \ {b}]
          /\ UNCHANGED <<pc, man>>
       \/ /\ todo' = [todo EXCEPT ![l] = {}]
          /\ man' = [man EXCEPT ![l] = NoManifest]
          /\ Goto(l, "try")
    /\ UNCHANGED <<disk, lock, old, gcVars, persists>>

LoadReturn(l) ==
    /\ \/ pc[l] = "read" /\ todo[l] = {}
       \/ pc[l] = "try" /\ old[l] = {}
    /\ Return(l)
    /\ UNCHANGED <<disk, persists>>

-----------------------------------------------------------------------------
Abort_KeepsLock(p) ==
    /\ pc[p] # "idle"
    /\ Forget(p)
    /\ UNCHANGED <<disk, lock, persists>>

(* An I/O error, a panic or the death of the process: the call ends, the   *)
(* kernel and the guard's drop free the lock, the disk stays as it is.     *)
Abort(p) ==
    /\ pc[p] # "idle"
    /\ Return(p)
    /\ UNCHANGED <<disk, persists>>

Publish(p) ==
    \/ \E b \in Blocks : InstallBlock(p, b)
    \/ StageManifest(p)
    \/ PublishLock(p)
    \/ RevalidateBlocks(p)
    \/ BumpPublicationEpoch(p)
    \/ CommitManifest(p)
    \/ PruneList(p)
    \/ \E m \in Manifests : PruneManifest(p, m)
    \/ PersistDone(p)

Collect(c) ==
    \/ ReadEpochBefore(c)
    \/ MarkBegin(c)
    \/ MarkEnd(c)
    \/ ReadEpochAfter(c)
    \/ ReadMarkedEpoch(c)
    \/ Nominate(c)
    \/ SweepLock(c)
    \/ RecheckEpoch(c)
    \/ RescanEnd(c)
    \/ \E b \in Blocks : Tombstone(c, b)
    \/ SweepUnlock(c)
    \/ \E b \in Blocks : UnlinkTombstone(c, b)
    \/ GcDone(c)

Load(l) ==
    \/ ListCandidates(l)
    \/ \E m \in Manifests : TryCandidate(l, m)
    \/ \E b \in Blocks : ReadBlock(l, b)
    \/ LoadReturn(l)

Next ==
    \/ \E p \in Publishers : Publish(p) \/ \E m \in Manifests : PersistStart(p, m)
    \/ \E c \in Collectors : Collect(c) \/ GcStart(c)
    \/ \E l \in Loaders : Load(l) \/ AcquireReadLease(l)
    \/ \E p \in Procs : Abort(p)

Spec == Init /\ [][Next]_vars

-----------------------------------------------------------------------------
(* Types of the directories, of the lock and of the calls in progress: a   *)
(* thread only ever stands at a step of the call its kind makes.           *)
TypeOK ==
    /\ blocks \subseteq Blocks /\ tombs \subseteq Blocks
    /\ stage \subseteq Manifests /\ mans \subseteq Manifests
    /\ epoch \in Nat
    /\ exlock \in Procs \cup {NoProc} /\ leases \subseteq Procs
    /\ pc \in [Procs -> PublisherPC \cup CollectorPC \cup LoaderPC]
    /\ \A p \in Publishers : pc[p] \in PublisherPC
    /\ \A c \in Collectors : pc[c] \in CollectorPC
    /\ \A l \in Loaders : pc[l] \in LoaderPC
    /\ man \in [Procs -> Manifests \cup {NoManifest}]
    /\ todo \in [Procs -> SUBSET Blocks]
    /\ old \in [Procs -> SUBSET Manifests]
    /\ mark \in [Procs -> SUBSET Manifests]
    /\ seenEpoch \in [Procs -> Nat]
    /\ attempts \in [Procs -> Nat]
    /\ mine \in [Procs -> SUBSET Blocks]
    /\ persists \in Nat

(* Every committed manifest finds all the blocks it names on disk: neither *)
(* a publication that raced a sweep nor a sweep that raced a publication   *)
(* leaves a manifest pointing at collected data.                           *)
NoDanglingManifest == \A m \in mans : BlocksOf[m] \subseteq blocks

(* While a load assembles a manifest under its lease, no block the         *)
(* manifest names goes away, even when a prune deletes the manifest.       *)
LeaseProtectsBlocks ==
    \A l \in Loaders : pc[l] = "read" => BlocksOf[man[l]] \subseteq blocks

(* The store implements its contract: publication, the sweep and the       *)
(* prune, interleaved with loads, are the contract's atomic steps.         *)
Pinned ==
    {b \in Blocks : \E l \in Loaders :
        \/ pc[l] \in {"try", "read"} /\ \E m \in old[l] : b \in BlocksOf[m]
        \/ pc[l] = "read" /\ b \in BlocksOf[man[l]]}

Contract == INSTANCE ContentStore WITH pinned <- Pinned

ContractSpec == Contract!Spec

-----------------------------------------------------------------------------
(* The inductive invariant behind NoDanglingManifest and                   *)
(* LeaseProtectsBlocks.                                                    *)

(* The store lock is held, in either mode, exactly inside the steps that    *)
(* need it, and never in both modes: no return, error or crash of a call    *)
(* leaves it behind for the others to wait on.                              *)
LockInv ==
    /\ \A p \in Procs : exlock = p <=> pc[p] \in ExclusivePC
    /\ \A p \in Procs : p \in leases <=> pc[p] \in LeasePC
    /\ exlock # NoProc => leases = {}

TargetInv ==
    \A p \in Procs : pc[p] \in (PublisherPC \ {"idle"}) \cup {"read"} => man[p] \in Manifests

RevalidatedInv ==
    \A p \in Publishers : pc[p] \in {"checked", "bumped"} => BlocksOf[man[p]] \subseteq blocks

RescanInv == \A c \in Collectors : pc[c] \in {"rescan", "sweep"} => mans \subseteq mark[c]

CandidateInv ==
    \A l \in Loaders : pc[l] \in {"try", "read"} => \A m \in old[l] : BlocksOf[m] \subseteq blocks

StoreInv ==
    /\ TypeOK
    /\ LockInv
    /\ TargetInv
    /\ RevalidatedInv
    /\ RescanInv
    /\ CandidateInv
    /\ LeaseProtectsBlocks
    /\ NoDanglingManifest
=============================================================================
