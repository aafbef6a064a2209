------------------------ MODULE BlockColdStore_proofs ------------------------
(***************************************************************************)
(* Proofs about BlockColdStore, for any number of threads, blocks and      *)
(* manifests.                                                              *)
(***************************************************************************)
EXTENDS BlockColdStore, TLAPS

(* The empty store satisfies the inductive invariant.                      *)
LEMMA InitStoreInv == Init => StoreInv
  BY ConstantsAssumption, SMTT(30)
  DEF Init, StoreInv, TypeOK, LockInv, TargetInv, RevalidatedInv, RescanInv, CandidateInv,
      LeaseProtectsBlocks, NoDanglingManifest, NoEpoch, ExclusivePC, LeasePC,
      PublisherPC, CollectorPC, LoaderPC, Procs

(* No step of a publisher, collector or loader, and no crash, leaves the   *)
(* types; a publisher's manifest is needed to know what it commits.        *)
LEMMA TypeStep == TypeOK /\ TargetInv /\ [Next]_vars => TypeOK'
<1> SUFFICES ASSUME TypeOK, TargetInv, [Next]_vars PROVE TypeOK'
  OBVIOUS
<1> USE ConstantsAssumption
    DEF TypeOK, TargetInv, Procs, PublisherPC, CollectorPC, LoaderPC, Goto, Forget, Unlock, Return,
        AcquireStoreLock, NoEpoch, disk, lock, gcVars
<1>1. ASSUME NEW p \in Publishers, NEW m \in Manifests, PersistStart(p, m) PROVE TypeOK'
  BY <1>1, SMTT(30) DEF PersistStart
<1>2. ASSUME NEW p \in Publishers, NEW b \in Blocks, InstallBlock(p, b) PROVE TypeOK'
  BY <1>2, SMTT(30) DEF InstallBlock
<1>3. ASSUME NEW p \in Publishers, StageManifest(p) PROVE TypeOK'
  BY <1>3, SMTT(30) DEF StageManifest
<1>4. ASSUME NEW p \in Publishers, PublishLock(p) PROVE TypeOK'
  BY <1>4, SMTT(30) DEF PublishLock
<1>5. ASSUME NEW p \in Publishers, RevalidateBlocks(p) PROVE TypeOK'
  BY <1>5, SMTT(30) DEF RevalidateBlocks
<1>6. ASSUME NEW p \in Publishers, BumpPublicationEpoch(p) PROVE TypeOK'
  BY <1>6, SMTT(30) DEF BumpPublicationEpoch
<1>7. ASSUME NEW p \in Publishers, CommitManifest(p) PROVE TypeOK'
  BY <1>7, SMTT(30) DEF CommitManifest
<1>8. ASSUME NEW p \in Publishers, PruneList(p) PROVE TypeOK'
  BY <1>8, SMTT(30) DEF PruneList
<1>9. ASSUME NEW p \in Publishers, NEW m \in Manifests, PruneManifest(p, m) PROVE TypeOK'
  BY <1>9, SMTT(30) DEF PruneManifest
<1>10. ASSUME NEW p \in Publishers, PersistDone(p) PROVE TypeOK'
  BY <1>10, SMTT(30) DEF PersistDone
<1>11. ASSUME NEW p \in Collectors, GcStart(p) PROVE TypeOK'
  BY <1>11, SMTT(30) DEF GcStart
<1>12. ASSUME NEW p \in Collectors, ReadEpochBefore(p) PROVE TypeOK'
  BY <1>12, SMTT(30) DEF ReadEpochBefore
<1>13. ASSUME NEW p \in Collectors, MarkBegin(p) PROVE TypeOK'
  BY <1>13, SMTT(30) DEF MarkBegin
<1>14. ASSUME NEW p \in Collectors, MarkEnd(p) PROVE TypeOK'
  BY <1>14, SMTT(30) DEF MarkEnd
<1>15. ASSUME NEW p \in Collectors, ReadEpochAfter(p) PROVE TypeOK'
  BY <1>15, SMTT(30) DEF ReadEpochAfter
<1>16. ASSUME NEW p \in Collectors, ReadMarkedEpoch(p) PROVE TypeOK'
  BY <1>16, SMTT(30) DEF ReadMarkedEpoch
<1>17. ASSUME NEW p \in Collectors, Nominate(p) PROVE TypeOK'
  BY <1>17, SMTT(30) DEF Nominate
<1>18. ASSUME NEW p \in Collectors, SweepLock(p) PROVE TypeOK'
  BY <1>18, SMTT(30) DEF SweepLock
<1>19. ASSUME NEW p \in Collectors, RecheckEpoch(p) PROVE TypeOK'
  BY <1>19, SMTT(30) DEF RecheckEpoch
<1>20. ASSUME NEW p \in Collectors, RescanEnd(p) PROVE TypeOK'
  BY <1>20, SMTT(30) DEF RescanEnd
<1>21. ASSUME NEW p \in Collectors, NEW b \in Blocks, Tombstone(p, b) PROVE TypeOK'
  BY <1>21, SMTT(30) DEF Tombstone
<1>22. ASSUME NEW p \in Collectors, SweepUnlock(p) PROVE TypeOK'
  BY <1>22, SMTT(30) DEF SweepUnlock
<1>23. ASSUME NEW p \in Collectors, NEW b \in Blocks, UnlinkTombstone(p, b) PROVE TypeOK'
  BY <1>23, SMTT(30) DEF UnlinkTombstone
<1>24. ASSUME NEW p \in Collectors, GcDone(p) PROVE TypeOK'
  BY <1>24, SMTT(30) DEF GcDone
<1>25. ASSUME NEW p \in Loaders, AcquireReadLease(p) PROVE TypeOK'
  BY <1>25, SMTT(30) DEF AcquireReadLease
<1>26. ASSUME NEW p \in Loaders, ListCandidates(p) PROVE TypeOK'
  BY <1>26, SMTT(30) DEF ListCandidates
<1>27. ASSUME NEW p \in Loaders, NEW m \in Manifests, TryCandidate(p, m) PROVE TypeOK'
  BY <1>27, SMTT(30) DEF TryCandidate
<1>28. ASSUME NEW p \in Loaders, NEW b \in Blocks, ReadBlock(p, b) PROVE TypeOK'
  BY <1>28, SMTT(30) DEF ReadBlock
<1>29. ASSUME NEW p \in Loaders, LoadReturn(p) PROVE TypeOK'
  BY <1>29, SMTT(30) DEF LoadReturn
<1>30. ASSUME NEW p \in Procs, Abort(p) PROVE TypeOK'
  BY <1>30, SMTT(30) DEF Abort
<1>31. CASE UNCHANGED vars
  BY <1>31, SMTT(30) DEF vars, disk, lock, gcVars
<1> QED
  BY <1>1, <1>2, <1>3, <1>4, <1>5, <1>6, <1>7, <1>8, <1>9, <1>10, <1>11, <1>12, <1>13,
         <1>14, <1>15, <1>16, <1>17, <1>18, <1>19, <1>20, <1>21, <1>22, <1>23, <1>24,
         <1>25, <1>26, <1>27, <1>28, <1>29, <1>30, <1>31, ZenonT(30) DEF Next, Publish, Collect, Load

-----------------------------------------------------------------------------
(* The lock.                                                               *)

LEMMA ModesApart == ExclusivePC \cap LeasePC = {} /\ "idle" \notin ExclusivePC \cup LeasePC
  BY DEF ExclusivePC, LeasePC

(* A step inside or outside of the critical sections.                      *)
LEMMA LockKept ==
  ASSUME LockInv, NEW p \in Procs, \A q \in Procs \ {p} : pc'[q] = pc[q],
         pc'[p] \in ExclusivePC <=> pc[p] \in ExclusivePC, pc'[p] \in LeasePC <=> pc[p] \in LeasePC,
         exlock' = exlock, leases' = leases
  PROVE  LockInv'
  BY SMTT(30) DEF LockInv

LEMMA LockTaken ==
  ASSUME LockInv, NEW p \in Procs, \A q \in Procs \ {p} : pc'[q] = pc[q],
         pc'[p] \in ExclusivePC, AcquireStoreLock(p)
  PROVE  LockInv'
<1>1. \A q \in Procs : pc[q] \notin ExclusivePC /\ pc[q] \notin LeasePC
  BY ConstantsAssumption, SMTT(30) DEF LockInv, AcquireStoreLock
<1>2. \A q \in Procs : (exlock' = q <=> pc'[q] \in ExclusivePC) /\ (q \in leases' <=> pc'[q] \in LeasePC)
  BY <1>1, ModesApart, SMTT(30) DEF AcquireStoreLock
<1> QED
  BY <1>2, SMTT(30) DEF LockInv, AcquireStoreLock

LEMMA LeaseTaken ==
  ASSUME LockInv, NEW p \in Procs, \A q \in Procs \ {p} : pc'[q] = pc[q],
         pc'[p] \in LeasePC, exlock = NoProc, exlock' = exlock, leases' = leases \cup {p}
  PROVE  LockInv'
<1>1. \A q \in Procs : pc[q] \notin ExclusivePC
  BY ConstantsAssumption, SMTT(30) DEF LockInv
<1>2. \A q \in Procs : (exlock' = q <=> pc'[q] \in ExclusivePC) /\ (q \in leases' <=> pc'[q] \in LeasePC)
  BY <1>1, ConstantsAssumption, ModesApart, SMTT(30) DEF LockInv
<1> QED
  BY <1>2, SMTT(30) DEF LockInv

LEMMA LockFreed ==
  ASSUME LockInv, NEW p \in Procs, \A q \in Procs \ {p} : pc'[q] = pc[q],
         pc'[p] \notin ExclusivePC, pc'[p] \notin LeasePC, Unlock(p)
  PROVE  LockInv'
<1>1. ASSUME NEW q \in Procs
      PROVE  (exlock' = q <=> pc'[q] \in ExclusivePC) /\ (q \in leases' <=> pc'[q] \in LeasePC)
  <2>1. CASE q = p
    BY <2>1, ConstantsAssumption, SMTT(30) DEF Unlock
  <2>2. CASE q # p
    BY <2>2, ConstantsAssumption, SMTT(30) DEF Unlock, LockInv
  <2> QED
    BY <2>1, <2>2
<1>2. exlock' # NoProc => leases' = {}
  BY SMTT(30) DEF Unlock, LockInv
<1> QED
  BY <1>1, <1>2 DEF LockInv

-----------------------------------------------------------------------------
(* What the invariant asks of the thread q, with the blocks B and the      *)
(* manifests M on disk.                                                    *)
Sound(q, at, m, o, mk, B, M) ==
  /\ at \in (PublisherPC \ {"idle"}) \cup {"read"} => m \in Manifests
  /\ q \in Publishers /\ at \in {"checked", "bumped"} => BlocksOf[m] \subseteq B
  /\ q \in Collectors /\ at \in {"rescan", "sweep"} => M \subseteq mk
  /\ q \in Loaders /\ at \in {"try", "read"} => \A x \in o : BlocksOf[x] \subseteq B
  /\ q \in Loaders /\ at = "read" => BlocksOf[m] \subseteq B

AllSound == \A q \in Procs : Sound(q, pc[q], man[q], old[q], mark[q], blocks, mans)

LEMMA Soundness == StoreInv <=> TypeOK /\ LockInv /\ NoDanglingManifest /\ AllSound
<1>1. AllSound <=> TargetInv /\ RevalidatedInv /\ RescanInv /\ CandidateInv /\ LeaseProtectsBlocks
  <2>1. ASSUME AllSound
        PROVE  TargetInv /\ RevalidatedInv /\ RescanInv /\ CandidateInv /\ LeaseProtectsBlocks
    BY <2>1, ZenonT(30)
    DEF AllSound, Sound, Procs, TargetInv, RevalidatedInv, RescanInv, CandidateInv, LeaseProtectsBlocks
  <2>2. ASSUME TargetInv, RevalidatedInv, RescanInv, CandidateInv, LeaseProtectsBlocks PROVE AllSound
    BY <2>2, ZenonT(30)
    DEF AllSound, Sound, TargetInv, RevalidatedInv, RescanInv, CandidateInv, LeaseProtectsBlocks
  <2> QED
    BY <2>1, <2>2, Zenon
<1> QED
  BY <1>1, Zenon DEF StoreInv

LEMMA SoundnessAfter == TypeOK' /\ LockInv' /\ NoDanglingManifest' /\ AllSound' => StoreInv'
  BY Soundness, PTL

(* Only the thread p does something.                                       *)
Others(p) == \A q \in Procs \ {p} : /\ pc'[q] = pc[q] /\ man'[q] = man[q]
                                    /\ old'[q] = old[q] /\ mark'[q] = mark[q]

SoundAfter(p) == Sound(p, pc'[p], man'[p], old'[p], mark'[p], blocks', mans')

(* While no block goes away and no manifest is committed, it is enough to  *)
(* look at the thread that moves.                                          *)
LEMMA LocalStep ==
  ASSUME StoreInv, TypeOK', LockInv', NEW p \in Procs, Others(p), SoundAfter(p),
         blocks \subseteq blocks', mans' \subseteq mans
  PROVE  StoreInv'
<1>0. AllSound /\ NoDanglingManifest
  BY Soundness
<1>1. ASSUME NEW q \in Procs PROVE Sound(q, pc'[q], man'[q], old'[q], mark'[q], blocks', mans')
  <2>1. CASE q = p
    BY <2>1 DEF SoundAfter
  <2>2. CASE q # p
    <3>1. Sound(q, pc'[q], man'[q], old'[q], mark'[q], blocks, mans)
      BY <1>0, <2>2 DEF AllSound, Others
    <3> QED
      BY <3>1, ZenonT(30) DEF Sound
  <2> QED
    BY <2>1, <2>2
<1>2. NoDanglingManifest'
  BY <1>0 DEF NoDanglingManifest
<1> QED
  BY <1>1, <1>2, SoundnessAfter DEF AllSound

(* Every function of the state has a value for every thread.               *)
LEMMA Locals ==
  ASSUME TypeOK
  PROVE  /\ DOMAIN pc = Procs /\ DOMAIN man = Procs /\ DOMAIN old = Procs /\ DOMAIN mark = Procs
         /\ pc = [q \in Procs |-> pc[q]] /\ man = [q \in Procs |-> man[q]]
         /\ old = [q \in Procs |-> old[q]] /\ mark = [q \in Procs |-> mark[q]]
  BY DEF TypeOK

-----------------------------------------------------------------------------
(* The steps.  Most of them leave the lock, the manifests and the blocks   *)
(* alone.                                                                  *)
Still == blocks' = blocks /\ mans' = mans /\ exlock' = exlock /\ leases' = leases

LEMMA KindsApart ==
  /\ \A p \in Publishers : p \in Procs /\ p \notin Collectors /\ p \notin Loaders
  /\ \A p \in Collectors : p \in Procs /\ p \notin Publishers /\ p \notin Loaders
  /\ \A p \in Loaders : p \in Procs /\ p \notin Publishers /\ p \notin Collectors
  BY ConstantsAssumption DEF Procs

LEMMA Before ==
  ASSUME StoreInv, NEW p \in Procs
  PROVE  TypeOK /\ LockInv /\ NoDanglingManifest /\ Sound(p, pc[p], man[p], old[p], mark[p], blocks, mans)
  BY Soundness DEF AllSound

LEMMA MoveStep ==
  ASSUME StoreInv, TypeOK', NEW p \in Procs, Others(p), SoundAfter(p),
         pc'[p] \in ExclusivePC <=> pc[p] \in ExclusivePC, pc'[p] \in LeasePC <=> pc[p] \in LeasePC,
         exlock' = exlock, leases' = leases, blocks \subseteq blocks', mans' \subseteq mans
  PROVE  StoreInv'
<1>1. LockInv'
  BY Before, LockKept DEF Others
<1> QED
  BY <1>1, LocalStep

(* Every call ends like this, in success, failure or death.                *)
LEMMA ReturnStep ==
  ASSUME StoreInv, TypeOK', NEW p \in Procs, Return(p), blocks' = blocks, mans' = mans
  PROVE  StoreInv'
<1>1. Others(p) /\ pc'[p] = "idle"
  BY Before, Locals, SMTT(30) DEF Return, Forget, Goto, Others
<1>2. LockInv'
  BY <1>1, Before, LockFreed, ModesApart DEF Others, Return
<1>3. SoundAfter(p)
  BY <1>1 DEF SoundAfter, Sound, PublisherPC
<1> QED
  BY <1>1, <1>2, <1>3, LocalStep

LEMMA PersistStartStep ==
  ASSUME StoreInv, TypeOK', NEW p \in Publishers, NEW m \in Manifests, PersistStart(p, m)
  PROVE  StoreInv'
<1>1. p \in Procs /\ Others(p) /\ Still
  BY Before, Locals, KindsApart, SMTT(30) DEF PersistStart, Goto, disk, lock, gcVars, Others, Still
<1>2. pc[p] = "idle" /\ pc'[p] = "install" /\ man'[p] = m
  BY Before, Locals, KindsApart, SMTT(30) DEF PersistStart, Goto, disk, lock, gcVars
<1>3. SoundAfter(p)
  BY <1>1, <1>2, Before, KindsApart, SMTT(30) DEF SoundAfter, Sound, PublisherPC, Still
<1> QED
  BY <1>1, <1>2, <1>3, MoveStep, SMTT(30) DEF ExclusivePC, LeasePC, Still

LEMMA InstallBlockStep ==
  ASSUME StoreInv, TypeOK', NEW p \in Publishers, NEW b \in Blocks, InstallBlock(p, b)
  PROVE  StoreInv'
<1>1. p \in Procs /\ Others(p) /\ blocks \subseteq blocks' /\ mans' = mans /\ exlock' = exlock /\ leases' = leases
  BY Before, Locals, KindsApart, SMTT(30) DEF InstallBlock, Goto, disk, lock, gcVars, Others
<1>2. pc[p] = "install" /\ pc'[p] = "install" /\ man'[p] = man[p]
  BY Before, Locals, KindsApart, SMTT(30) DEF InstallBlock, Goto, disk, lock, gcVars
<1>3. SoundAfter(p)
  BY <1>1, <1>2, Before, KindsApart, SMTT(30) DEF SoundAfter, Sound, PublisherPC
<1> QED
  BY <1>1, <1>2, <1>3, MoveStep, SMTT(30) DEF ExclusivePC, LeasePC

LEMMA StageManifestStep ==
  ASSUME StoreInv, TypeOK', NEW p \in Publishers, StageManifest(p)
  PROVE  StoreInv'
<1>1. p \in Procs /\ Others(p) /\ Still
  BY Before, Locals, KindsApart, SMTT(30) DEF StageManifest, Goto, disk, lock, gcVars, Others, Still
<1>2. pc[p] = "install" /\ pc'[p] \in {"published", "staged"} /\ man'[p] = man[p]
  BY Before, Locals, KindsApart, SMTT(30) DEF StageManifest, Goto, disk, lock, gcVars
<1>3. SoundAfter(p)
  BY <1>1, <1>2, Before, KindsApart, SMTT(30) DEF SoundAfter, Sound, PublisherPC, Still
<1> QED
  BY <1>1, <1>2, <1>3, MoveStep, SMTT(30) DEF ExclusivePC, LeasePC, Still

LEMMA BumpPublicationEpochStep ==
  ASSUME StoreInv, TypeOK', NEW p \in Publishers, BumpPublicationEpoch(p)
  PROVE  StoreInv'
<1>1. p \in Procs /\ Others(p) /\ Still
  BY Before, Locals, KindsApart, SMTT(30) DEF BumpPublicationEpoch, Goto, disk, lock, gcVars, Others, Still
<1>2. pc[p] = "checked" /\ pc'[p] = "bumped" /\ man'[p] = man[p]
  BY Before, Locals, KindsApart, SMTT(30) DEF BumpPublicationEpoch, Goto, disk, lock, gcVars
<1>3. SoundAfter(p)
  BY <1>1, <1>2, Before, KindsApart, SMTT(30) DEF SoundAfter, Sound, PublisherPC, Still
<1> QED
  BY <1>1, <1>2, <1>3, MoveStep, SMTT(30) DEF ExclusivePC, LeasePC, Still

LEMMA PruneListStep ==
  ASSUME StoreInv, TypeOK', NEW p \in Publishers, PruneList(p)
  PROVE  StoreInv'
<1>1. p \in Procs /\ Others(p) /\ Still
  BY Before, Locals, KindsApart, SMTT(30) DEF PruneList, Goto, disk, lock, gcVars, Others, Still
<1>2. pc[p] = "published" /\ pc'[p] = "pruning" /\ man'[p] = man[p]
  BY Before, Locals, KindsApart, SMTT(30) DEF PruneList, Goto, disk, lock, gcVars
<1>3. SoundAfter(p)
  BY <1>1, <1>2, Before, KindsApart, SMTT(30) DEF SoundAfter, Sound, PublisherPC, Still
<1> QED
  BY <1>1, <1>2, <1>3, MoveStep, SMTT(30) DEF ExclusivePC, LeasePC, Still

LEMMA GcStartStep ==
  ASSUME StoreInv, TypeOK', NEW p \in Collectors, GcStart(p)
  PROVE  StoreInv'
<1>1. p \in Procs /\ Others(p) /\ Still
  BY Before, Locals, KindsApart, SMTT(30) DEF GcStart, Goto, disk, lock, gcVars, Others, Still
<1>2. pc[p] = "idle" /\ pc'[p] = "before"
  BY Before, Locals, KindsApart, SMTT(30) DEF GcStart, Goto, disk, lock, gcVars
<1>3. SoundAfter(p)
  BY <1>1, <1>2, Before, KindsApart, SMTT(30) DEF SoundAfter, Sound, PublisherPC, Still
<1> QED
  BY <1>1, <1>2, <1>3, MoveStep, SMTT(30) DEF ExclusivePC, LeasePC, Still

LEMMA ReadEpochBeforeStep ==
  ASSUME StoreInv, TypeOK', NEW p \in Collectors, ReadEpochBefore(p)
  PROVE  StoreInv'
<1>1. p \in Procs /\ Others(p) /\ Still
  BY Before, Locals, KindsApart, SMTT(30) DEF ReadEpochBefore, Goto, disk, lock, gcVars, Others, Still
<1>2. pc[p] = "before" /\ pc'[p] = "begin"
  BY Before, Locals, KindsApart, SMTT(30) DEF ReadEpochBefore, Goto, disk, lock, gcVars
<1>3. SoundAfter(p)
  BY <1>1, <1>2, Before, KindsApart, SMTT(30) DEF SoundAfter, Sound, PublisherPC, Still
<1> QED
  BY <1>1, <1>2, <1>3, MoveStep, SMTT(30) DEF ExclusivePC, LeasePC, Still

LEMMA MarkBeginStep ==
  ASSUME StoreInv, TypeOK', NEW p \in Collectors, MarkBegin(p)
  PROVE  StoreInv'
<1>1. p \in Procs /\ Others(p) /\ Still
  BY Before, Locals, KindsApart, SMTT(30) DEF MarkBegin, Goto, disk, lock, gcVars, Others, Still
<1>2. pc[p] = "begin" /\ pc'[p] = "scan"
  BY Before, Locals, KindsApart, SMTT(30) DEF MarkBegin, Goto, disk, lock, gcVars
<1>3. SoundAfter(p)
  BY <1>1, <1>2, Before, KindsApart, SMTT(30) DEF SoundAfter, Sound, PublisherPC, Still
<1> QED
  BY <1>1, <1>2, <1>3, MoveStep, SMTT(30) DEF ExclusivePC, LeasePC, Still

LEMMA MarkEndStep ==
  ASSUME StoreInv, TypeOK', NEW p \in Collectors, MarkEnd(p)
  PROVE  StoreInv'
<1>1. p \in Procs /\ Others(p) /\ Still
  BY Before, Locals, KindsApart, SMTT(30) DEF MarkEnd, Goto, disk, lock, gcVars, Others, Still
<1>2. pc[p] = "scan" /\ pc'[p] = "after"
  BY Before, Locals, KindsApart, SMTT(30) DEF MarkEnd, Goto, disk, lock, gcVars
<1>3. SoundAfter(p)
  BY <1>1, <1>2, Before, KindsApart, SMTT(30) DEF SoundAfter, Sound, PublisherPC, Still
<1> QED
  BY <1>1, <1>2, <1>3, MoveStep, SMTT(30) DEF ExclusivePC, LeasePC, Still

LEMMA ReadMarkedEpochStep ==
  ASSUME StoreInv, TypeOK', NEW p \in Collectors, ReadMarkedEpoch(p)
  PROVE  StoreInv'
<1>1. p \in Procs /\ Others(p) /\ Still
  BY Before, Locals, KindsApart, SMTT(30) DEF ReadMarkedEpoch, Goto, disk, lock, gcVars, Others, Still
<1>2. pc[p] = "stable" /\ pc'[p] = "nominate"
  BY Before, Locals, KindsApart, SMTT(30) DEF ReadMarkedEpoch, Goto, disk, lock, gcVars
<1>3. SoundAfter(p)
  BY <1>1, <1>2, Before, KindsApart, SMTT(30) DEF SoundAfter, Sound, PublisherPC, Still
<1> QED
  BY <1>1, <1>2, <1>3, MoveStep, SMTT(30) DEF ExclusivePC, LeasePC, Still

LEMMA RescanEndStep ==
  ASSUME StoreInv, TypeOK', NEW p \in Collectors, RescanEnd(p)
  PROVE  StoreInv'
<1>1. p \in Procs /\ Others(p) /\ Still
  BY Before, Locals, KindsApart, SMTT(30) DEF RescanEnd, Goto, disk, lock, gcVars, Others, Still
<1>2. pc[p] = "rescan" /\ pc'[p] = "sweep" /\ mark[p] \subseteq mark'[p]
  BY Before, Locals, KindsApart, SMTT(30) DEF RescanEnd, Goto, disk, lock, gcVars
<1>3. SoundAfter(p)
  BY <1>1, <1>2, Before, KindsApart, SMTT(30) DEF SoundAfter, Sound, PublisherPC, Still
<1> QED
  BY <1>1, <1>2, <1>3, MoveStep, SMTT(30) DEF ExclusivePC, LeasePC, Still

LEMMA UnlinkTombstoneStep ==
  ASSUME StoreInv, TypeOK', NEW p \in Collectors, NEW b \in Blocks, UnlinkTombstone(p, b)
  PROVE  StoreInv'
<1>1. p \in Procs /\ Others(p) /\ Still
  BY Before, Locals, KindsApart, SMTT(30) DEF UnlinkTombstone, Goto, disk, lock, gcVars, Others, Still
<1>2. pc[p] = "unlink" /\ pc'[p] = "unlink"
  BY Before, Locals, KindsApart, SMTT(30) DEF UnlinkTombstone, Goto, disk, lock, gcVars
<1>3. SoundAfter(p)
  BY <1>1, <1>2, Before, KindsApart, SMTT(30) DEF SoundAfter, Sound, PublisherPC, Still
<1> QED
  BY <1>1, <1>2, <1>3, MoveStep, SMTT(30) DEF ExclusivePC, LeasePC, Still

LEMMA ListCandidatesStep ==
  ASSUME StoreInv, TypeOK', NEW p \in Loaders, ListCandidates(p)
  PROVE  StoreInv'
<1>1. p \in Procs /\ Others(p) /\ Still
  BY Before, Locals, KindsApart, SMTT(30) DEF ListCandidates, Goto, disk, lock, gcVars, Others, Still
<1>2. pc[p] = "list" /\ pc'[p] = "try" /\ old'[p] \subseteq mans
  BY Before, Locals, KindsApart, SMTT(30) DEF ListCandidates, Goto, disk, lock, gcVars
<1>3. SoundAfter(p)
  BY <1>1, <1>2, Before, KindsApart, SMTT(30) DEF SoundAfter, Sound, PublisherPC, NoDanglingManifest, Still
<1> QED
  BY <1>1, <1>2, <1>3, MoveStep, SMTT(30) DEF ExclusivePC, LeasePC, Still

LEMMA TryCandidateStep ==
  ASSUME StoreInv, TypeOK', NEW p \in Loaders, NEW m \in Manifests, TryCandidate(p, m)
  PROVE  StoreInv'
<1>1. p \in Procs /\ Others(p) /\ Still
  BY Before, Locals, KindsApart, SMTT(30) DEF TryCandidate, Goto, disk, lock, gcVars, Others, Still
<1>2. pc[p] = "try" /\ pc'[p] = "read" /\ m \in old[p] /\ man'[p] = m /\ old'[p] \subseteq old[p]
  BY Before, Locals, KindsApart, SMTT(30) DEF TryCandidate, Goto, disk, lock, gcVars
<1>3. SoundAfter(p)
  BY <1>1, <1>2, Before, KindsApart, SMTT(30) DEF SoundAfter, Sound, PublisherPC, Still
<1> QED
  BY <1>1, <1>2, <1>3, MoveStep, SMTT(30) DEF ExclusivePC, LeasePC, Still

LEMMA ReadBlockStep ==
  ASSUME StoreInv, TypeOK', NEW p \in Loaders, NEW b \in Blocks, ReadBlock(p, b)
  PROVE  StoreInv'
<1>1. p \in Procs /\ Others(p) /\ Still
  BY Before, Locals, KindsApart, SMTT(30) DEF ReadBlock, Goto, disk, lock, gcVars, Others, Still
<1>2. /\ pc[p] = "read" /\ old'[p] = old[p]
      /\ pc'[p] = "try" \/ (pc'[p] = "read" /\ man'[p] = man[p])
  BY Before, Locals, KindsApart, SMTT(30) DEF ReadBlock, Goto, disk, lock, gcVars
<1>3. SoundAfter(p)
  BY <1>1, <1>2, Before, KindsApart, SMTT(30) DEF SoundAfter, Sound, PublisherPC, Still
<1> QED
  BY <1>1, <1>2, <1>3, MoveStep, SMTT(30) DEF ExclusivePC, LeasePC, Still

LEMMA PersistDoneStep ==
  ASSUME StoreInv, TypeOK', NEW p \in Publishers, PersistDone(p)
  PROVE  StoreInv'
  BY ReturnStep, KindsApart DEF PersistDone, disk

LEMMA GcDoneStep ==
  ASSUME StoreInv, TypeOK', NEW p \in Collectors, GcDone(p)
  PROVE  StoreInv'
  BY ReturnStep, KindsApart DEF GcDone, disk

LEMMA LoadReturnStep ==
  ASSUME StoreInv, TypeOK', NEW p \in Loaders, LoadReturn(p)
  PROVE  StoreInv'
  BY ReturnStep, KindsApart DEF LoadReturn, disk

LEMMA AbortStep ==
  ASSUME StoreInv, TypeOK', NEW p \in Procs, Abort(p)
  PROVE  StoreInv'
  BY ReturnStep, KindsApart DEF Abort, disk

LEMMA RevalidateBlocksStep ==
  ASSUME StoreInv, TypeOK', NEW p \in Publishers, RevalidateBlocks(p)
  PROVE  StoreInv'
<1>1. CASE Return(p)
  BY <1>1, ReturnStep, KindsApart DEF RevalidateBlocks, disk
<1>2. CASE ~Return(p)
  <2>1. p \in Procs /\ Others(p) /\ Still
    BY <1>2, Before, Locals, KindsApart, SMTT(30) DEF RevalidateBlocks, Goto, disk, lock, gcVars, Others, Still
  <2>2. pc[p] = "locked" /\ pc'[p] = "checked" /\ man'[p] = man[p] /\ BlocksOf[man[p]] \subseteq blocks
    BY <1>2, Before, Locals, KindsApart, SMTT(30) DEF RevalidateBlocks, Goto, disk, lock, gcVars
  <2>3. SoundAfter(p)
    BY <2>1, <2>2, Before, KindsApart, SMTT(30) DEF SoundAfter, Sound, PublisherPC, Still
  <2> QED
    BY <2>1, <2>2, <2>3, MoveStep, SMTT(30) DEF ExclusivePC, LeasePC, Still
<1> QED
  BY <1>1, <1>2

LEMMA ReadEpochAfterStep ==
  ASSUME StoreInv, TypeOK', NEW p \in Collectors, ReadEpochAfter(p)
  PROVE  StoreInv'
<1>1. CASE Return(p)
  BY <1>1, ReturnStep, KindsApart DEF ReadEpochAfter, disk
<1>2. CASE ~Return(p)
  <2>1. p \in Procs /\ Others(p) /\ Still
    BY <1>2, Before, Locals, KindsApart, SMTT(30) DEF ReadEpochAfter, Goto, disk, lock, gcVars, Others, Still
  <2>2. pc[p] = "after" /\ pc'[p] \in {"stable", "before"}
    BY <1>2, Before, Locals, KindsApart, SMTT(30) DEF ReadEpochAfter, Goto, disk, lock, gcVars
  <2>3. SoundAfter(p)
    BY <2>1, <2>2, Before, KindsApart, SMTT(30) DEF SoundAfter, Sound, PublisherPC, Still
  <2> QED
    BY <2>1, <2>2, <2>3, MoveStep, SMTT(30) DEF ExclusivePC, LeasePC, Still
<1> QED
  BY <1>1, <1>2

LEMMA NominateStep ==
  ASSUME StoreInv, TypeOK', NEW p \in Collectors, Nominate(p)
  PROVE  StoreInv'
<1>1. CASE Return(p)
  BY <1>1, ReturnStep, KindsApart, SMTT(30) DEF Nominate, disk
<1>2. CASE ~Return(p)
  <2>1. p \in Procs /\ Others(p) /\ Still
    BY <1>2, Before, Locals, KindsApart, SMTT(30) DEF Nominate, Goto, disk, lock, gcVars, Others, Still
  <2>2. pc[p] = "nominate" /\ pc'[p] = "wait"
    BY <1>2, Before, Locals, KindsApart, SMTT(30) DEF Nominate, Goto, disk, lock, gcVars
  <2>3. SoundAfter(p)
    BY <2>1, <2>2, Before, KindsApart, SMTT(30) DEF SoundAfter, Sound, PublisherPC, Still
  <2> QED
    BY <2>1, <2>2, <2>3, MoveStep, SMTT(30) DEF ExclusivePC, LeasePC, Still
<1> QED
  BY <1>1, <1>2

LEMMA RecheckEpochStep ==
  ASSUME StoreInv, TypeOK', NEW p \in Collectors, RecheckEpoch(p)
  PROVE  StoreInv'
<1>1. CASE Return(p)
  BY <1>1, ReturnStep, KindsApart, SMTT(30) DEF RecheckEpoch, disk
<1>2. CASE ~Return(p)
  <2>1. p \in Procs /\ Others(p) /\ Still
    BY <1>2, Before, Locals, KindsApart, SMTT(30) DEF RecheckEpoch, Goto, disk, lock, gcVars, Others, Still
  <2>2. pc[p] = "recheck" /\ pc'[p] = "rescan" /\ mark'[p] = mans
    BY <1>2, Before, Locals, KindsApart, SMTT(30) DEF RecheckEpoch, Goto, disk, lock, gcVars
  <2>3. SoundAfter(p)
    BY <2>1, <2>2, Before, KindsApart, SMTT(30) DEF SoundAfter, Sound, PublisherPC, Still
  <2> QED
    BY <2>1, <2>2, <2>3, MoveStep, SMTT(30) DEF ExclusivePC, LeasePC, Still
<1> QED
  BY <1>1, <1>2

LEMMA PublishLockStep ==
  ASSUME StoreInv, TypeOK', NEW p \in Publishers, PublishLock(p)
  PROVE  StoreInv'
<1>1. p \in Procs /\ Others(p) /\ blocks' = blocks /\ mans' = mans
  BY Before, Locals, KindsApart, SMTT(30) DEF PublishLock, Goto, disk, lock, gcVars, Others
<1>2. pc[p] = "staged" /\ pc'[p] = "locked" /\ man'[p] = man[p]
  BY <1>1, Before, Locals, SMTT(30) DEF PublishLock, Goto, disk, lock, gcVars
<1>3. SoundAfter(p)
  BY <1>1, <1>2, Before, KindsApart, SMTT(30) DEF SoundAfter, Sound, PublisherPC
<1>4. LockInv'
  BY <1>1, <1>2, Before, LockTaken, SMTT(30) DEF PublishLock, Others, ExclusivePC, LeasePC
<1> QED
  BY <1>1, <1>3, <1>4, LocalStep

LEMMA SweepLockStep ==
  ASSUME StoreInv, TypeOK', NEW p \in Collectors, SweepLock(p)
  PROVE  StoreInv'
<1>1. p \in Procs /\ Others(p) /\ blocks' = blocks /\ mans' = mans
  BY Before, Locals, KindsApart, SMTT(30) DEF SweepLock, Goto, disk, lock, gcVars, Others
<1>2. pc'[p] = "recheck"
  BY <1>1, Before, Locals, SMTT(30) DEF SweepLock, Goto, disk, lock, gcVars
<1>3. SoundAfter(p)
  BY <1>1, <1>2, Before, KindsApart, SMTT(30) DEF SoundAfter, Sound, PublisherPC
<1>4. LockInv'
  BY <1>1, <1>2, Before, LockTaken DEF SweepLock, Others, ExclusivePC, LeasePC
<1> QED
  BY <1>1, <1>3, <1>4, LocalStep

LEMMA SweepUnlockStep ==
  ASSUME StoreInv, TypeOK', NEW p \in Collectors, SweepUnlock(p)
  PROVE  StoreInv'
<1>1. p \in Procs /\ Others(p) /\ blocks' = blocks /\ mans' = mans
  BY Before, Locals, KindsApart, SMTT(30) DEF SweepUnlock, Goto, disk, lock, gcVars, Others
<1>2. pc'[p] = "unlink"
  BY <1>1, Before, Locals, SMTT(30) DEF SweepUnlock, Goto, disk, lock, gcVars
<1>3. SoundAfter(p)
  BY <1>1, <1>2, Before, KindsApart, SMTT(30) DEF SoundAfter, Sound, PublisherPC
<1>4. LockInv'
  BY <1>1, <1>2, Before, LockFreed DEF SweepUnlock, Others, ExclusivePC, LeasePC
<1> QED
  BY <1>1, <1>3, <1>4, LocalStep

LEMMA AcquireReadLeaseStep ==
  ASSUME StoreInv, TypeOK', NEW p \in Loaders, AcquireReadLease(p)
  PROVE  StoreInv'
<1>1. p \in Procs /\ Others(p) /\ blocks' = blocks /\ mans' = mans
  BY Before, Locals, KindsApart, SMTT(30) DEF AcquireReadLease, Goto, disk, lock, gcVars, Others
<1>2. pc'[p] = "list"
  BY <1>1, Before, Locals, SMTT(30) DEF AcquireReadLease, Goto, disk, lock, gcVars
<1>3. SoundAfter(p)
  BY <1>1, <1>2, Before, KindsApart, SMTT(30) DEF SoundAfter, Sound, PublisherPC
<1>4. LockInv'
  BY <1>1, <1>2, Before, LeaseTaken DEF AcquireReadLease, Others, ExclusivePC, LeasePC
<1> QED
  BY <1>1, <1>3, <1>4, LocalStep

(* The rename commits a manifest whose blocks were found under the lock,   *)
(* and while the lock is held no collector is past its second mark.        *)
LEMMA CommitManifestStep ==
  ASSUME StoreInv, TypeOK', NEW p \in Publishers, CommitManifest(p)
  PROVE  StoreInv'
<1>1. CASE ~(man[p] \in stage /\ man[p] \notin mans)
  BY <1>1, ReturnStep, KindsApart, SMTT(30) DEF CommitManifest
<1>2. CASE man[p] \in stage /\ man[p] \notin mans
  <2>1. /\ p \in Procs /\ pc[p] = "bumped" /\ Unlock(p) /\ pc'[p] = "published" /\ Others(p)
        /\ man'[p] = man[p] /\ mans' = mans \cup {man[p]} /\ blocks' = blocks
    BY <1>2, Before, Locals, KindsApart, SMTT(30) DEF CommitManifest, Goto, gcVars, Others
  <2>2. LockInv'
    BY <2>1, Before, LockFreed DEF Others, ExclusivePC, LeasePC
  <2>3. BlocksOf[man[p]] \subseteq blocks /\ man[p] \in Manifests
    BY <2>1, Before, SMTT(30) DEF Sound, PublisherPC
  <2>4. NoDanglingManifest'
    BY <2>1, <2>3, Before, SMTT(30) DEF NoDanglingManifest
  <2>5. ASSUME NEW q \in Procs PROVE Sound(q, pc'[q], man'[q], old'[q], mark'[q], blocks', mans')
    <3>1. CASE q = p
      BY <2>1, <2>3, <3>1, KindsApart, SMTT(30) DEF Sound, PublisherPC
    <3>2. CASE q # p
      <4>1. Sound(q, pc'[q], man'[q], old'[q], mark'[q], blocks, mans)
        BY <2>1, <3>2, Before, SMTT(30) DEF Others
      <4>2. exlock = p
        BY <2>1, Before, SMTT(30) DEF LockInv, ExclusivePC
      <4>3. pc'[q] \notin {"rescan", "sweep"}
        BY <2>1, <3>2, <4>2, Before, SMTT(30) DEF LockInv, ExclusivePC, Others
      <4> QED
        BY <2>1, <4>1, <4>3, ZenonT(30) DEF Sound
    <3> QED
      BY <3>1, <3>2
  <2> QED
    BY <2>2, <2>4, <2>5, SoundnessAfter DEF AllSound
<1> QED
  BY <1>1, <1>2

(* A prune shrinks what a mark has to cover with the mark itself.          *)
LEMMA PruneManifestStep ==
  ASSUME StoreInv, TypeOK', NEW p \in Publishers, NEW m \in Manifests, PruneManifest(p, m)
  PROVE  StoreInv'
<1>1. /\ p \in Procs /\ pc' = pc /\ man' = man /\ exlock' = exlock /\ leases' = leases
      /\ blocks' = blocks /\ mans' = mans \ {m}
  BY KindsApart, SMTT(30) DEF PruneManifest, lock
<1>2. LockInv'
  BY <1>1, Before, SMTT(30) DEF LockInv
<1>3. NoDanglingManifest'
  BY <1>1, Before DEF NoDanglingManifest
<1>4. ASSUME NEW q \in Procs PROVE Sound(q, pc'[q], man'[q], old'[q], mark'[q], blocks', mans')
  <2>1. Sound(q, pc[q], man[q], old[q], mark[q], blocks, mans)
    BY Before
  <2>2. mark[q] \ {m} \subseteq mark'[q]
    BY SMTT(30) DEF PruneManifest
  <2>3. q \in Loaders => old'[q] = old[q]
    BY Before, Locals, KindsApart, SMTT(30) DEF PruneManifest
  <2> QED
    BY <1>1, <2>1, <2>2, <2>3, ZenonT(30) DEF Sound
<1> QED
  BY <1>2, <1>3, <1>4, SoundnessAfter, SMTT(30) DEF AllSound

(* The tombstone rename: the lock excludes leases and other critical       *)
(* sections, and the second mark covers every committed manifest.          *)
LEMMA TombstoneStep ==
  ASSUME StoreInv, TypeOK', NEW p \in Collectors, NEW b \in Blocks, Tombstone(p, b)
  PROVE  StoreInv'
<1>1. /\ p \in Procs /\ pc[p] = "sweep" /\ pc' = pc /\ man' = man /\ old' = old /\ mark' = mark
      /\ exlock' = exlock /\ leases' = leases /\ mans' = mans
      /\ blocks' = blocks \/ (blocks' = blocks \ {b} /\ b \notin LiveBlocks(mark[p]))
  BY KindsApart, SMTT(30) DEF Tombstone, lock
<1>2. LockInv'
  BY <1>1, Before DEF LockInv
<1>3. mans \subseteq mark[p]
  BY <1>1, Before, SMTT(30) DEF Sound
<1>4. NoDanglingManifest'
  <2>1. \A m \in mans : b \notin LiveBlocks(mark[p]) => b \notin BlocksOf[m]
    BY <1>3, SMTT(30) DEF LiveBlocks
  <2> QED
    BY <1>1, <2>1, Before, SMTT(30) DEF NoDanglingManifest
<1>5. \A q \in Procs : pc[q] \notin LeasePC /\ (pc[q] \in ExclusivePC => q = p)
  <2>1. exlock = p
    BY <1>1, Before, SMTT(30) DEF LockInv, ExclusivePC
  <2>2. leases = {}
    BY <1>1, <2>1, Before, ConstantsAssumption DEF LockInv
  <2> QED
    BY <1>1, <2>1, <2>2, Before, SMTT(30) DEF LockInv
<1>6. ASSUME NEW q \in Procs PROVE Sound(q, pc'[q], man'[q], old'[q], mark'[q], blocks', mans')
  <2>1. Sound(q, pc[q], man[q], old[q], mark[q], blocks, mans)
    BY Before
  <2>2. pc[q] \notin {"try", "read"} /\ (pc[q] \in {"checked", "bumped"} => q = p)
    BY <1>5 DEF LeasePC, ExclusivePC
  <2>3. q = p => q \notin Publishers
    BY KindsApart
  <2> QED
    BY <1>1, <2>1, <2>2, <2>3, ZenonT(30) DEF Sound
<1> QED
  BY <1>2, <1>4, <1>6, SoundnessAfter DEF AllSound

(* Every step preserves the inductive invariant.                           *)
LEMMA StoreStep == StoreInv /\ [Next]_vars => StoreInv'
<1> SUFFICES ASSUME StoreInv, [Next]_vars PROVE StoreInv'
  OBVIOUS
<1>0. TypeOK'
  BY TypeStep DEF StoreInv
<1>1. ASSUME NEW p \in Publishers, Publish(p) PROVE StoreInv'
  BY <1>0, <1>1, InstallBlockStep, StageManifestStep, PublishLockStep, RevalidateBlocksStep,
     BumpPublicationEpochStep, CommitManifestStep, PruneListStep, PruneManifestStep, PersistDoneStep,
     ZenonT(30) DEF Publish
<1>2. ASSUME NEW p \in Collectors, Collect(p) PROVE StoreInv'
  BY <1>0, <1>2, ReadEpochBeforeStep, MarkBeginStep, MarkEndStep, ReadEpochAfterStep,
     ReadMarkedEpochStep, NominateStep, SweepLockStep, RecheckEpochStep, RescanEndStep, TombstoneStep,
     SweepUnlockStep, UnlinkTombstoneStep, GcDoneStep, ZenonT(30) DEF Collect
<1>3. ASSUME NEW p \in Loaders, Load(p) PROVE StoreInv'
  BY <1>0, <1>3, ListCandidatesStep, TryCandidateStep, ReadBlockStep, LoadReturnStep, ZenonT(30) DEF Load
<1>4. CASE UNCHANGED vars
  <2>1. /\ pc' = pc /\ man' = man /\ old' = old /\ mark' = mark /\ blocks' = blocks /\ mans' = mans
        /\ exlock' = exlock /\ leases' = leases
    BY <1>4 DEF vars, disk, lock, gcVars
  <2> QED
    BY <1>0, <2>1, SMTT(30) DEF StoreInv, LockInv, TargetInv, RevalidatedInv, RescanInv, CandidateInv,
                      LeaseProtectsBlocks, NoDanglingManifest
<1> QED
  BY <1>0, <1>1, <1>2, <1>3, <1>4, PersistStartStep, GcStartStep, AcquireReadLeaseStep, AbortStep,
     ZenonT(30) DEF Next

(* The type invariant holds for every instance of the store.               *)
THEOREM TypeCorrect == Spec => []TypeOK
<1>1. StoreInv => TypeOK
  BY DEF StoreInv
<1> QED
  BY <1>1, InitStoreInv, StoreStep, PTL DEF Spec

(* The lock is held exactly inside the critical sections, so no return,    *)
(* error or crash of a call leaves it behind.                              *)
THEOREM LockDiscipline == Spec => []LockInv
<1>1. StoreInv => LockInv
  BY DEF StoreInv
<1> QED
  BY <1>1, InitStoreInv, StoreStep, PTL DEF Spec

(* Whatever the interleaving of publishers, prunes, sweeps, loads and      *)
(* crashes, no committed manifest ever names a block that is not there.    *)
THEOREM NoDangling == Spec => []NoDanglingManifest
<1>1. StoreInv => NoDanglingManifest
  BY DEF StoreInv
<1> QED
  BY <1>1, InitStoreInv, StoreStep, PTL DEF Spec

(* A load under its lease finds every block of the manifest it assembles,  *)
(* whatever sweeps and prunes run meanwhile.                               *)
THEOREM LeaseProtects == Spec => []LeaseProtectsBlocks
<1>1. StoreInv => LeaseProtectsBlocks
  BY SMTT(30) DEF StoreInv
<1> QED
  BY <1>1, InitStoreInv, StoreStep, PTL DEF Spec

-----------------------------------------------------------------------------
(* A step that touches no loader leaves the pins alone.                    *)
LEMMA PinnedFrame ==
  ASSUME \A l \in Loaders : pc'[l] = pc[l] /\ old'[l] = old[l] /\ man'[l] = man[l]
  PROVE  Pinned' = Pinned
  BY SMTT(30) DEF Pinned

(* Every step of the store is a step of its contract, or changes nothing   *)
(* the contract can see.                                                   *)
LEMMA ContractStep ==
  StoreInv /\ [Next]_vars => [Contract!Next]_(Contract!vars)
<1> SUFFICES ASSUME StoreInv, [Next]_vars PROVE [Contract!Next]_(Contract!vars)
  OBVIOUS
<1> USE ConstantsAssumption DEF Procs, Goto, Forget, Unlock, Return,
        AcquireStoreLock, disk, lock, gcVars
<1> TypeOK /\ LockInv /\ TargetInv /\ RescanInv
  BY DEF StoreInv
<1>a. ASSUME blocks' = blocks, mans' = mans, Pinned' = Pinned
      PROVE  [Contract!Next]_(Contract!vars)
  BY <1>a DEF Contract!vars
<1>b. ASSUME blocks' = blocks, mans' = mans,
             \A x \in Pinned' : x \in Pinned \/ \E m \in mans : x \in BlocksOf[m]
      PROVE  [Contract!Next]_(Contract!vars)
  BY <1>b, SMTT(30) DEF Contract!Next, Contract!Repin, Contract!LiveBlocks
<1>1. ASSUME NEW p \in Publishers, NEW m \in Manifests, PersistStart(p, m)
      PROVE  [Contract!Next]_(Contract!vars)
  BY <1>1, <1>a, PinnedFrame, SMTT(30) DEF PersistStart, TypeOK
<1>2. ASSUME NEW p \in Publishers, NEW b \in Blocks, InstallBlock(p, b)
      PROVE  [Contract!Next]_(Contract!vars)
  <2>1. Pinned' = Pinned
    BY <1>2, PinnedFrame, SMTT(30) DEF InstallBlock
  <2> QED
    BY <1>2, <2>1, SMTT(30) DEF InstallBlock, Contract!Next, Contract!Install
<1>3. ASSUME NEW p \in Publishers, StageManifest(p)
      PROVE  [Contract!Next]_(Contract!vars)
  BY <1>3, <1>a, PinnedFrame, SMTT(30) DEF StageManifest, TypeOK
<1>4. ASSUME NEW p \in Publishers, PublishLock(p)
      PROVE  [Contract!Next]_(Contract!vars)
  BY <1>4, <1>a, PinnedFrame, SMTT(30) DEF PublishLock, TypeOK
<1>5. ASSUME NEW p \in Publishers, RevalidateBlocks(p)
      PROVE  [Contract!Next]_(Contract!vars)
  BY <1>5, <1>a, PinnedFrame, SMTT(30) DEF RevalidateBlocks, TypeOK
<1>6. ASSUME NEW p \in Publishers, BumpPublicationEpoch(p)
      PROVE  [Contract!Next]_(Contract!vars)
  BY <1>6, <1>a, PinnedFrame DEF BumpPublicationEpoch, TypeOK
<1>7. ASSUME NEW p \in Publishers, CommitManifest(p)
      PROVE  [Contract!Next]_(Contract!vars)
  <2>1. Pinned' = Pinned
    BY <1>7, PinnedFrame, SMTT(30) DEF CommitManifest, TypeOK
  <2>2. CASE mans' = mans
    BY <1>7, <1>a, <2>1, <2>2, SMTT(30) DEF CommitManifest
  <2>3. CASE mans' # mans
    <3>1. mans' = mans \cup {man[p]} /\ blocks' = blocks
      BY <1>7, <2>3, SMTT(30) DEF CommitManifest
    <3>2. man[p] \in Manifests /\ BlocksOf[man[p]] \subseteq blocks
      BY <1>7, SMTT(30) DEF CommitManifest, StoreInv, TargetInv, RevalidatedInv, PublisherPC
    <3> QED
      BY <2>1, <3>1, <3>2, SMTT(30) DEF Contract!Next, Contract!Publish
  <2> QED
    BY <2>2, <2>3, SMTT(30)
<1>8. ASSUME NEW p \in Publishers, PruneList(p)
      PROVE  [Contract!Next]_(Contract!vars)
  BY <1>8, <1>a, PinnedFrame, SMTT(30) DEF PruneList, TypeOK
<1>9. ASSUME NEW p \in Publishers, NEW m \in Manifests, PruneManifest(p, m)
      PROVE  [Contract!Next]_(Contract!vars)
  <2>1. Pinned' = Pinned
    BY <1>9, PinnedFrame, SMTT(30) DEF PruneManifest, TypeOK
  <2> QED
    BY <1>9, <2>1, SMTT(30) DEF PruneManifest, Contract!Next, Contract!Drop
<1>10. ASSUME NEW p \in Publishers, PersistDone(p)
      PROVE  [Contract!Next]_(Contract!vars)
  BY <1>10, <1>a, PinnedFrame, SMTT(30) DEF PersistDone, TypeOK
<1>11. ASSUME NEW p \in Collectors, GcStart(p)
      PROVE  [Contract!Next]_(Contract!vars)
  BY <1>11, <1>a, PinnedFrame, SMTT(30) DEF GcStart, TypeOK
<1>12. ASSUME NEW p \in Collectors, ReadEpochBefore(p)
      PROVE  [Contract!Next]_(Contract!vars)
  BY <1>12, <1>a, PinnedFrame, SMTT(30) DEF ReadEpochBefore, TypeOK
<1>13. ASSUME NEW p \in Collectors, MarkBegin(p)
      PROVE  [Contract!Next]_(Contract!vars)
  BY <1>13, <1>a, PinnedFrame, SMTT(30) DEF MarkBegin, TypeOK
<1>14. ASSUME NEW p \in Collectors, MarkEnd(p)
      PROVE  [Contract!Next]_(Contract!vars)
  BY <1>14, <1>a, PinnedFrame, SMTT(30) DEF MarkEnd, TypeOK
<1>15. ASSUME NEW p \in Collectors, ReadEpochAfter(p)
      PROVE  [Contract!Next]_(Contract!vars)
  BY <1>15, <1>a, PinnedFrame, SMTT(30) DEF ReadEpochAfter, TypeOK
<1>16. ASSUME NEW p \in Collectors, ReadMarkedEpoch(p)
      PROVE  [Contract!Next]_(Contract!vars)
  BY <1>16, <1>a, PinnedFrame, SMTT(30) DEF ReadMarkedEpoch, TypeOK
<1>17. ASSUME NEW p \in Collectors, Nominate(p)
      PROVE  [Contract!Next]_(Contract!vars)
  BY <1>17, <1>a, PinnedFrame, SMTT(30) DEF Nominate, TypeOK
<1>18. ASSUME NEW p \in Collectors, SweepLock(p)
      PROVE  [Contract!Next]_(Contract!vars)
  BY <1>18, <1>a, PinnedFrame, SMTT(30) DEF SweepLock, TypeOK
<1>19. ASSUME NEW p \in Collectors, RecheckEpoch(p)
      PROVE  [Contract!Next]_(Contract!vars)
  BY <1>19, <1>a, PinnedFrame, SMTT(30) DEF RecheckEpoch, TypeOK
<1>20. ASSUME NEW p \in Collectors, RescanEnd(p)
      PROVE  [Contract!Next]_(Contract!vars)
  BY <1>20, <1>a, PinnedFrame DEF RescanEnd, TypeOK
<1>21. ASSUME NEW p \in Collectors, NEW b \in Blocks, Tombstone(p, b)
      PROVE  [Contract!Next]_(Contract!vars)
  <2>1. Pinned' = Pinned /\ mans' = mans
    BY <1>21, PinnedFrame DEF Tombstone, TypeOK
  <2>2. CASE blocks' = blocks
    BY <1>a, <2>1, <2>2, SMTT(30)
  <2>3. CASE blocks' # blocks
    <3>1. blocks' = blocks \ {b} /\ b \notin LiveBlocks(mark[p])
      BY <1>21, <2>3, SMTT(30) DEF Tombstone
    <3>2. mans \subseteq mark[p]
      BY <1>21 DEF Tombstone, RescanInv
    <3>3. b \notin Contract!LiveBlocks(mans)
      BY <3>1, <3>2, SMTT(30) DEF Contract!LiveBlocks, LiveBlocks
    <3>4. leases = {}
      BY <1>21, SMTT(30) DEF Tombstone, LockInv, ExclusivePC
    <3>5. b \notin Pinned
      BY <3>4, SMTT(30) DEF LockInv, LeasePC, Pinned
    <3> QED
      BY <2>1, <3>1, <3>3, <3>5, SMTT(30) DEF Contract!Next, Contract!Collect
  <2> QED
    BY <2>2, <2>3, SMTT(30)
<1>22. ASSUME NEW p \in Collectors, SweepUnlock(p)
      PROVE  [Contract!Next]_(Contract!vars)
  BY <1>22, <1>a, PinnedFrame, SMTT(30) DEF SweepUnlock, TypeOK
<1>23. ASSUME NEW p \in Collectors, NEW b \in Blocks, UnlinkTombstone(p, b)
      PROVE  [Contract!Next]_(Contract!vars)
  BY <1>23, <1>a, PinnedFrame, SMTT(30) DEF UnlinkTombstone, TypeOK
<1>24. ASSUME NEW p \in Collectors, GcDone(p)
      PROVE  [Contract!Next]_(Contract!vars)
  BY <1>24, <1>a, PinnedFrame, SMTT(30) DEF GcDone, TypeOK
<1>25. ASSUME NEW p \in Loaders, AcquireReadLease(p)
      PROVE  [Contract!Next]_(Contract!vars)
  BY <1>25, <1>b, SMTT(30) DEF AcquireReadLease, TypeOK, Pinned
<1>26. ASSUME NEW p \in Loaders, ListCandidates(p)
      PROVE  [Contract!Next]_(Contract!vars)
  BY <1>26, <1>b, SMTT(30) DEF ListCandidates, TypeOK, Pinned
<1>27. ASSUME NEW p \in Loaders, NEW m \in Manifests, TryCandidate(p, m)
      PROVE  [Contract!Next]_(Contract!vars)
  BY <1>27, <1>b, SMTT(30) DEF TryCandidate, TypeOK, Pinned
<1>28. ASSUME NEW p \in Loaders, NEW b \in Blocks, ReadBlock(p, b)
      PROVE  [Contract!Next]_(Contract!vars)
  BY <1>28, <1>b, SMTT(30) DEF ReadBlock, TypeOK, Pinned
<1>29. ASSUME NEW p \in Loaders, LoadReturn(p)
      PROVE  [Contract!Next]_(Contract!vars)
  BY <1>29, <1>b, SMTT(30) DEF LoadReturn, TypeOK, Pinned
<1>30. ASSUME NEW p \in Procs, Abort(p)
      PROVE  [Contract!Next]_(Contract!vars)
  BY <1>30, <1>b, SMTT(30) DEF Abort, TypeOK, Pinned
<1>31. CASE UNCHANGED vars
  BY <1>31, <1>a, PinnedFrame DEF vars
<1> QED
  BY <1>1, <1>2, <1>3, <1>4, <1>5, <1>6, <1>7, <1>8, <1>9, <1>10, <1>11, <1>12, <1>13,
         <1>14, <1>15, <1>16, <1>17, <1>18, <1>19, <1>20, <1>21, <1>22, <1>23, <1>24,
         <1>25, <1>26, <1>27, <1>28, <1>29, <1>30, <1>31, SMTT(30)
  DEF Next, Publish, Collect, Load

(* The store implements its contract.                                      *)
THEOREM Refinement == Spec => ContractSpec
<1>1. Init => Contract!Init
  BY DEF Init, Contract!Init, Pinned, Procs
<1> QED
  BY <1>1, InitStoreInv, StoreStep, ContractStep, PTL DEF Spec, ContractSpec, Contract!Spec
=============================================================================
