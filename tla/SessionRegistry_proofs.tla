----------------------- MODULE SessionRegistry_proofs -----------------------
(* Proofs about SessionRegistry, for any threads, instances and manifests. *)
EXTENDS SessionRegistry, TLAPS

(* The empty registry is a well-formed one, with nothing closed.           *)
LEMMA NoRegFacts == NoReg \in Registries /\ NoReg.cur = 0 /\ NoReg.through = 0
  BY DEF NoReg, Registries

(* Every thread's instance is one of the instances that have a lock.       *)
LEMMA InstanceFacts == \A t \in Threads : Instance[t] \in Instances
  BY DEF Instances

(* The association a recorder is about to write is well formed.            *)
LEMMA EntryType ==
  ASSUME TypeOK, NEW t \in Threads, pc[t] \in RecordPC
  PROVE  Entry(t) \in Associations
  BY DEF TypeOK, Entry, Registries, Associations

(* Every action keeps the files and the calls well formed.                 *)
LEMMA TypeStep == TypeOK /\ [Next]_vars => TypeOK'
<1> SUFFICES ASSUME TypeOK, [Next]_vars PROVE TypeOK'
  OBVIOUS
<1> USE SessionAssumption, NoRegFacts, InstanceFacts
    DEF TypeOK, PCs, RecordPC, Goto, Lock, Return, files, ghosts
<1>0. CASE UNCHANGED vars
  BY <1>0 DEF vars
<1>1. ASSUME NEW t \in Threads, ReadRegistry(t) PROVE TypeOK'
  <2>1. CASE reg # NoReg /\ pc[t] = "registry"
    BY <1>1, <2>1 DEF ReadRegistry, HaveRegistry
  <2>2. CASE reg # NoReg /\ pc[t] = "open"
    BY <1>1, <2>2, SMTT(30) DEF ReadRegistry, HaveRegistry
  <2>3. CASE reg = NoReg
    BY <1>1, <2>3 DEF ReadRegistry
  <2>. QED
    BY <1>1, <2>1, <2>2, <2>3 DEF ReadRegistry
<1>2. ASSUME NEW t \in Threads, MintRegistry(t) PROVE TypeOK'
  <2>1. reg' \in Registries /\ reg'.through <= reg'.cur
    BY <1>2 DEF MintRegistry, Registries
  <2>2. CASE pc[t] = "mint"
    BY <1>2, <2>1, <2>2 DEF MintRegistry, HaveRegistry
  <2>3. CASE pc[t] = "openMint"
    BY <1>2, <2>1, <2>3, SMTT(30) DEF MintRegistry, HaveRegistry
  <2>. QED
    BY <1>2, <2>2, <2>3 DEF MintRegistry
<1>3. ASSUME NEW t \in Threads, ReadIndex(t) PROVE TypeOK'
  <2>1. Entry(t) \in Associations
    BY <1>3, EntryType DEF ReadIndex
  <2>2. CASE Entry(t) \in idx
    <3>1. Return(t) /\ acked' = acked \cup {Entry(t)} /\ UNCHANGED <<files, closed, answered>>
      BY <1>3, <2>2 DEF ReadIndex
    <3>. QED
      BY <3>1, <2>1
  <2>3. CASE Entry(t) \notin idx
    BY <1>3, <2>3 DEF ReadIndex
  <2>. QED
    BY <2>2, <2>3
<1>4. ASSUME NEW t \in Threads, StageIndex(t) PROVE TypeOK'
  <2>1. Entry(t) \in Associations
    BY <1>4, EntryType DEF StageIndex
  <2>. QED
    BY <1>4, <2>1 DEF StageIndex
<1>5. ASSUME NEW t \in Threads, RenameIndex(t) PROVE TypeOK'
  <2>1. Entry(t) \in Associations
    BY <1>5, EntryType DEF RenameIndex
  <2>. QED
    BY <1>5, <2>1 DEF RenameIndex
<1>6. ASSUME NEW t \in Threads, CloseRead(t) PROVE TypeOK'
  BY <1>6, SMTT(30) DEF CloseRead
<1>7. ASSUME NEW t \in Threads, CloseWrite(t) PROVE TypeOK'
  <2>0. regRead[t] \in Registries
    BY DEF TypeOK
  <2>1. reg' \in Registries /\ reg'.through <= reg'.cur
    <3>. HIDE DEF TypeOK
    <3>1. reg' = [inc |-> regRead[t].inc, cur |-> regRead[t].cur + 1, through |-> regRead[t].cur + 1]
      BY <1>7 DEF CloseWrite
    <3>. QED
      BY <2>0, <3>1 DEF Registries
  <2>2. <<regRead[t].inc, regRead[t].cur>> \in Nat \X Nat
    BY <1>7 DEF Registries
  <2>. QED
    BY <1>7, <2>1, <2>2 DEF CloseWrite
<1>8. ASSUME NEW t \in Threads, ReleaseAnswer(t) PROVE TypeOK'
  BY <1>8 DEF ReleaseAnswer
<1>9. ASSUME NEW t \in Threads, NEW m \in Manifests, RecordStart(t, m) PROVE TypeOK'
  BY <1>9 DEF RecordStart
<1>10. ASSUME NEW t \in Threads, NEW g \in 0 .. MaxGen - 1, CloseStart(t, g) PROVE TypeOK'
  BY <1>10 DEF CloseStart
<1>11. ASSUME NEW t \in Threads, OpenStart(t) PROVE TypeOK'
  BY <1>11 DEF OpenStart
<1>12. ASSUME NEW t \in Threads, ReleaseRead(t) PROVE TypeOK'
  BY <1>12 DEF ReleaseRead
<1>13. ASSUME NEW t \in Threads, Abort(t) PROVE TypeOK'
  BY <1>13 DEF Abort
<1>14. CASE LoseRegistry
  BY <1>14 DEF LoseRegistry
<1>. HIDE DEF TypeOK
<1>. QED
  BY <1>0, <1>1, <1>2, <1>3, <1>4, <1>5, <1>6, <1>7, <1>8, <1>9, <1>10, <1>11, <1>12,
         <1>13, <1>14 DEF Next, Step

(* Every action keeps ReleaseInv.                                          *)
LEMMA ReleaseStep == ReleaseInv /\ [Next]_vars => ReleaseInv'
<1> SUFFICES ASSUME ReleaseInv, [Next]_vars PROVE ReleaseInv'
  OBVIOUS
<1>t. TypeOK /\ TypeOK'
  BY TypeStep DEF ReleaseInv
<1> USE NoRegFacts, <1>t
    DEF ReleaseInv, BelowCurrentClosed, ReleaseOnlyClosed, Return, files, ghosts
<1>0. CASE UNCHANGED vars
  BY <1>0 DEF vars
<1>1. ASSUME NEW t \in Threads, ReadRegistry(t) PROVE ReleaseInv'
  <2>1. UNCHANGED <<reg, closed, answered>> /\ regRead' \in [Threads -> Registries]
    BY <1>1 DEF ReadRegistry, TypeOK
  <2>2. \A s \in Threads : regRead'[s] \in {regRead[s], reg, NoReg}
    BY <1>1 DEF ReadRegistry, HaveRegistry, TypeOK
  <2>. QED
    BY <2>1, <2>2
<1>2. ASSUME NEW t \in Threads, MintRegistry(t) PROVE ReleaseInv'
  BY <1>2, SMTT(30) DEF MintRegistry, HaveRegistry, TypeOK
<1>3. ASSUME NEW t \in Threads, ReadIndex(t) PROVE ReleaseInv'
  <2>1. UNCHANGED <<reg, closed, answered>>
    BY <1>3 DEF ReadIndex
  <2>2. \A s \in Threads : regRead'[s] \in {regRead[s], NoReg}
    BY <1>3 DEF ReadIndex, TypeOK
  <2>. QED
    BY <2>1, <2>2
<1>4. ASSUME NEW t \in Threads, StageIndex(t) PROVE ReleaseInv'
  BY <1>4, SMTT(30) DEF StageIndex
<1>5. ASSUME NEW t \in Threads, RenameIndex(t) PROVE ReleaseInv'
  BY <1>5 DEF RenameIndex, TypeOK
<1>6. ASSUME NEW t \in Threads, CloseRead(t) PROVE ReleaseInv'
  <2>1. UNCHANGED <<reg, closed, answered>> /\ regRead' \in [Threads -> Registries]
    BY <1>6, SMTT(30) DEF CloseRead, TypeOK
  <2>2. \A s \in Threads : regRead'[s] \in {regRead[s], reg, NoReg}
    BY <1>6 DEF CloseRead, TypeOK
  <2>. QED
    BY <2>1, <2>2
<1>7. ASSUME NEW t \in Threads, CloseWrite(t) PROVE ReleaseInv'
  <2>1. reg'.inc = regRead[t].inc /\ reg'.cur = regRead[t].cur + 1
    BY <1>7, SMTT(30) DEF CloseWrite, TypeOK, Registries
  <2>2. closed' = closed \cup {<<regRead[t].inc, regRead[t].cur>>} /\ answered' = answered
    BY <1>7 DEF CloseWrite
  <2>3. \A s \in Threads : regRead'[s] \in {regRead[s], NoReg}
    BY <1>7 DEF CloseWrite, TypeOK
  <2>4. regRead[t].cur \in Nat
    BY SMTT(30) DEF TypeOK, Registries
  <2>5. BelowCurrentClosed(reg)'
    BY <2>1, <2>2, <2>4
  <2>. QED
    BY <2>2, <2>3, <2>5
<1>8. ASSUME NEW t \in Threads, ReleaseAnswer(t) PROVE ReleaseInv'
  <2>1. UNCHANGED <<reg, closed>>
    BY <1>8, SMTT(30) DEF ReleaseAnswer
  <2>2. \A s \in Threads : regRead'[s] \in {regRead[s], NoReg}
    BY <1>8 DEF ReleaseAnswer, TypeOK
  <2>3. ASSUME NEW a \in idx, a.inc = regRead[t].inc, a.gen < regRead[t].through
        PROVE  <<a.inc, a.gen>> \in closed
    BY <2>3 DEF TypeOK, Registries, Associations
  <2>4. ReleaseOnlyClosed'
    BY <1>8, <2>1, <2>3, ZenonT(30) DEF ReleaseAnswer
  <2>. QED
    BY <2>1, <2>2, <2>4
<1>9. ASSUME NEW t \in Threads, NEW m \in Manifests, RecordStart(t, m) PROVE ReleaseInv'
  BY <1>9 DEF RecordStart
<1>10. ASSUME NEW t \in Threads, NEW g \in 0 .. MaxGen - 1, CloseStart(t, g) PROVE ReleaseInv'
  BY <1>10 DEF CloseStart
<1>11. ASSUME NEW t \in Threads, OpenStart(t) PROVE ReleaseInv'
  BY <1>11, SMTT(30) DEF OpenStart
<1>12. ASSUME NEW t \in Threads, ReleaseRead(t) PROVE ReleaseInv'
  BY <1>12, SMTT(30) DEF ReleaseRead, TypeOK
<1>13. ASSUME NEW t \in Threads, Abort(t) PROVE ReleaseInv'
  BY <1>13, SMTT(30) DEF Abort, TypeOK
<1>14. CASE LoseRegistry
  BY <1>14 DEF LoseRegistry
<1>. HIDE DEF ReleaseInv
<1>. QED
  BY <1>0, <1>1, <1>2, <1>3, <1>4, <1>5, <1>6, <1>7, <1>8, <1>9, <1>10, <1>11, <1>12,
         <1>13, <1>14 DEF Next, Step

(* releasable_manifests returns only associations of closed generations,   *)
(* however many instances of the store share the files.                    *)
THEOREM ReleaseSound == Spec => []ReleaseOnlyClosed
<1>1. Init => ReleaseInv
  BY SessionAssumption
  DEF Init, ReleaseInv, TypeOK, BelowCurrentClosed, ReleaseOnlyClosed, Registries, NoReg,
      Instances, PCs, RecordPC
<1>2. ReleaseInv => ReleaseOnlyClosed
  BY DEF ReleaseInv
<1>. QED
  BY <1>1, <1>2, ReleaseStep, PTL DEF Spec

-----------------------------------------------------------------------------
(* All threads call through one instance of the store, and so share a lock. *)
OneInstance == \A s, t \in Threads : Instance[s] = Instance[t]

(* With one instance every action keeps RecordInv: only the lock holder    *)
(* writes the files, apart from the registry being lost.                   *)
LEMMA RecordStep ==
  ASSUME OneInstance PROVE TypeOK /\ RecordInv /\ [Next]_vars => RecordInv'
<1> SUFFICES ASSUME TypeOK, RecordInv, [Next]_vars PROVE RecordInv'
  OBVIOUS
<1> USE SessionAssumption, OneInstance, InstanceFacts
    DEF OneInstance, TypeOK, RecordInv, AckedSurvives, LockedPC, PCs, Entry, Goto, Lock, Return, files,
        ghosts
<1>0. CASE UNCHANGED vars
  BY <1>0 DEF vars
<1>1. ASSUME NEW t \in Threads, ReadRegistry(t) PROVE RecordInv'
  BY <1>1 DEF ReadRegistry, HaveRegistry
<1>2. ASSUME NEW t \in Threads, MintRegistry(t) PROVE RecordInv'
  BY <1>2, SMTT(30) DEF MintRegistry, HaveRegistry
<1>3. ASSUME NEW t \in Threads, ReadIndex(t) PROVE RecordInv'
  BY <1>3, SMTT(30) DEF ReadIndex
<1>4. ASSUME NEW t \in Threads, StageIndex(t) PROVE RecordInv'
  BY <1>4 DEF StageIndex
<1>5. ASSUME NEW t \in Threads, RenameIndex(t) PROVE RecordInv'
  BY <1>5, SMTT(30) DEF RenameIndex
<1>6. ASSUME NEW t \in Threads, CloseRead(t) PROVE RecordInv'
  BY <1>6, SMTT(30) DEF CloseRead
<1>7. ASSUME NEW t \in Threads, CloseWrite(t) PROVE RecordInv'
  BY <1>7, SMTT(30) DEF CloseWrite
<1>8. ASSUME NEW t \in Threads, ReleaseAnswer(t) PROVE RecordInv'
  BY <1>8 DEF ReleaseAnswer
<1>9. ASSUME NEW t \in Threads, NEW m \in Manifests, RecordStart(t, m) PROVE RecordInv'
  BY <1>9 DEF RecordStart
<1>10. ASSUME NEW t \in Threads, NEW g \in 0 .. MaxGen - 1, CloseStart(t, g) PROVE RecordInv'
  BY <1>10 DEF CloseStart
<1>11. ASSUME NEW t \in Threads, OpenStart(t) PROVE RecordInv'
  BY <1>11 DEF OpenStart
<1>12. ASSUME NEW t \in Threads, ReleaseRead(t) PROVE RecordInv'
  BY <1>12 DEF ReleaseRead
<1>13. ASSUME NEW t \in Threads, Abort(t) PROVE RecordInv'
  BY <1>13 DEF Abort
<1>14. CASE LoseRegistry
  BY <1>14 DEF LoseRegistry
<1>. HIDE DEF RecordInv, TypeOK
<1>. QED
  BY <1>0, <1>1, <1>2, <1>3, <1>4, <1>5, <1>6, <1>7, <1>8, <1>9, <1>10, <1>11, <1>12,
         <1>13, <1>14 DEF Next, Step

(* What a recorder adds to the index is its own association, under the     *)
(* generation the registry still has as current, or that of a lost one.    *)
LEMMA BornOpen ==
  ASSUME TypeOK, RecordInv, [Next]_vars,
         NEW a \in idx' \ idx, a.inc = reg.inc, a.gen < reg.through
  PROVE  FALSE
<1>1. PICK t \in Threads : RenameIndex(t)
  BY SMTT(30) DEF Next, Step, vars, files, ReadRegistry, MintRegistry, ReadIndex, StageIndex, CloseRead,
         CloseWrite, ReleaseAnswer, RecordStart, CloseStart, OpenStart, ReleaseRead, Abort,
         LoseRegistry
<1>2. a = Entry(t)
  BY <1>1 DEF RenameIndex, RecordInv
<1>3. reg \in {regRead[t], NoReg} /\ regRead[t] \in Registries
  BY <1>1 DEF RenameIndex, RecordInv, TypeOK
<1>. QED
  BY <1>2, <1>3, NoRegFacts, SMTT(30) DEF Entry, Registries, TypeOK

(* With one instance of the store, no association that was acknowledged is *)
(* ever lost from the index.                                               *)
THEOREM AckedKept == ASSUME OneInstance PROVE Spec => []AckedSurvives
<1>1. Init => TypeOK /\ RecordInv
  BY SessionAssumption, SMTT(30)
  DEF Init, TypeOK, RecordInv, AckedSurvives, LockedPC, Registries, NoReg, Instances, PCs, RecordPC
<1>2. TypeOK /\ RecordInv => AckedSurvives
  BY DEF RecordInv
<1>. QED
  BY <1>1, <1>2, TypeStep, RecordStep, PTL DEF Spec

(* With one instance of the store, no association is eligible for cleanup  *)
(* at the moment it is written.                                            *)
THEOREM BornOpenAlways == ASSUME OneInstance PROVE Spec => NeverBornReleasable
<1>1. Init => TypeOK /\ RecordInv
  BY SessionAssumption
  DEF Init, TypeOK, RecordInv, AckedSurvives, LockedPC, Registries, NoReg, Instances, PCs, RecordPC
<1>2. TypeOK /\ RecordInv /\ [Next]_vars
        => [\A a \in idx' \ idx : ~(a.inc = reg.inc /\ a.gen < reg.through)]_vars
  BY BornOpen
<1>. QED
  BY <1>1, <1>2, TypeStep, RecordStep, PTL DEF Spec, NeverBornReleasable
=============================================================================
