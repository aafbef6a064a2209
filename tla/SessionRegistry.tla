-------------------------- MODULE SessionRegistry --------------------------
(***************************************************************************)
(* The session sidecar of the v4 store, for one session key: its registry  *)
(* file (incarnation, current generation, closed_through) and its index    *)
(* file of associations (block_cold_store.rs).  record_session_manifest    *)
(* and close_current_generation hold the session_index_lock of their       *)
(* BlockColdStore instance; releasable_manifests takes no lock.  Threads   *)
(* of different instances share the files and not the lock.                *)
(***************************************************************************)
EXTENDS Naturals, FiniteSets

CONSTANTS
    Threads,    \* callers
    Instance,   \* the BlockColdStore instance a thread calls through
    Manifests,  \* manifest hashes to associate
    MaxGen,     \* bound on generations
    MaxInc,     \* bound on incarnations minted
    NoThread, NoManifest

ASSUME SessionAssumption ==
    /\ NoThread \notin Threads
    /\ DOMAIN Instance = Threads
    /\ MaxGen \in Nat /\ MaxInc \in Nat

VARIABLES
    reg,      \* the registry file, NoReg when it is missing
    idx,      \* the associations in the index file
    idxTmp,   \* the staged index file, as a set of at most one content
    ilock,    \* holder of each instance's session_index_lock
    pc, man, expected, regRead, idxRead,   \* each thread's call and what it has read
    minted,   \* incarnations minted
    acked,    \* associations some call has returned Ok for
    closed,   \* the (incarnation, generation) pairs an accepted close ended
    answered  \* associations some releasable_manifests call has returned

vars == <<reg, idx, idxTmp, ilock, pc, man, expected, regRead, idxRead, minted,
          acked, closed, answered>>
files == <<reg, idx, idxTmp, minted>>
ghosts == <<acked, closed, answered>>

Instances == {Instance[t] : t \in Threads}

(* closed_through is one more than in the code and 0 stands for None, so   *)
(* that generation g is closed when g < through.                           *)
Registries == [inc : Nat, cur : Nat, through : Nat]
NoReg == [inc |-> 0, cur |-> 0, through |-> 0]
Associations == [inc : Nat, gen : Nat, man : Manifests]

Entry(t) == [inc |-> regRead[t].inc, gen |-> regRead[t].cur, man |-> man[t]]

Init ==
    /\ reg = NoReg /\ idx = {} /\ idxTmp = {}
    /\ ilock = [i \in Instances |-> NoThread]
    /\ pc = [t \in Threads |-> "idle"]
    /\ man = [t \in Threads |-> NoManifest]
    /\ expected = [t \in Threads |-> 0]
    /\ regRead = [t \in Threads |-> NoReg]
    /\ idxRead = [t \in Threads |-> {}]
    /\ minted = 0
    /\ acked = {} /\ closed = {} /\ answered = {}

Goto(t, l) == pc' = [pc EXCEPT ![t] = l]

Lock(t) ==
    /\ ilock[Instance[t]] = NoThread
    /\ ilock' = [ilock EXCEPT ![Instance[t]] = t]

Return(t) ==
    /\ Goto(t, "idle")
    /\ ilock' = [i \in Instances |-> IF ilock[i] = t THEN NoThread ELSE ilock[i]]
    /\ man' = [man EXCEPT ![t] = NoManifest]
    /\ expected' = [expected EXCEPT ![t] = 0]
    /\ regRead' = [regRead EXCEPT ![t] = NoReg]
    /\ idxRead' = [idxRead EXCEPT ![t] = {}]

-----------------------------------------------------------------------------
RecordStart_NoLock(t, m) ==
    /\ pc[t] = "idle"
    /\ man' = [man EXCEPT ![t] = m]
    /\ Goto(t, "registry")
    /\ UNCHANGED <<files, ilock, expected, regRead, idxRead, ghosts>>

(* record_session_manifest                                                 *)

RecordStart(t, m) ==
    /\ pc[t] = "idle"
    /\ Lock(t)
    /\ man' = [man EXCEPT ![t] = m]
    /\ Goto(t, "registry")
    /\ UNCHANGED <<files, expected, regRead, idxRead, ghosts>>

(* session_registry: the registry alone, under the same lock.              *)
OpenStart(t) ==
    /\ pc[t] = "idle"
    /\ Lock(t)
    /\ Goto(t, "open")
    /\ UNCHANGED <<files, man, expected, regRead, idxRead, ghosts>>

HaveRegistry_TwoHolds(t, r) ==
    \/ /\ pc[t] \in {"registry", "mint"}
       /\ regRead' = [regRead EXCEPT ![t] = r]
       /\ ilock' = [ilock EXCEPT ![Instance[t]] = NoThread]
       /\ Goto(t, "index")
       /\ UNCHANGED <<man, expected, idxRead>>
    \/ /\ pc[t] \in {"open", "openMint"}
       /\ Return(t)

(* What session_registry_locked hands back: record_session_manifest goes   *)
(* on with it under the same hold, session_registry returns it.            *)
HaveRegistry(t, r) ==
    \/ /\ pc[t] \in {"registry", "mint"}
       /\ regRead' = [regRead EXCEPT ![t] = r]
       /\ Goto(t, "index")
       /\ UNCHANGED <<ilock, man, expected, idxRead>>
    \/ /\ pc[t] \in {"open", "openMint"}
       /\ Return(t)

(* session_registry_locked: what is there, or a fresh incarnation at       *)
(* generation 0 with nothing closed.                                       *)
ReadRegistry(t) ==
    /\ pc[t] \in {"registry", "open"}
    /\ \/ reg # NoReg /\ HaveRegistry(t, reg)
       \/ /\ reg = NoReg
          /\ Goto(t, IF pc[t] = "open" THEN "openMint" ELSE "mint")
          /\ UNCHANGED <<ilock, man, expected, regRead, idxRead>>
    /\ UNCHANGED <<files, ghosts>>

MintRegistry(t) ==
    /\ pc[t] \in {"mint", "openMint"} /\ minted < MaxInc
    /\ minted' = minted + 1
    /\ reg' = [inc |-> minted + 1, cur |-> 0, through |-> 0]
    /\ HaveRegistry(t, reg')
    /\ UNCHANGED <<idx, idxTmp, ghosts>>

ReadIndex(t) ==
    /\ pc[t] = "index"
    /\ \/ /\ Entry(t) \in idx
          /\ acked' = acked \cup {Entry(t)}
          /\ Return(t)
       \/ /\ Entry(t) \notin idx
          /\ idxRead' = [idxRead EXCEPT ![t] = idx]
          /\ Goto(t, "stage")
          /\ UNCHANGED <<ilock, man, expected, regRead, acked>>
    /\ UNCHANGED <<files, closed, answered>>

(* write_file to the one .idx.tmp of the session, then rename.             *)
StageIndex(t) ==
    /\ pc[t] = "stage"
    /\ idxTmp' = {idxRead[t] \cup {Entry(t)}}
    /\ Goto(t, "rename")
    /\ UNCHANGED <<reg, idx, minted, ilock, man, expected, regRead, idxRead, ghosts>>

RenameIndex(t) ==
    /\ pc[t] = "rename"
    /\ \/ /\ idxTmp # {}
          /\ idx' = UNION idxTmp
          /\ idxTmp' = {}
          /\ acked' = acked \cup {Entry(t)}
       \/ /\ idxTmp = {}
          /\ UNCHANGED <<idx, idxTmp, acked>>
    /\ Return(t)
    /\ UNCHANGED <<reg, minted, closed, answered>>

-----------------------------------------------------------------------------
(* close_current_generation: compare and swap on the generation.           *)

CloseStart(t, g) ==
    /\ pc[t] = "idle"
    /\ Lock(t)
    /\ expected' = [expected EXCEPT ![t] = g]
    /\ Goto(t, "closeRead")
    /\ UNCHANGED <<files, man, regRead, idxRead, ghosts>>

CloseRead(t) ==
    /\ pc[t] = "closeRead"
    /\ \/ /\ reg # NoReg /\ expected[t] = reg.cur
          /\ regRead' = [regRead EXCEPT ![t] = reg]
          /\ Goto(t, "closeWrite")
          /\ UNCHANGED <<ilock, man, expected, idxRead>>
       \/ /\ reg = NoReg \/ expected[t] # reg.cur
          /\ Return(t)
    /\ UNCHANGED <<files, ghosts>>

CloseWrite_OffByOne(t) ==
    /\ pc[t] = "closeWrite"
    /\ reg' = [inc |-> regRead[t].inc, cur |-> regRead[t].cur + 1, through |-> regRead[t].cur + 2]
    /\ closed' = closed \cup {<<regRead[t].inc, regRead[t].cur>>}
    /\ Return(t)
    /\ UNCHANGED <<idx, idxTmp, minted, acked, answered>>

CloseWrite(t) ==
    /\ pc[t] = "closeWrite"
    /\ reg' = [inc |-> regRead[t].inc, cur |-> regRead[t].cur + 1, through |-> regRead[t].cur + 1]
    /\ closed' = closed \cup {<<regRead[t].inc, regRead[t].cur>>}
    /\ Return(t)
    /\ UNCHANGED <<idx, idxTmp, minted, acked, answered>>

-----------------------------------------------------------------------------
(* releasable_manifests: the registry, then the index, without the lock.   *)

ReleaseRead(t) ==
    /\ pc[t] = "idle" /\ reg.through > 0
    /\ regRead' = [regRead EXCEPT ![t] = reg]
    /\ Goto(t, "answer")
    /\ UNCHANGED <<files, ilock, man, expected, idxRead, ghosts>>

ReleaseAnswer_AnyLifetime(t) ==
    /\ pc[t] = "answer"
    /\ answered' = answered \cup {a \in idx : a.gen < regRead[t].through}
    /\ Return(t)
    /\ UNCHANGED <<files, acked, closed>>

ReleaseAnswer(t) ==
    /\ pc[t] = "answer"
    /\ answered' = answered \cup
          {a \in idx : a.inc = regRead[t].inc /\ a.gen < regRead[t].through}
    /\ Return(t)
    /\ UNCHANGED <<files, acked, closed>>

-----------------------------------------------------------------------------
(* The registry file goes missing from outside (restored backup, lost      *)
(* volume); the code meets this by minting.                                *)
LoseRegistry ==
    /\ reg # NoReg /\ minted < MaxInc
    /\ reg' = NoReg
    /\ UNCHANGED <<idx, idxTmp, ilock, pc, man, expected, regRead, idxRead, minted, ghosts>>

(* An I/O error or a crash ends the call.                                  *)
Abort(t) ==
    /\ pc[t] # "idle"
    /\ Return(t)
    /\ UNCHANGED <<files, ghosts>>

Step(t) ==
    \/ ReadRegistry(t)
    \/ MintRegistry(t)
    \/ ReadIndex(t)
    \/ StageIndex(t)
    \/ RenameIndex(t)
    \/ CloseRead(t)
    \/ CloseWrite(t)
    \/ ReleaseAnswer(t)

Next ==
    \/ \E t \in Threads :
          \/ Step(t)
          \/ \E m \in Manifests : RecordStart(t, m)
          \/ \E g \in 0 .. MaxGen - 1 : CloseStart(t, g)
          \/ OpenStart(t)
          \/ ReleaseRead(t)
          \/ Abort(t)
    \/ LoseRegistry

Spec == Init /\ [][Next]_vars

-----------------------------------------------------------------------------
PCs == {"idle", "registry", "mint", "open", "openMint", "index", "stage", "rename",
        "closeRead", "closeWrite", "answer"}

RecordPC == {"registry", "mint", "index", "stage", "rename"}

(* The files and the calls are well formed, and every registry read or     *)
(* stored passes the check of read_session_registry_file: what is closed   *)
(* lies below the current generation.                                      *)
TypeOK ==
    /\ reg \in Registries /\ reg.through <= reg.cur
    /\ idx \subseteq Associations
    /\ idxTmp \subseteq SUBSET Associations
    /\ ilock \in [Instances -> Threads \cup {NoThread}]
    /\ pc \in [Threads -> PCs]
    /\ man \in [Threads -> Manifests \cup {NoManifest}]
    /\ expected \in [Threads -> Nat]
    /\ \A t \in Threads : pc[t] \in RecordPC => man[t] \in Manifests
    /\ regRead \in [Threads -> Registries]
    /\ \A t \in Threads : regRead[t].through <= regRead[t].cur
    /\ idxRead \in [Threads -> SUBSET Associations]
    /\ minted \in Nat
    /\ acked \subseteq Associations /\ answered \subseteq Associations
    /\ closed \subseteq Nat \X Nat

(* releasable_manifests is deletion authority: what it returns belongs to  *)
(* a generation of a lifetime that some accepted close_current_generation  *)
(* ended, whichever calls, losses of the registry and re-minted lifetimes  *)
(* came in between.                                                        *)
ReleaseOnlyClosed ==
    \A a \in answered : <<a.inc, a.gen>> \in closed

(* An association is not eligible for cleanup at the moment it is written: *)
(* record_session_manifest holds the lock over the generation it reads and *)
(* the association it writes, so that no close comes between the two.      *)
NeverBornReleasable ==
    [][\A a \in idx' \ idx : ~(a.inc = reg.inc /\ a.gen < reg.through)]_vars

(* An association record_session_manifest returned Ok for stays in the     *)
(* index: the lock serialises the read-modify-write of the index file.     *)
AckedSurvives == acked \subseteq idx

-----------------------------------------------------------------------------
(* Inductive strengthening of ReleaseOnlyClosed: every registry in a file  *)
(* or in a caller's hands has all generations below its current one closed *)
(* by an accepted close of that incarnation.                               *)
BelowCurrentClosed(r) == \A g \in Nat : g < r.cur => <<r.inc, g>> \in closed

ReleaseInv ==
    /\ TypeOK
    /\ BelowCurrentClosed(reg)
    /\ \A t \in Threads : BelowCurrentClosed(regRead[t])
    /\ ReleaseOnlyClosed

(* Inductive strengthening of AckedSurvives and NeverBornReleasable: what  *)
(* a recorder has read is still what the files hold.                       *)
LockedPC == PCs \ {"idle", "answer"}

RecordInv ==
    /\ \A t \in Threads : pc[t] \in LockedPC => ilock[Instance[t]] = t
    /\ \A t \in Threads : pc[t] \in {"index", "stage", "rename"} => reg \in {regRead[t], NoReg}
    /\ \A t \in Threads : pc[t] \in {"stage", "rename"} => idxRead[t] = idx
    /\ \A t \in Threads : pc[t] = "rename" => idxTmp = {idx \cup {Entry(t)}}
    /\ AckedSurvives
=============================================================================
