---------------------------- MODULE ModuleProofs ----------------------------
(***************************************************************************)
(* What TLAPS proves of two modules of the kernel that share nothing:      *)
(* Tasklet for any CPUs and any number of keys, MyFs for any number of     *)
(* mount points.                                                           *)
(***************************************************************************)
EXTENDS Tasklet, MyFs, TLAPS

-----------------------------------------------------------------------------
(***************************************************************************)
(* Why tasklet_kill() is enough for what is older than it.  A tasklet that *)
(* is in a list, or was taken from it and has not begun, has SCHED; one    *)
(* that a CPU works on has RUN.  Once tasklet_kill() has taken SCHED it is *)
(* in no list, once RUN is clear no CPU works on it, and only a key can    *)
(* change that before the module is gone.                                  *)
(***************************************************************************)
Resting == queued = {} /\ \A cpu \in CPUs : soft[cpu] = "idle"

KillInv ==
  /\ soft \in [CPUs -> {"idle", "locked", "function", "unlock"}]
  /\ queued \subseteq CPUs
  /\ mod \in {"absent", "proc_create", "live", "tasklet_kill", "unlock_wait",
              "free_irq", "remove_proc_entry", "oops"}
  /\ \A cpu \in CPUs : soft[cpu] # "idle" => run
  /\ ~sched => queued = {} /\ \A cpu \in CPUs : soft[cpu] # "locked"
  /\ mod = "unlock_wait" =>
       sched /\ queued = {} /\ \A cpu \in CPUs : soft[cpu] # "locked"
  /\ mod \in {"free_irq", "remove_proc_entry"} => late \/ Resting
  /\ mod = "absent" => Resting
  /\ mod \in {"absent", "remove_proc_entry"} => "own" \notin handlers
  /\ \A c, d \in CPUs : soft[c] # "idle" /\ soft[d] # "idle" => c = d
  /\ \A c \in queued, d \in CPUs : soft[d] # "locked"
  /\ \A c, d \in queued : c = d

\* The bits account for lists and runs, and tasklet_kill() for both.
THEOREM KillInvCorrect == TaskletSpec => []KillInv
<1>1. TaskletInit => KillInv
  BY DEF TaskletInit, KillInv, Resting
<1>2. KillInv /\ [TaskletNext]_taskletVars => KillInv'
  <2> SUFFICES ASSUME KillInv, [TaskletNext]_taskletVars PROVE KillInv'
    OBVIOUS
  <2> USE DEF KillInv, Resting, bits, history
  <2>1. CASE Oops
    BY <2>1 DEF Oops
  <2>2. CASE RequestIrq
    BY <2>2 DEF RequestIrq
  <2>3. CASE ProcCreate
    BY <2>3 DEF ProcCreate
  <2>4. CASE ProcCreateFails
    BY <2>4 DEF ProcCreateFails, Free
  <2>5. CASE Rmmod
    BY <2>5 DEF Rmmod
  <2>6. CASE TaskletKill
    BY <2>6 DEF TaskletKill
  <2>7. CASE TaskletUnlockWait
    BY <2>7 DEF TaskletUnlockWait
  <2>8. CASE FreeIrq
    BY <2>8 DEF FreeIrq
  <2>9. CASE RemoveProcEntry
    BY <2>9 DEF RemoveProcEntry, Free
  <2>10. ASSUME NEW cpu \in CPUs, Key(cpu) PROVE KillInv'
    BY <2>10 DEF Key, HandlerSchedules, Schedule
  <2>11. ASSUME NEW cpu \in CPUs, Trylock(cpu) PROVE KillInv'
    BY <2>11 DEF Trylock
  <2>12. ASSUME NEW cpu \in CPUs, ClearSched(cpu) PROVE KillInv'
    BY <2>12 DEF ClearSched
  <2>13. ASSUME NEW cpu \in CPUs, MyTaskletFunction(cpu) PROVE KillInv'
    BY <2>13 DEF MyTaskletFunction
  <2>14. ASSUME NEW cpu \in CPUs, Unlock(cpu) PROVE KillInv'
    BY <2>14 DEF Unlock
  <2>15. CASE FreedMemory
    BY <2>15, <2>1 DEF FreedMemory
  <2>16. CASE Reboot
    BY <2>16 DEF Reboot
  <2>17. CASE UNCHANGED taskletVars
    BY <2>17 DEF taskletVars
  <2> QED
    BY <2>2, <2>3, <2>4, <2>5, <2>6, <2>7, <2>8, <2>9, <2>10, <2>11, <2>12,
       <2>13, <2>14, <2>15, <2>16, <2>17 DEF TaskletNext, Softirq
<1>3. QED BY <1>1, <1>2, PTL DEF TaskletSpec

\* What refers to the module after it has gone is there because of a key
\* between tasklet_kill() and free_irq() (md.c:157-160), or of a failed load.
THEOREM OnlyLateKeysOutliveCorrect == TaskletSpec => []OnlyLateKeysOutlive
<1>1. TaskletInit => OnlyLateKeysOutlive
  BY DEF TaskletInit, OnlyLateKeysOutlive
<1>2. KillInv /\ OnlyLateKeysOutlive /\ [TaskletNext]_taskletVars => OnlyLateKeysOutlive'
  <2> SUFFICES ASSUME KillInv, OnlyLateKeysOutlive, [TaskletNext]_taskletVars
               PROVE  OnlyLateKeysOutlive'
    OBVIOUS
  <2> USE DEF OnlyLateKeysOutlive, bits, history
  <2>1. ASSUME stale' \subseteq stale, handlers \subseteq handlers', late => late'
        PROVE  OnlyLateKeysOutlive'
    BY <2>1
  <2>2. CASE Oops
    BY <2>2, <2>1 DEF Oops
  <2>3. CASE RequestIrq
    BY <2>3 DEF RequestIrq
  <2>4. CASE ProcCreate \/ Rmmod \/ TaskletKill \/ TaskletUnlockWait
    BY <2>4, <2>1 DEF ProcCreate, Rmmod, TaskletKill, TaskletUnlockWait
  <2>5. CASE ProcCreateFails
    BY <2>5 DEF ProcCreateFails
  <2>6. CASE FreeIrq
    BY <2>6 DEF FreeIrq
  <2>7. CASE RemoveProcEntry
    <3>1. late' = late /\ handlers' = handlers
      BY <2>7 DEF RemoveProcEntry
    <3>2. CASE late
      BY <3>1, <3>2
    <3>3. CASE ~late
      <4>1. Resting
        BY <2>7, <3>3 DEF RemoveProcEntry, KillInv
      <4>2. stale' = stale
        BY <2>7, <4>1 DEF RemoveProcEntry, Free, Resting
      <4> QED BY <3>1, <4>2
    <3> QED BY <3>2, <3>3
  <2>8. ASSUME NEW cpu \in CPUs, Key(cpu) PROVE OnlyLateKeysOutlive'
    BY <2>8, <2>1 DEF Key
  <2>9. ASSUME NEW cpu \in CPUs, Softirq(cpu) PROVE OnlyLateKeysOutlive'
    BY <2>9, <2>1 DEF Softirq, Trylock, ClearSched, MyTaskletFunction, Unlock
  <2>10. CASE FreedMemory
    BY <2>10, <2>2, <2>1 DEF FreedMemory
  <2>11. CASE Reboot
    BY <2>11 DEF Reboot
  <2>12. CASE UNCHANGED taskletVars
    BY <2>12, <2>1 DEF taskletVars
  <2> QED
    BY <2>3, <2>4, <2>5, <2>6, <2>7, <2>8, <2>9, <2>10, <2>11, <2>12 DEF TaskletNext
<1>3. QED BY <1>1, <1>2, KillInvCorrect, PTL DEF TaskletSpec

-----------------------------------------------------------------------------
(***************************************************************************)
(* The chain from an object to its cache: an object belongs to a mount,    *)
(* a mount holds a reference, a reference keeps the module between         *)
(* register_filesystem() and rmmod, and no object can come from a cache    *)
(* that does not exist yet.                                                *)
(***************************************************************************)
ReferenceInv ==
  /\ mount \in [Mounts -> {"none", "new_inode", "d_make_root", "mounted", "kill_sb"}]
  /\ refs = {m \in Mounts : mount[m] # "none"}
  /\ objects \subseteq refs
  /\ refs # {} => registered /\ state \in {"kmem_cache_create", "live", "oops"}
  /\ state = "kmem_cache_create" => registered
  /\ state = "live" => registered
  /\ state = "kmem_cache_create" => objects = {} /\ cache = "null"
  /\ objects # {} => cache = "live"

\* References account for mounts, and mounts for objects (slab.c:174).
THEOREM ReferenceInvCorrect == MyFsSpec => []ReferenceInv
<1>1. MyFsInit => ReferenceInv
  BY DEF MyFsInit, ReferenceInv
<1>2. ReferenceInv /\ [MyFsNext]_myfsVars => ReferenceInv'
  <2> SUFFICES ASSUME ReferenceInv, [MyFsNext]_myfsVars PROVE ReferenceInv'
    OBVIOUS
  <2> USE DEF ReferenceInv
  <2>1. CASE Dies
    BY <2>1 DEF Dies
  <2>2. CASE RegisterFilesystem
    BY <2>2 DEF RegisterFilesystem
  <2>3. CASE KmemCacheCreate
    BY <2>3 DEF KmemCacheCreate
  <2>4. CASE RmmodMyFs
    BY <2>4 DEF RmmodMyFs
  <2>5. CASE UnregisterFilesystem
    BY <2>5 DEF UnregisterFilesystem
  <2>6. CASE KmemCacheDestroy
    BY <2>6 DEF KmemCacheDestroy
  <2>7. ASSUME NEW m \in Mounts, Mount(m) PROVE ReferenceInv'
    BY <2>7 DEF Mount, Owner, Move, moduleVars
  <2>8. ASSUME NEW m \in Mounts, MakeInode(m) PROVE ReferenceInv'
    BY <2>8, <2>1 DEF MakeInode, Move, moduleVars
  <2>9. ASSUME NEW m \in Mounts, NewInodeFails(m) \/ MakeRoot(m) \/ Umount(m)
        PROVE  ReferenceInv'
    <3>1. mount[m] # "none" /\ \E place \in {"kill_sb", "mounted"} :
             mount' = [mount EXCEPT ![m] = place]
      BY <2>9 DEF NewInodeFails, MakeRoot, Umount, Move
    <3>2. UNCHANGED <<state, registered, cache, refs, objects>>
      BY <2>9 DEF NewInodeFails, MakeRoot, Umount, moduleVars
    <3> QED BY <3>1, <3>2
  <2>10. ASSUME NEW m \in Mounts, MakeRootFails(m) PROVE ReferenceInv'
    BY <2>10, <2>1 DEF MakeRootFails
  <2>11. ASSUME NEW m \in Mounts, KillBlockSuper(m) PROVE ReferenceInv'
    BY <2>11, <2>1 DEF KillBlockSuper, Move, moduleVars
  <2>12. CASE Restart
    BY <2>12 DEF Restart
  <2>13. CASE UNCHANGED myfsVars
    BY <2>13 DEF myfsVars, moduleVars
  <2> QED
    BY <2>2, <2>3, <2>4, <2>5, <2>6, <2>7, <2>8, <2>9, <2>10, <2>11, <2>12, <2>13
       DEF MyFsNext
<1>3. QED BY <1>1, <1>2, PTL DEF MyFsSpec

\* No inode outlives its file system, no object its cache (slab.c:254-269).
THEOREM CacheOutlivesObjectsCorrect == MyFsSpec => []CacheOutlivesObjects
<1>1. ReferenceInv => CacheOutlivesObjects
  BY DEF ReferenceInv, CacheOutlivesObjects
<1>2. QED BY <1>1, ReferenceInvCorrect, PTL
=============================================================================
