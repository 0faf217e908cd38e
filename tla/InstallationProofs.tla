------------------------- MODULE InstallationProofs -------------------------
(***************************************************************************)
(* Proofs about Installation for any number of processes, any bound on     *)
(* waiting and all faults.                                                 *)
(***************************************************************************)
EXTENDS Installation, TLAPS

(* No step changes the command of a process, and a step of p changes the   *)
(* place, the file and the fate of p alone.                                *)
LEMMA OwnStep ==
    ASSUME TypeOK, NEW p \in Processes, Step(p) \/ crash(p)
    PROVE  /\ lock' = lock
           /\ \A q \in Processes : q # p => /\ pc'[q] = pc[q]
                                            /\ file'[q] = file[q]
                                            /\ alive'[q] = alive[q]
  BY DEF Step, crash, start, open_lock, try_lock, recheck, fetch, promote_cache,
         remove_stale_backup, target_exists, backup_target, promote, remove_backup,
         remove_dir_all, remove_lock_file, return, Go, End, TypeOK

(* Every step preserves the types. *)
LEMMA TypeStep ==
    ASSUME TypeOK, [Next]_vars
    PROVE  TypeOK'
<1> USE MaxWaitAssumption DEF Contents, Ends, At, Go
<1>1. CASE UNCHANGED vars
  BY <1>1 DEF TypeOK, vars, process, locks, dirs
<1>2. ASSUME NEW p \in Processes, Step(p) \/ crash(p)
      PROVE  TypeOK'
  <2>0. Closed(p) \in [Processes -> Processes \cup {None}]
    BY DEF Closed, TypeOK
  <2>1. CASE start(p)
    BY <2>0, <2>1 DEF start, End, TypeOK, dirs
  <2>2. CASE open_lock(p)
    BY <2>2 DEF open_lock, TypeOK, dirs
  <2>3. CASE try_lock(p)
    BY <2>0, <2>3 DEF try_lock, End, TypeOK, dirs
  <2>4. CASE recheck(p)
    BY <2>0, <2>4 DEF recheck, End, TypeOK, dirs
  <2>5. CASE fetch(p)
    BY <2>0, <2>5 DEF fetch, End, TypeOK, dirs
  <2>6. CASE promote_cache(p)
    BY <2>0, <2>6 DEF promote_cache, End, TypeOK
  <2>7. CASE remove_stale_backup(p)
    BY <2>0, <2>7 DEF remove_stale_backup, remove_dir_all, End, TypeOK
  <2>8. CASE target_exists(p)
    BY <2>8 DEF target_exists, TypeOK, locks, dirs
  <2>9. CASE backup_target(p)
    BY <2>0, <2>9 DEF backup_target, End, TypeOK
  <2>10. CASE promote(p)
    BY <2>0, <2>10 DEF promote, End, TypeOK
  <2>11. CASE remove_backup(p)
    BY <2>0, <2>11 DEF remove_backup, remove_dir_all, End, TypeOK
  <2>12. CASE remove_lock_file(p)
    BY <2>0, <2>12 DEF remove_lock_file, End, TypeOK, dirs
  <2>13. CASE return(p)
    BY <2>0, <2>13 DEF return, End, TypeOK, dirs
  <2>14. CASE crash(p)
    BY <2>0, <2>14 DEF crash, TypeOK, dirs
  <2> QED BY <1>2, <2>1, <2>2, <2>3, <2>4, <2>5, <2>6, <2>7, <2>8, <2>9, <2>10,
             <2>11, <2>12, <2>13, <2>14 DEF Step
<1> QED BY <1>1, <1>2 DEF Next, Quiescent

LEMMA TypeInit == Init => TypeOK
  BY MaxWaitAssumption DEF Init, TypeOK, Contents, Ends

(* The type invariant, for any number of processes and attempts.           *)
THEOREM TypeCorrect == Spec => []TypeOK
  BY TypeInit, TypeStep, PTL DEF Spec

-----------------------------------------------------------------------------
(* Locks                                                                   *)

LEMMA PartStep ==
    ASSUME TypeOK, KeepsToPart, NEW p \in Processes, Step(p) \/ crash(p)
    PROVE  KeepsToPart'
<1>1. lock' = lock /\ \A q \in Processes : q # p => pc'[q] = pc[q]
  BY OwnStep
<1>2. IF lock[p] = "cache" THEN pc'[p] \notin Swapping ELSE pc'[p] # "promote_cache"
  <2> USE DEF At, Go, End, Swapping, KeepsToPart, Updaters, Downloaders
  <2>1. lock[p] \in {"update", "cache"}
    BY CommandsAssumption DEF TypeOK
  <2>2. CASE start(p) \/ open_lock(p) \/ try_lock(p) \/ recheck(p) \/ fetch(p) \/ promote_cache(p)
    BY <2>1, <2>2 DEF start, open_lock, try_lock, recheck, fetch, promote_cache, TypeOK
  <2>3. CASE remove_stale_backup(p) \/ remove_backup(p)
    BY <2>1, <2>3 DEF remove_stale_backup, remove_backup, remove_dir_all, TypeOK
  <2>4. CASE target_exists(p) \/ backup_target(p) \/ promote(p)
    BY <2>1, <2>4 DEF target_exists, backup_target, promote, TypeOK
  <2>5. CASE remove_lock_file(p) \/ return(p) \/ crash(p)
    BY <2>1, <2>5 DEF remove_lock_file, return, crash, TypeOK
  <2> QED BY <2>2, <2>3, <2>4, <2>5 DEF Step
<1> QED BY <1>1, <1>2 DEF KeepsToPart

(* How a step of p changes owners: it lets go of what it owns when it ends *)
(* or is killed, or takes a file that is free.                             *)
LEMMA OwnerStep ==
    ASSUME TypeOK, NEW p \in Processes, Step(p) \/ crash(p)
    PROVE  \/ owner' = owner
           \/ owner' = Closed(p) /\ (~alive'[p] \/ pc'[p] \in Ends)
           \/ /\ At(p, "lock") /\ owner[file[p]] = None
              /\ owner' = [owner EXCEPT ![file[p]] = p]
              /\ pc' = [pc EXCEPT ![p] = "locked"] /\ file' = file
<1> USE DEF At, Go, End, Ends
<1>1. CASE start(p) \/ open_lock(p) \/ try_lock(p) \/ recheck(p) \/ fetch(p) \/ promote_cache(p)
  BY <1>1 DEF start, open_lock, try_lock, recheck, fetch, promote_cache, TypeOK
<1>2. CASE remove_stale_backup(p) \/ remove_backup(p)
  BY <1>2 DEF remove_stale_backup, remove_backup, remove_dir_all, TypeOK
<1>3. CASE target_exists(p) \/ backup_target(p) \/ promote(p)
  BY <1>3 DEF target_exists, backup_target, promote, TypeOK, locks
<1>4. CASE remove_lock_file(p) \/ return(p) \/ crash(p)
  BY <1>4 DEF remove_lock_file, return, crash, TypeOK
<1> QED BY <1>1, <1>2, <1>3, <1>4 DEF Step

(* A step enters the part under the lock only by taking it.                *)
LEMMA PlaceStep ==
    ASSUME TypeOK, NEW p \in Processes, Step(p) \/ crash(p)
    PROVE  /\ pc'[p] \in UnderLock => pc[p] \in UnderLock \/ pc'[p] = "locked"
           /\ pc'[p] = "locked" => pc[p] \in {"lock", "locked"}
           /\ pc'[p] = "locked" /\ pc[p] = "lock" => owner'[file[p]] = p \/ file[p] = None
           /\ pc'[p] \in Locking => pc[p] \in Locking \/ open_lock(p)
           /\ ~open_lock(p) => file' = file
           /\ alive'[p] => alive[p]
<1> USE DEF At, Go, End, UnderLock, Locking, Swapping
<1>1. CASE start(p) \/ open_lock(p) \/ recheck(p) \/ fetch(p) \/ promote_cache(p)
  BY <1>1 DEF start, open_lock, recheck, fetch, promote_cache, TypeOK
<1>2. CASE try_lock(p)
  BY <1>2 DEF try_lock, TypeOK
<1>3. CASE remove_stale_backup(p) \/ remove_backup(p)
  BY <1>3 DEF remove_stale_backup, remove_backup, remove_dir_all, TypeOK
<1>4. CASE target_exists(p) \/ backup_target(p) \/ promote(p)
  BY <1>4 DEF target_exists, backup_target, promote, TypeOK
<1>5. CASE remove_lock_file(p) \/ return(p) \/ crash(p)
  BY <1>5 DEF remove_lock_file, return, crash, TypeOK
<1> QED BY <1>1, <1>2, <1>3, <1>4, <1>5 DEF Step

LEMMA OwnsLockStep ==
    ASSUME TypeOK, OwnsLock, NEW p \in Processes, Step(p) \/ crash(p)
    PROVE  OwnsLock'
<1>1. ASSUME NEW q \in Processes, pc'[q] \in Locking
      PROVE  file'[q] # None
  <2>1. CASE q # p
    BY <1>1, <2>1, OwnStep DEF OwnsLock
  <2>2. CASE q = p /\ open_lock(p)
    BY <2>2, NoneAssumption DEF open_lock, TypeOK
  <2>3. CASE q = p /\ ~open_lock(p)
    BY <1>1, <2>3, PlaceStep DEF OwnsLock
  <2> QED BY <2>1, <2>2, <2>3
<1>2. ASSUME NEW q \in Processes, alive'[q], pc'[q] \in UnderLock
      PROVE  owner'[file'[q]] = q
  <2>1. file'[q] \in Processes
    BY <1>1, <1>2, TypeStep DEF Locking, TypeOK, Next
  <2>2. CASE q # p
    <3>1. alive[q] /\ pc[q] \in UnderLock /\ file'[q] = file[q] /\ owner[file[q]] = q
      BY <1>2, <2>2, OwnStep DEF OwnsLock
    <3> QED BY <2>1, <2>2, <3>1, OwnerStep, NoneAssumption DEF Closed, TypeOK
  <2>3. CASE q = p
    <3>1. ~open_lock(p) /\ file' = file /\ alive[p]
      <4>1. ~open_lock(p)
        BY <1>2, <2>3 DEF open_lock, Go, UnderLock, Swapping, TypeOK
      <4> QED BY <4>1, <1>2, <2>3, PlaceStep
    <3>2. CASE pc[p] \in UnderLock
      <4>1. owner[file[p]] = p
        BY <3>1, <3>2 DEF OwnsLock
      <4>2. ~At(p, "lock") /\ pc'[p] \notin Ends
        BY <1>2, <2>3, <3>2 DEF At, UnderLock, Swapping, Ends
      <4> QED BY <4>1, <4>2, <3>1, <1>2, <2>3, OwnerStep
    <3>3. CASE pc[p] \notin UnderLock
      BY <1>2, <2>1, <2>3, <3>1, <3>3, PlaceStep, NoneAssumption DEF UnderLock
    <3> QED BY <3>2, <3>3
  <2> QED BY <2>2, <2>3
<1> QED BY <1>1, <1>2 DEF OwnsLock

-----------------------------------------------------------------------------
(* The cache                                                               *)

(* Only moving the download into place changes the cache, to a whole one,  *)
(* and only a process about to return removes its lock file.               *)
LEMMA CacheStep ==
    ASSUME TypeOK, KeepsToPart, NEW p \in Processes, Step(p) \/ crash(p)
    PROVE  /\ cache' = cache \/ (cache = "none" /\ cache' = "whole" /\ At(p, "promote_cache"))
           /\ \/ lockfile' = lockfile
              \/ open_lock(p)
              \/ pc[p] = "unlink" /\ lockfile' = [lockfile EXCEPT ![lock[p]] = None]
           /\ pc'[p] = "fetch" => pc[p] \in {"locked", "fetch"}
           /\ pc[p] = "locked" /\ pc'[p] = "fetch" /\ lock[p] = "cache" => cache = "none"
           /\ pc'[p] = "promote_cache" => pc[p] \in {"fetch", "promote_cache"}
           /\ pc'[p] \in {"unlink", "return", "ok"} /\ lock[p] = "cache" =>
                pc[p] \in {"unlink", "return", "ok"} \/ cache' # "none"
<1> USE DEF At, Go, End, Swapping, KeepsToPart, Updaters, Downloaders
<1>1. CASE start(p) \/ open_lock(p) \/ try_lock(p)
  BY <1>1 DEF start, open_lock, try_lock, TypeOK, dirs
<1>2. CASE recheck(p) \/ fetch(p) \/ promote_cache(p)
  BY <1>2, CommandsAssumption DEF recheck, fetch, promote_cache, TypeOK, dirs
<1>3. CASE remove_stale_backup(p) \/ remove_backup(p)
  BY <1>3 DEF remove_stale_backup, remove_backup, remove_dir_all, TypeOK
<1>4. CASE target_exists(p) \/ backup_target(p) \/ promote(p)
  BY <1>4 DEF target_exists, backup_target, promote, TypeOK, locks, dirs
<1>5. CASE remove_lock_file(p) \/ return(p) \/ crash(p)
  BY <1>5 DEF remove_lock_file, return, crash, TypeOK, dirs
<1> QED BY <1>1, <1>2, <1>3, <1>4, <1>5 DEF Step

LEMMA OneLockFileStep ==
    ASSUME LockInv, NEW p \in Processes, Step(p) \/ crash(p)
    PROVE  OneLockFile'
<1> USE DEF LockInv
<1> SUFFICES ASSUME cache' = "none", NEW q \in Processes, lock[q] = "cache"
             PROVE  /\ pc'[q] \in Locking => file'[q] = lockfile'["cache"]
                    /\ pc'[q] \notin {"unlink", "return", "ok"}
  BY OwnStep DEF OneLockFile, Downloaders
<1>1. cache = "none"
  BY CacheStep
<1>2. /\ pc[q] \in Locking => file[q] = lockfile["cache"]
      /\ pc[q] \notin {"unlink", "return", "ok"}
  BY <1>1 DEF OneLockFile, Downloaders
<1>3. pc'[q] \notin {"unlink", "return", "ok"}
  BY <1>2, CacheStep, OwnStep
<1>4. lock \in [Processes -> {"update", "cache"}] /\ "cache" \in Commands
  BY CommandsAssumption, ZenonT(40) DEF TypeOK
<1>5. ASSUME pc'[q] \in Locking PROVE file'[q] = lockfile'["cache"]
  <2>1. CASE open_lock(p) /\ lock[p] = "cache"
    <3>1. CASE q = p
      BY <1>4, <2>1, <3>1 DEF open_lock, TypeOK
    <3>2. CASE q # p
      <4>1. pc[q] \in Locking /\ file'[q] = file[q]
        BY <1>5, <3>2, OwnStep
      <4>2. lockfile["cache"] # None
        BY <1>2, <4>1 DEF OwnsLock
      <4> QED BY <1>2, <1>4, <2>1, <4>1, <4>2 DEF open_lock, TypeOK
    <3> QED BY <3>1, <3>2
  <2>2. CASE open_lock(p) /\ lock[p] # "cache"
    <3>1. q # p /\ lockfile'["cache"] = lockfile["cache"]
      BY <1>4, <2>2 DEF open_lock, TypeOK
    <3> QED BY <1>2, <1>5, <3>1, OwnStep
  <2>3. CASE ~open_lock(p)
    <3>1. lockfile'["cache"] = lockfile["cache"]
      <4>1. CASE lock[p] = "cache"
        BY <1>1, <2>3, <4>1, CacheStep DEF OneLockFile, Downloaders
      <4>2. CASE lock[p] # "cache"
        BY <2>3, <4>2, CacheStep DEF TypeOK
      <4> QED BY <4>1, <4>2
    <3>2. file' = file /\ pc[q] \in Locking
      BY <1>5, <2>3, PlaceStep, OwnStep
    <3> QED BY <1>2, <3>1, <3>2
  <2> QED BY <2>1, <2>2, <2>3
<1> QED BY <1>3, <1>5

LEMMA OneDownloadStep ==
    ASSUME LockInv, NEW p \in Processes, Step(p) \/ crash(p)
    PROVE  OneDownload'
<1> USE DEF LockInv
<1> DEFINE In(q) == alive[q] /\ pc[q] \in {"fetch", "promote_cache"}
<1>1. ASSUME NEW q \in Downloaders, In(q)'
      PROVE  /\ q \in Processes /\ alive[q] /\ file'[q] = file[q]
             /\ pc[q] \in Locking
             /\ In(q) \/ (q = p /\ cache = "none")
  <2>1. CASE q # p
    BY <1>1, <2>1, OwnStep DEF Downloaders, Locking, UnderLock
  <2>2. CASE q = p
    <3>1. ~open_lock(p)
      BY <1>1, <2>2 DEF open_lock, Go, Downloaders, TypeOK
    <3>2. alive[p] /\ file' = file
      BY <1>1, <2>2, <3>1, PlaceStep
    <3>3. pc[p] \in {"locked", "fetch", "promote_cache"} /\ (In(p) \/ cache = "none")
      BY <1>1, <2>2, <3>2, CacheStep DEF Downloaders
    <3> QED BY <1>1, <2>2, <3>2, <3>3 DEF Downloaders, Locking, UnderLock
  <2> QED BY <2>1, <2>2
<1>2. Downloaders' = Downloaders
  BY OwnStep DEF Downloaders
<1> SUFFICES ASSUME NEW q \in Downloaders, NEW r \in Downloaders, In(q)', In(r)'
             PROVE  file'[q] = file'[r]
  BY <1>2 DEF OneDownload
<1>3. CASE cache = "none"
  BY <1>1, <1>3 DEF OneLockFile
<1>4. CASE cache # "none"
  BY <1>1, <1>4 DEF OneDownload
<1> QED BY <1>3, <1>4

LEMMA LockInvStep ==
    ASSUME LockInv, [Next]_vars
    PROVE  LockInv'
<1> USE DEF LockInv
<1>1. CASE UNCHANGED vars
  BY <1>1, TypeStep DEF vars, process, locks, dirs, KeepsToPart, OwnsLock, OneLockFile,
     OneDownload, Downloaders
<1>2. ASSUME NEW p \in Processes, Step(p) \/ crash(p)
      PROVE  LockInv'
  <2>1. TypeOK'
    BY TypeStep
  <2>2. cache' # "partial"
    BY <1>2, CacheStep
  <2> QED BY <1>2, <2>1, <2>2, PartStep, OwnsLockStep, OneLockFileStep, OneDownloadStep
<1> QED BY <1>1, <1>2 DEF Next, Quiescent

LEMMA LockInvInit == Init => LockInv
<1> SUFFICES ASSUME Init
             PROVE  LockInv
  OBVIOUS
<1>1. \A p \in Processes : pc[p] = "start" /\ file[p] = None /\ owner[p] = None
  BY DEF Init
<1>2. KeepsToPart
  BY <1>1 DEF KeepsToPart, Swapping
<1>3. OwnsLock
  BY <1>1 DEF OwnsLock, Locking, UnderLock, Swapping
<1>4. OneLockFile /\ OneDownload
  BY <1>1 DEF OneLockFile, OneDownload, Downloaders, Locking, UnderLock, Swapping
<1>5. cache # "partial"
  BY DEF Init
<1> QED BY <1>2, <1>3, <1>4, <1>5, TypeInit DEF LockInv

LEMMA LockInvHolds == Spec => []LockInv
  BY LockInvInit, LockInvStep, PTL DEF Spec

(***************************************************************************)
(* However many processes download into the cache, whoever is killed and   *)
(* whatever lock files are left behind: no one sees a cache that is half   *)
(* filled, and everyone told that it is there finds it.                    *)
(***************************************************************************)
THEOREM CacheIsWholeHolds == Spec => []CacheIsWhole
<1>1. LockInv => CacheIsWhole
  BY DEF LockInv, CacheIsWhole, OneLockFile, TypeOK, Contents
<1> QED BY <1>1, LockInvHolds, PTL

(***************************************************************************)
(* No two living processes download at the same time, for any number of    *)
(* them, although each removes the lock file while others have it open.    *)
(***************************************************************************)
THEOREM ExclusiveDownloadHolds == Spec => []ExclusiveDownload
<1>1. LockInv => ExclusiveDownload
  <2> SUFFICES ASSUME LockInv, NEW p \in Downloaders, NEW q \in Downloaders,
                      At(p, "promote_cache"), pc[q] \in {"fetch", "promote_cache"}, alive[q]
               PROVE  p = q
    BY DEF ExclusiveDownload
  <2>1. file[p] = file[q]
    BY DEF LockInv, OneDownload, At
  <2>2. owner[file[p]] = p /\ owner[file[q]] = q
    BY DEF LockInv, OwnsLock, At, UnderLock, Downloaders
  <2> QED BY <2>1, <2>2
<1> QED BY <1>1, LockInvHolds, PTL

-----------------------------------------------------------------------------
(* The bin directory                                                       *)

(* The bin directory is missing only where an updater is to put a new one  *)
(* (or was killed there), and is otherwise whole.                          *)
Installed ==
    \/ bin = "whole"
    \/ bin = "none" /\ \E p \in Updaters : pc[p] = "promote"

(***************************************************************************)
(* Updates that ran to their end leave an installation, however many of    *)
(* them get past each other's locks (atomic_dir_swap).                     *)
(***************************************************************************)
THEOREM UpdatesLeaveInstallationHolds == Spec => []UpdatesLeaveInstallation
<1>1. Init => Installed
  BY DEF Init, Installed
<1>2. LockInv /\ Installed /\ [Next]_vars => Installed'
  <2> SUFFICES ASSUME LockInv, Installed, [Next]_vars
               PROVE  Installed'
    OBVIOUS
  <2>1. CASE UNCHANGED vars
    BY <2>1 DEF vars, process, dirs, Installed, Updaters
  <2>2. ASSUME NEW p \in Processes, Step(p) \/ crash(p), bin' # "whole"
        PROVE  /\ bin' = "none"
               /\ \E q \in Processes : lock'[q] = "update" /\ pc'[q] = "promote"
    <3> USE DEF LockInv
    <3>1. CASE bin = "none"
      <4>1. PICK q \in Processes : lock[q] = "update" /\ pc[q] = "promote"
        BY <3>1 DEF Installed, Updaters
      <4>2. bin' = "none"
        BY <2>2, <3>1 DEF Step, start, open_lock, try_lock, recheck, fetch, promote_cache,
           remove_stale_backup, target_exists, backup_target, promote, remove_backup,
           remove_lock_file, return, crash, dirs
      <4>3. CASE q # p
        BY <2>2, <4>1, <4>2, <4>3, OwnStep
      <4>4. CASE q = p
        <5>1. CASE crash(p)
          BY <4>1, <4>2, <4>4, <5>1 DEF crash
        <5>2. CASE Step(p)
          <6>1. promote(p)
            BY <4>1, <4>4, <5>2 DEF Step, At, start, open_lock, try_lock, recheck, fetch,
               promote_cache, remove_stale_backup, target_exists, backup_target,
               remove_backup, remove_dir_all, remove_lock_file, return
          <6> QED BY <3>1, <4>2, <6>1 DEF promote
        <5> QED BY <2>2, <5>1, <5>2
      <4> QED BY <4>3, <4>4
    <3>2. CASE bin # "none"
      <4>1. bin = "whole"
        BY <3>2 DEF Installed
      <4>2. backup_target(p)
        BY <2>2, <4>1 DEF Step, start, open_lock, try_lock, recheck, fetch, promote_cache,
           remove_stale_backup, target_exists, promote, remove_backup, remove_lock_file,
           return, crash, dirs
      <4>3. bin' = "none" /\ pc'[p] = "promote" /\ lock' = lock /\ pc[p] = "backup"
        BY <2>2, <4>1, <4>2 DEF backup_target, At, Go, TypeOK
      <4>4. lock[p] = "update"
        BY <4>3, CommandsAssumption DEF KeepsToPart, Swapping, TypeOK
      <4> QED BY <4>3, <4>4
    <3> QED BY <3>1, <3>2
  <2>3. CASE Next
    <3>1. CASE Quiescent
      BY <2>1, <3>1 DEF Quiescent
    <3>2. ASSUME NEW p \in Processes, Step(p) \/ crash(p) PROVE Installed'
      <4>1. CASE bin' = "whole"
        BY <4>1 DEF Installed
      <4>2. CASE bin' # "whole"
        BY <2>2, <3>2, <4>2 DEF Installed, Updaters
      <4> QED BY <4>1, <4>2
    <3> QED BY <2>3, <3>1, <3>2 DEF Next
  <2> QED BY <2>1, <2>3
<1>3. Installed => UpdatesLeaveInstallation
  BY DEF Installed, UpdatesLeaveInstallation, Ends
<1> QED BY <1>1, <1>2, <1>3, LockInvHolds, PTL DEF Spec
=============================================================================
