---------------------------- MODULE Installation ----------------------------
(***************************************************************************)
(* Processes of the exo command that change the shared installation under  *)
(* ~/.exograph: "exo update" (update_exograph), which replaces the bin     *)
(* directory, and the builder's download of Deno (download_dir_if_needed), *)
(* which fills a directory of the cache.  Each kind takes a file lock,     *)
(* works in a temporary directory of its own, moves it into place and      *)
(* removes the lock file.                                                  *)
(*                                                                         *)
(* Every system call on a shared path is a step.  A lock belongs to the    *)
(* file that was opened, not to its name, and is released when its holder  *)
(* ends, in whichever way.                                                 *)
(***************************************************************************)
EXTENDS Integers, FiniteSets

CONSTANTS
    Processes,  \* the processes
    None,
    Commands,   \* what they may run: a subset of {"update", "cache"}
    Faults,     \* a subset of {"crash", "fetch"}
    MaxWait     \* bound: attempts to lock before take_file_lock gives up

ASSUME NoneAssumption == None \notin Processes
ASSUME CommandsAssumption == Commands \subseteq {"update", "cache"}
ASSUME FaultsAssumption == Faults \subseteq {"crash", "fetch"}
ASSUME MaxWaitAssumption == MaxWait \in Nat

VARIABLES
    lock,      \* the lock a process takes, which says what it runs
    pc,        \* the next system call of each process
    alive,     \* the process has not been killed
    waits,     \* failed attempts to lock
    file,      \* the lock file a process has open, named by its creator
    lockfile,  \* the file at the path of each lock
    owner,     \* the process that has locked a file
    cache,     \* the cache directory
    bin,       \* the bin directory
    old        \* bin.old

process == <<lock, pc, alive, waits, file>>
locks   == <<lockfile, owner>>
dirs    == <<cache, bin, old>>
vars    == <<process, locks, dirs>>

Contents == {"none", "partial", "whole"}
Ends == {"ok", "error"}

TypeOK ==
    /\ lock \in [Processes -> Commands]
    /\ pc \in [Processes -> {"start", "open", "lock", "locked", "fetch", "promote_cache",
                             "stale", "empty_stale", "remove_stale", "target", "backup",
                             "promote", "spare", "empty_spare", "remove_spare", "unlink",
                             "return"} \cup Ends]
    /\ alive \in [Processes -> BOOLEAN]
    /\ waits \in [Processes -> 0..MaxWait]
    /\ file \in [Processes -> Processes \cup {None}]
    /\ lockfile \in [Commands -> Processes \cup {None}]
    /\ owner \in [Processes -> Processes \cup {None}]
    /\ cache \in Contents /\ bin \in Contents /\ old \in Contents

Init ==
    /\ lock \in [Processes -> Commands]
    /\ pc = [p \in Processes |-> "start"]
    /\ alive = [p \in Processes |-> TRUE]
    /\ waits = [p \in Processes |-> 0]
    /\ file = [p \in Processes |-> None]
    /\ lockfile = [l \in Commands |-> None]
    /\ owner = [p \in Processes |-> None]
    /\ cache = "none" /\ bin = "whole" /\ old = "none"

(* The processes that run update_exograph, and download_dir_if_needed.     *)
Updaters    == {p \in Processes : lock[p] = "update"}
Downloaders == {p \in Processes : lock[p] = "cache"}

At(p, place) == alive[p] /\ pc[p] = place
Go(p, place) == pc' = [pc EXCEPT ![p] = place]

(* The process is over, and with it its lock.                              *)
Closed(p) == [f \in Processes |-> IF owner[f] = p THEN None ELSE owner[f]]
End(p, how) == Go(p, how) /\ owner' = Closed(p)

-----------------------------------------------------------------------------
(* Locking                                                                 *)

(* download_dir_if_needed returns at once if the directory is there.       *)
start(p) ==
    /\ At(p, "start")
    /\ \/ /\ p \in Downloaders /\ cache # "none"
          /\ End(p, "ok")
       \/ /\ p \in Updaters \/ cache = "none"
          /\ Go(p, "open") /\ UNCHANGED owner
    /\ UNCHANGED <<lock, alive, waits, file, lockfile, dirs>>

(* MUTANT: create_new, which takes the file itself for the lock.           *)
open_lock_new(p) ==
    /\ At(p, "open")
    /\ lockfile[lock[p]] = None
    /\ file' = [file EXCEPT ![p] = p]
    /\ lockfile' = [lockfile EXCEPT ![lock[p]] = p]
    /\ Go(p, "lock")
    /\ UNCHANGED <<lock, alive, waits, owner, dirs>>

(* take_file_lock opens the lock file, and creates it if there is none.    *)
open_lock(p) ==
    /\ At(p, "open")
    /\ LET f == IF lockfile[lock[p]] = None THEN p ELSE lockfile[lock[p]] IN
         /\ file' = [file EXCEPT ![p] = f]
         /\ lockfile' = [lockfile EXCEPT ![lock[p]] = f]
    /\ Go(p, "lock")
    /\ UNCHANGED <<lock, alive, waits, owner, dirs>>

(* MUTANT: one wait too many.                                              *)
try_lock_late(p) ==
    /\ At(p, "lock")
    /\ \/ /\ owner[file[p]] = None
          /\ owner' = [owner EXCEPT ![file[p]] = p]
          /\ Go(p, "locked") /\ UNCHANGED waits
       \/ /\ owner[file[p]] # None /\ waits[p] <= MaxWait
          /\ waits' = [waits EXCEPT ![p] = @ + 1]
          /\ UNCHANGED <<pc, owner>>
    /\ UNCHANGED <<lock, alive, file, lockfile, dirs>>

(* One attempt, and giving up after the last.                              *)
try_lock(p) ==
    /\ At(p, "lock")
    /\ \/ /\ owner[file[p]] = None
          /\ owner' = [owner EXCEPT ![file[p]] = p]
          /\ Go(p, "locked") /\ UNCHANGED waits
       \/ /\ owner[file[p]] # None /\ waits[p] < MaxWait
          /\ waits' = [waits EXCEPT ![p] = @ + 1]
          /\ UNCHANGED <<pc, owner>>
       \/ /\ owner[file[p]] # None /\ waits[p] = MaxWait
          /\ End(p, "error") /\ UNCHANGED waits
    /\ UNCHANGED <<lock, alive, file, lockfile, dirs>>

(* MUTANT: the directory is not looked for again under the lock.           *)
recheck_not(p) ==
    /\ At(p, "locked")
    /\ Go(p, "fetch")
    /\ UNCHANGED <<lock, alive, waits, file, locks, dirs>>

(***************************************************************************)
(* Under the lock the downloader looks again.  The updater compares its    *)
(* own version, a constant, with the one it is about to install; they      *)
(* differ, or it would not have come here.                                 *)
(***************************************************************************)
recheck(p) ==
    /\ At(p, "locked")
    /\ \/ /\ p \in Downloaders /\ cache # "none"
          /\ End(p, "ok")
       \/ /\ p \in Updaters \/ cache = "none"
          /\ Go(p, "fetch") /\ UNCHANGED owner
    /\ UNCHANGED <<lock, alive, waits, file, lockfile, dirs>>

(* Download, verify, extract and try out in a temporary directory.         *)
fetch(p) ==
    /\ At(p, "fetch")
    /\ \/ /\ Go(p, IF p \in Updaters THEN "stale" ELSE "promote_cache")
          /\ UNCHANGED owner
       \/ "fetch" \in Faults /\ End(p, "error")
    /\ UNCHANGED <<lock, alive, waits, file, lockfile, dirs>>

-----------------------------------------------------------------------------
(* Moving into place                                                       *)

(* MUTANT: the archive is extracted in its final place.                    *)
promote_cache_in_place(p) ==
    /\ At(p, "promote_cache")
    /\ \/ /\ cache = "none" /\ cache' = "partial" /\ UNCHANGED pc
       \/ /\ cache = "partial" /\ cache' = "whole" /\ Go(p, "unlink")
    /\ UNCHANGED <<lock, alive, waits, file, locks, bin, old>>

(* rename: a directory does not replace one that has something in it.      *)
promote_cache(p) ==
    /\ At(p, "promote_cache")
    /\ \/ /\ cache = "none"
          /\ cache' = "whole"
          /\ Go(p, "unlink") /\ UNCHANGED owner
       \/ /\ cache # "none"
          /\ End(p, "error") /\ UNCHANGED cache
    /\ UNCHANGED <<lock, alive, waits, file, lockfile, bin, old>>

(***************************************************************************)
(* If bin.old exists, remove_dir_all(bin.old) empties it and then removes  *)
(* it.  That fails if it is gone before it starts, or if someone puts      *)
(* something in its place; it may fail if someone else removes it first.   *)
(***************************************************************************)
remove_dir_all(p, exists, empty, remove, next) ==
    \/ /\ At(p, exists)
       /\ Go(p, IF old = "none" THEN next ELSE empty)
       /\ UNCHANGED <<owner, old>>
    \/ /\ At(p, empty) /\ old # "none"
       /\ old' = "partial"
       /\ Go(p, remove) /\ UNCHANGED owner
    \/ /\ At(p, remove) /\ old # "whole"
       /\ old' = "none"
       /\ Go(p, next) /\ UNCHANGED owner
    \/ /\ (At(p, empty) /\ old = "none") \/ (At(p, remove) /\ old # "partial")
       /\ End(p, "error") /\ UNCHANGED old

(* atomic_dir_swap: a backup left behind is removed ...                    *)
remove_stale_backup(p) ==
    /\ remove_dir_all(p, "stale", "empty_stale", "remove_stale", "target")
    /\ UNCHANGED <<lock, alive, waits, file, lockfile, cache, bin>>

(* ... target_dir.exists() ...                                             *)
target_exists(p) ==
    /\ At(p, "target")
    /\ Go(p, IF bin = "none" THEN "promote" ELSE "backup")
    /\ UNCHANGED <<lock, alive, waits, file, locks, dirs>>

(* ... bin becomes bin.old; an emptied bin.old may be in the way ...       *)
backup_target(p) ==
    /\ At(p, "backup")
    /\ \/ /\ bin # "none" /\ old # "whole"
          /\ bin' = "none" /\ old' = bin
          /\ Go(p, "promote") /\ UNCHANGED owner
       \/ /\ bin = "none" \/ old # "none"
          /\ End(p, "error") /\ UNCHANGED <<bin, old>>
    /\ UNCHANGED <<lock, alive, waits, file, lockfile, cache>>

(* ... and the temporary directory becomes bin.                            *)
promote(p) ==
    /\ At(p, "promote")
    /\ \/ /\ bin = "none"
          /\ bin' = "whole"
          /\ Go(p, "spare") /\ UNCHANGED owner
       \/ /\ bin # "none"
          /\ End(p, "error") /\ UNCHANGED bin
    /\ UNCHANGED <<lock, alive, waits, file, lockfile, cache, old>>

(* Mutant: the wrong directory is cleaned up.                              *)
remove_backup_target(p) ==
    /\ At(p, "spare")
    /\ bin' = "none" /\ Go(p, "unlink")
    /\ UNCHANGED <<lock, alive, waits, file, locks, cache, old>>

remove_backup(p) ==
    /\ remove_dir_all(p, "spare", "empty_spare", "remove_spare", "unlink")
    /\ UNCHANGED <<lock, alive, waits, file, lockfile, cache, bin>>

(* The lock file is removed by its name.                                   *)
remove_lock_file(p) ==
    /\ At(p, "unlink")
    /\ \/ /\ lockfile[lock[p]] # None
          /\ lockfile' = [lockfile EXCEPT ![lock[p]] = None]
          /\ Go(p, "return") /\ UNCHANGED owner
       \/ /\ lockfile[lock[p]] = None
          /\ End(p, "error") /\ UNCHANGED lockfile
    /\ UNCHANGED <<lock, alive, waits, file, dirs>>

(* The lock is dropped on return.                                          *)
return(p) ==
    /\ At(p, "return")
    /\ End(p, "ok")
    /\ UNCHANGED <<lock, alive, waits, file, lockfile, dirs>>

(* The process is killed.  Its pc stays where it was.                      *)
crash(p) ==
    /\ "crash" \in Faults
    /\ alive[p] /\ pc[p] \notin Ends
    /\ alive' = [alive EXCEPT ![p] = FALSE]
    /\ owner' = Closed(p)
    /\ UNCHANGED <<lock, pc, waits, file, lockfile, dirs>>

-----------------------------------------------------------------------------
Step(p) ==
    \/ start(p) \/ open_lock(p) \/ try_lock(p) \/ recheck(p) \/ fetch(p)
    \/ promote_cache(p)
    \/ remove_stale_backup(p) \/ target_exists(p) \/ backup_target(p) \/ promote(p)
    \/ remove_backup(p) \/ remove_lock_file(p) \/ return(p)

Over(p) == ~alive[p] \/ pc[p] \in Ends
Quiescent == (\A p \in Processes : Over(p)) /\ UNCHANGED vars

Next == (\E p \in Processes : Step(p) \/ crash(p)) \/ Quiescent

(* Fairness: a command that has been started runs until it ends or is      *)
(* killed.                                                                 *)
Fairness == \A p \in Processes : WF_vars(pc[p] # "start" /\ Step(p))

Spec == Init /\ [][Next]_vars
FairSpec == Spec /\ Fairness

-----------------------------------------------------------------------------
(* Properties                                                              *)

(***************************************************************************)
(* download_dir_if_needed: the cache directory is never seen half filled,  *)
(* and is there for every caller that was told so, although any process    *)
(* may be killed at any time and leave its lock file behind.               *)
(***************************************************************************)
CacheIsWhole ==
    /\ cache # "partial"
    /\ \A p \in Downloaders : pc[p] = "ok" => cache = "whole"

(***************************************************************************)
(* "Check once again if another process completed before we got the lock": *)
(* two processes never download the directory at the same time, although   *)
(* the lock file is removed while others have it open.                     *)
(***************************************************************************)
ExclusiveDownload ==
    \A p, q \in Downloaders :
      At(p, "promote_cache") /\ pc[q] \in {"fetch", "promote_cache"} /\ alive[q] => p = q

(***************************************************************************)
(* Updates that ran to their end, with or without an error, leave an       *)
(* installation, although the lock file is removed under those waiting for *)
(* it, so that two of them may swap the same directories at once           *)
(* (atomic_dir_swap).                                                      *)
(***************************************************************************)
UpdatesLeaveInstallation ==
    (\A p \in Updaters : alive[p] /\ pc[p] \in Ends) => bin = "whole"

(***************************************************************************)
(* take_file_lock: no lock file that a killed or failed process leaves     *)
(* behind keeps another from going on; every process ends.                 *)
(***************************************************************************)
EveryProcessEnds == \A p \in Processes : pc[p] # "start" ~> Over(p)

-----------------------------------------------------------------------------
(* Inductive invariants                                                    *)

Swapping == {"stale", "empty_stale", "remove_stale", "target", "backup", "promote", "spare",
             "empty_spare", "remove_spare"}
UnderLock == {"locked", "fetch", "promote_cache"} \cup Swapping \cup {"unlink", "return"}
Locking == {"lock"} \cup UnderLock

(* Each kind of process keeps to its own part of the program.              *)
KeepsToPart ==
    \A p \in Processes : IF lock[p] = "cache" THEN pc[p] \notin Swapping
                         ELSE pc[p] # "promote_cache"

(* Whoever has passed take_file_lock and lives owns the file it has open.  *)
OwnsLock ==
    \A p \in Processes :
      /\ pc[p] \in Locking => file[p] # None
      /\ alive[p] /\ pc[p] \in UnderLock => owner[file[p]] = p

(* The lock file of the cache is removed only once the cache is there, so  *)
(* that until then every downloader has the same file open.                *)
OneLockFile ==
    cache = "none" => \A p \in Downloaders :
                        /\ pc[p] \in Locking => file[p] = lockfile["cache"]
                        /\ pc[p] \notin {"unlink", "return", "ok"}

(* Those downloading entered when there was no cache; hence one file.      *)
OneDownload ==
    \A p, q \in Downloaders :
      /\ alive[p] /\ pc[p] \in {"fetch", "promote_cache"}
      /\ alive[q] /\ pc[q] \in {"fetch", "promote_cache"}
      => file[p] = file[q]

LockInv == TypeOK /\ KeepsToPart /\ OwnsLock /\ OneLockFile /\ OneDownload /\ cache # "partial"
=============================================================================
