------------------------------ MODULE NodeLock ------------------------------
(***************************************************************************)
(* The lock that lets one process serve the home directory                 *)
(* (config/lock.go), with the file that names it: counted in a process,    *)
(* held by the operating system, which releases it when the process ends.  *)
(***************************************************************************)
EXTENDS Integers

CONSTANTS
  Procs,      (* processes                                                  *)
  MaxLocks,   (* BOUND: sessions of a process that hold the lock            *)
  MaxLives    (* BOUND: ends of processes                                   *)

NoProc == "none"

ASSUME LockAssumption == NoProc \notin Procs

VARIABLES
  flock,      (* the process that has session.lock                          *)
  pidFile,    (* the process that session.pid names                         *)
  lockCount,  (* [p -> lockCount]                                           *)
  lockAt,     (* [p -> the call under lockMutex: "idle", "pid", "rmpid",    *)
              (* "unlock"]                                                  *)
  ends        (* ends of processes so far                                   *)

lockVars == <<flock, pidFile, lockCount, lockAt, ends>>

LockInit ==
  /\ flock = NoProc /\ pidFile = NoProc /\ ends = 0
  /\ lockCount = [p \in Procs |-> 0] /\ lockAt = [p \in Procs |-> "idle"]

(* tryLockLocked: the file lock for the first, or an error.                *)
TryLock(p) ==
  /\ lockAt[p] = "idle" /\ lockCount[p] < MaxLocks
  /\ IF lockCount[p] > 0
     THEN lockCount' = [lockCount EXCEPT ![p] = @ + 1] /\ UNCHANGED <<flock, lockAt>>
     ELSE /\ flock = NoProc /\ flock' = p
          /\ lockAt' = [lockAt EXCEPT ![p] = "pid"] /\ UNCHANGED lockCount
  /\ UNCHANGED <<pidFile, ends>>

WritePid(p) ==
  /\ lockAt[p] = "pid" /\ pidFile' = p
  /\ lockAt' = [lockAt EXCEPT ![p] = "idle"]
  /\ lockCount' = [lockCount EXCEPT ![p] = @ + 1]
  /\ UNCHANGED <<flock, ends>>

(* MUTANT: the lock is released first.                                     *)
UnlockFirst(p) ==
  /\ lockAt[p] = "idle" /\ lockCount[p] > 0
  /\ lockCount' = [lockCount EXCEPT ![p] = @ - 1]
  /\ lockAt' = IF lockCount[p] > 1 THEN lockAt ELSE [lockAt EXCEPT ![p] = "rmpid"]
  /\ flock' = IF lockCount[p] > 1 THEN flock ELSE NoProc
  /\ UNCHANGED <<pidFile, ends>>
(* unlockLocked, by the last: the name, then the lock.                     *)
Unlock(p) ==
  /\ lockAt[p] = "idle" /\ lockCount[p] > 0
  /\ lockCount' = [lockCount EXCEPT ![p] = @ - 1]
  /\ lockAt' = IF lockCount[p] > 1 THEN lockAt ELSE [lockAt EXCEPT ![p] = "rmpid"]
  /\ UNCHANGED <<flock, pidFile, ends>>
RemovePid(p) ==
  /\ lockAt[p] = "rmpid" /\ pidFile' = NoProc
  /\ lockAt' = [lockAt EXCEPT ![p] = "unlock"]
  /\ UNCHANGED <<flock, lockCount, ends>>
ReleaseFile(p) ==
  /\ lockAt[p] = "unlock"
  /\ flock' = IF flock = p THEN NoProc ELSE flock
  /\ lockAt' = [lockAt EXCEPT ![p] = "idle"]
  /\ UNCHANGED <<pidFile, lockCount, ends>>

(* A process ends wherever it is; its name stays in the file.              *)
ProcEnds(p) ==
  /\ ends < MaxLives /\ ends' = ends + 1
  /\ lockCount[p] > 0 \/ lockAt[p] # "idle"
  /\ flock' = IF flock = p THEN NoProc ELSE flock
  /\ lockCount' = [lockCount EXCEPT ![p] = 0]
  /\ lockAt' = [lockAt EXCEPT ![p] = "idle"]
  /\ UNCHANGED pidFile

LockNext ==
  \E p \in Procs : TryLock(p) \/ WritePid(p) \/ Unlock(p) \/ RemovePid(p)
                     \/ ReleaseFile(p) \/ ProcEnds(p)

-----------------------------------------------------------------------------
(* One process serves the directory, the name in the file is its own, and  *)
(* a process that unlocks does not take away the name of the next one:     *)
(* the name is removed before the lock is (unlockLocked).  Of a process    *)
(* that ended without it the name stays.                                   *)
HolderIsNamed ==
  /\ \A p \in Procs : lockCount[p] > 0 => flock = p
  /\ \A p \in Procs : lockCount[p] > 0 => pidFile = p

(* The lock is free again when all sessions of the process gave it back,   *)
(* and not before.                                                         *)
LockExact ==
  \A p \in Procs : flock = p <=> lockCount[p] > 0 \/ lockAt[p] # "idle"
=============================================================================
