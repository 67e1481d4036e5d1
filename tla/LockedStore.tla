------------------------------ MODULE LockedStore ------------------------------
(***************************************************************************)
(* The processes that share one data file, each with the lock protocol of  *)
(* module FileLock around its read-modify-write cycle.  Module JsonFileDb  *)
(* looks into one process and takes the lock to be exclusive; here several *)
(* processes run writeWithLock() over a lock that may be reclaimed or time *)
(* out.  Locker l's instance adds l to the data, in every write.           *)
(***************************************************************************)
EXTENDS FileLock

CONSTANT
  Followed   \* bound: the surroundings in which the data file is followed; in
             \* the others a holder just lets go of its lock

VARIABLES
  data,   \* the writes that the data file holds
  phase,  \* how far the write of each locker is, apart from its lock
  copy,   \* the store each write has reloaded
  acked,  \* the lockers whose write was acknowledged
  late    \* history: a write went on without the lock

storeVars == <<data, phase, copy, acked, late>>

StoreInit ==
  /\ Init
  /\ data = {}
  /\ phase = [l \in Lockers |-> "begin"]
  /\ copy = [l \in Lockers |-> {}]
  /\ acked = {}
  /\ late = FALSE

Proceed(l, from, to) ==
  /\ phase[l] = from
  /\ phase' = [phase EXCEPT ![l] = to]

\* writeWithLock() calls tryLock().  Bound: a write that was acknowledged is not
\* made again.
BeginWrite(l) ==
  /\ phase[l] = "begin" /\ l \notin acked
  /\ TryLock(l)
  /\ UNCHANGED storeVars

Locking(l) ==
  /\ \/ Create(l) \/ CreateFails(l) \/ Write(l) \/ ReadStamp(l) \/ JudgeStale(l)
     \/ Remove(l) \/ JudgeLive(l) \/ CheckOwner(l) \/ Unlink(l)
  /\ UNCHANGED storeVars

\* tryLock() returns false.
TimeOut(l) ==
  /\ GiveUp(l)
  /\ phase' = [phase EXCEPT ![l] = IF config \in Followed THEN "inspect" ELSE "begin"]
  /\ UNCHANGED <<data, copy, acked, late>>

\* The lock file names a process that is alive, as far as this machine knows.
NamesLiveProcess(l, f) ==
  /\ f # NoFile
  /\ f.filled
  /\ config.host[Owner(f)] = config.host[Process[l]] /\ ~LooksDead(l, Owner(f))

\* After the time-out the write is refused, or goes on without the lock.
Inspect(l) ==
  /\ IF NamesLiveProcess(l, file) THEN Proceed(l, "inspect", "begin") /\ UNCHANGED late
     ELSE Proceed(l, "inspect", "unlocked") /\ late' = TRUE
  /\ UNCHANGED <<lockVars, data, copy, acked>>

\* Mutant: the file is read while the write still waits for its lock.
Load_Early(l) ==
  /\ \/ pc[l] \in {"create", "held"} /\ Proceed(l, "begin", "loaded")
     \/ Proceed(l, "unlocked", "loaded")
  /\ copy' = [copy EXCEPT ![l] = data]
  /\ UNCHANGED <<lockVars, data, acked, late>>

\* readStore(), under the lock or without it.
Load(l) ==
  /\ config \in Followed
  /\ \/ pc[l] = "held" /\ Proceed(l, "begin", "loaded")
     \/ Proceed(l, "unlocked", "loaded")
  /\ copy' = [copy EXCEPT ![l] = data]
  /\ UNCHANGED <<lockVars, data, acked, late>>

\* The rename of writeStore(): from now on the write counts as done.
Save(l) ==
  /\ Proceed(l, "loaded", "saved")
  /\ data' = copy[l] \cup {l}
  /\ acked' = acked \cup {l}
  /\ copy' = [copy EXCEPT ![l] = {}]
  /\ UNCHANGED <<lockVars, late>>

\* A write is over, or modify() or writeStore() has failed.
Over(l) ==
  /\ phase[l] \in IF config \in Followed THEN {"loaded", "saved"} ELSE {"begin"}
  /\ phase' = [phase EXCEPT ![l] = "begin"]
  /\ copy' = [copy EXCEPT ![l] = {}]
  /\ UNCHANGED <<data, acked, late>>

EndWrite(l) == Over(l) /\ Unlock(l)

EndUnlocked(l) == Over(l) /\ pc[l] = "idle" /\ UNCHANGED lockVars

StoreCrash(p) ==
  /\ Crash(p)
  /\ phase' = [l \in Lockers |-> IF Process[l] = p THEN "begin" ELSE phase[l]]
  /\ copy' = [l \in Lockers |-> IF Process[l] = p THEN {} ELSE copy[l]]
  /\ UNCHANGED <<data, acked, late>>

StoreStep(l) ==
  \/ Locking(l) \/ TimeOut(l) \/ Inspect(l) \/ Load(l) \/ Save(l) \/ EndWrite(l)
  \/ EndUnlocked(l)

StoreNext ==
  /\ UNCHANGED config
  /\ \/ \E l \in Lockers : BeginWrite(l) \/ StoreStep(l)
     \/ \E p \in Procs : StoreCrash(p)
     \/ Age /\ UNCHANGED storeVars

StoreSpec == StoreInit /\ [][StoreNext]_<<config, lockVars, storeVars>>

\* A live process runs on, a holder finishes its write, and an application that
\* was refused the lock tries again.
StoreFairness == \A l \in Lockers : WF_<<lockVars, storeVars>>(BeginWrite(l) \/ StoreStep(l))

FairStoreSpec == StoreSpec /\ StoreFairness

-----------------------------------------------------------------------------
\* What the lock is for: "Acquired before each read-modify-write cycle and held
\* for the duration of the write" (JsonFileDb.h:108), so that no process
\* overwrites a write that another one has acknowledged.  It holds until a
\* reclaim is due or a write goes on without the lock after a time-out.
AckedWritesSurvive ==
  Calm /\ ~late => acked \subseteq data
=============================================================================
