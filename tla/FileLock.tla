------------------------------ MODULE FileLock ------------------------------
(***************************************************************************)
(* The cross-process lock file of the JSON backend.  A locker is one       *)
(* FileLock object; Process[l] is the process that owns it.  Every system  *)
(* call on the lock file (open O_EXCL, write, read, unlink) is one step,   *)
(* so that other processes run in between.                                 *)
(***************************************************************************)
EXTENDS Naturals, FiniteSets

CONSTANTS
  Lockers,      \* FileLock objects on one lock path
  Procs,        \* operating-system processes
  Process,      \* Process[l]: the process locker l lives in
  Hosts,        \* machines
  Configs,      \* the surroundings to look at, see Surroundings
  NoFile,       \* the lock file does not exist
  MaxReclaims,  \* reclaims one tryLock() tries: 5 in the code
  MaxPolls,     \* bound: polls of a live lock until the deadline passes
  CrashPoints   \* where a crash may strike: a subset of PC

(***************************************************************************)
(* by: the locker that created the file, whose pid and host the content    *)
(* names.  filled: the content is written.  aged: its stamp is older than  *)
(* kLockStaleMillis.                                                       *)
(***************************************************************************)
LockFile == [by : Lockers, filled : BOOLEAN, aged : BOOLEAN]

\* host: the machine each process runs on; slow: the lockers that may hold the
\* lock for longer than kLockStaleMillis; foreign: the processes of other users,
\* which kill() may not look at; reused: those whose pid another process gets
\* once they are dead; stuck: removing the file may fail; crashes: how many
\* processes may crash.
Surroundings ==
  [host : [Procs -> Hosts], slow : SUBSET Lockers, foreign : SUBSET Procs,
   reused : SUBSET Procs, stuck : BOOLEAN, crashes : Nat]

ASSUME LockAssumption ==
  /\ Process \in [Lockers -> Procs]
  /\ Configs \subseteq Surroundings
  /\ MaxReclaims \in Nat /\ MaxPolls \in Nat
  /\ NoFile \notin LockFile

VARIABLES
  config,    \* the surroundings, which do not change
  file,      \* the lock file
  pc,        \* where each locker is
  seen,      \* what isStale() has read, while it judges
  reclaims,  \* reclaimAttempts of each running tryLock()
  polls,     \* polls each running tryLock() has made
  alive      \* the processes that have not crashed

lockVars == <<file, pc, seen, reclaims, polls, alive>>

PC == {"idle", "create", "write", "read", "judge", "remove", "held", "check", "unlink", "dead"}

Owner(f) == Process[f.by]

Init ==
  /\ config \in Configs
  /\ file = NoFile
  /\ pc = [l \in Lockers |-> "idle"]
  /\ seen = [l \in Lockers |-> NoFile]
  /\ reclaims = [l \in Lockers |-> 0]
  /\ polls = [l \in Lockers |-> 0]
  /\ alive = Procs

Move(l, from, to) ==
  /\ pc[l] = from
  /\ pc' = [pc EXCEPT ![l] = to]

\* remove(): a missing file is no error, and the result is not looked at.
Unlinked ==
  \/ file' = NoFile
  \/ config.stuck /\ UNCHANGED file

-----------------------------------------------------------------------------
(* tryLock *)

TryLock(l) ==
  /\ Move(l, "idle", "create")
  /\ UNCHANGED <<file, seen, reclaims, polls, alive>>

\* The local variables of tryLock(), counted from 0, end with it.
LeaveTryLock(l) ==
  /\ reclaims' = [reclaims EXCEPT ![l] = 0]
  /\ polls' = [polls EXCEPT ![l] = 0]

Forget(l) == seen' = [seen EXCEPT ![l] = NoFile]

Create(l) ==
  /\ file = NoFile
  /\ Move(l, "create", "write")
  /\ file' = [by |-> l, filled |-> FALSE, aged |-> FALSE]
  /\ UNCHANGED <<seen, reclaims, polls, alive>>

CreateFails(l) ==
  /\ file # NoFile
  /\ Move(l, "create", "read")
  /\ UNCHANGED <<file, seen, reclaims, polls, alive>>

\* write() goes to the file this locker created, if the path still names it.
Write(l) ==
  /\ Move(l, "write", "held")
  /\ file' = IF file # NoFile /\ file.by = l THEN [file EXCEPT !.filled = TRUE] ELSE file
  /\ LeaveTryLock(l)
  /\ UNCHANGED <<seen, alive>>

ReadStamp(l) ==
  /\ Move(l, "read", "judge")
  /\ seen' = [seen EXCEPT ![l] = file]
  /\ UNCHANGED <<file, reclaims, polls, alive>>

\* isProcessAlive() asks this machine with kill(pid, 0): no permission counts as
\* dead, and whoever has the pid now counts as alive.
LooksDead(l, p) ==
  IF p \in alive THEN p \in config.foreign /\ p # Process[l] ELSE p \notin config.reused

\* Mutants: only the age is looked at; a file whose content is not written yet
\* is stale too.
IsStale_AgeOnly(l, f) == f # NoFile /\ f.filled /\ f.aged
IsStale_Unfilled(l, f) == f # NoFile /\ (~f.filled \/ f.aged \/ LooksDead(l, Owner(f)))

(***************************************************************************)
(* isStale(): a file that is gone or not yet filled is not stale; a filled *)
(* one is when its stamp is old or its owner looks like a dead process of  *)
(* this machine.                                                           *)
(***************************************************************************)
IsStale(l, f) ==
  /\ f # NoFile
  /\ f.filled
  /\ \/ f.aged
     \/ config.host[Owner(f)] = config.host[Process[l]] /\ LooksDead(l, Owner(f))

\* Mutant: the attempts are counted and never compared.
JudgeStale_NoLimit(l) ==
  /\ IsStale(l, seen[l])
  /\ Move(l, "judge", "remove")
  /\ reclaims' = [reclaims EXCEPT ![l] = @ + 1]
  /\ Forget(l)
  /\ UNCHANGED <<file, polls, alive>>

JudgeStale(l) ==
  /\ IsStale(l, seen[l])
  /\ reclaims[l] < MaxReclaims
  /\ Move(l, "judge", "remove")
  /\ reclaims' = [reclaims EXCEPT ![l] = @ + 1]
  /\ Forget(l)
  /\ UNCHANGED <<file, polls, alive>>

Remove(l) ==
  /\ Move(l, "remove", "create")
  /\ Unlinked
  /\ UNCHANGED <<seen, reclaims, polls, alive>>

\* Mutant: the deadline is never reached.
JudgeLive_NoDeadline(l) ==
  /\ ~IsStale(l, seen[l])
  /\ Move(l, "judge", "create")
  /\ Forget(l)
  /\ UNCHANGED <<file, reclaims, polls, alive>>

JudgeLive(l) ==
  /\ ~IsStale(l, seen[l])
  /\ polls[l] < MaxPolls
  /\ Move(l, "judge", "create")
  /\ polls' = [polls EXCEPT ![l] = @ + 1]
  /\ Forget(l)
  /\ UNCHANGED <<file, reclaims, alive>>

\* tryLock() returns false: the deadline has passed, or the stale file cannot
\* be removed.
GiveUp(l) ==
  /\ IF IsStale(l, seen[l]) THEN reclaims[l] = MaxReclaims ELSE polls[l] = MaxPolls
  /\ Move(l, "judge", "idle")
  /\ LeaveTryLock(l)
  /\ Forget(l)
  /\ UNCHANGED <<file, alive>>

-----------------------------------------------------------------------------
(* unlock *)

Unlock(l) ==
  /\ Move(l, "held", "check")
  /\ UNCHANGED <<file, seen, reclaims, polls, alive>>

\* readLockInfo(): remove the file when it is unreadable (missing or not yet
\* filled) or names this process; else leave it.
MayRemove(l, f) ==
  \/ f = NoFile
  \/ ~f.filled
  \/ Owner(f) = Process[l]

CheckOwner(l) ==
  /\ pc[l] = "check"
  /\ pc' = [pc EXCEPT ![l] = IF MayRemove(l, file) THEN "unlink" ELSE "idle"]
  /\ UNCHANGED <<file, seen, reclaims, polls, alive>>

Unlink(l) ==
  /\ Move(l, "unlink", "idle")
  /\ Unlinked
  /\ UNCHANGED <<seen, reclaims, polls, alive>>

-----------------------------------------------------------------------------
(* the environment *)

\* A crash stops every locker of the process; the file stays.
Crash(p) ==
  /\ p \in alive
  /\ Cardinality(Procs \ alive) < config.crashes
  /\ \E l \in Lockers : Process[l] = p /\ pc[l] \in CrashPoints
  /\ alive' = alive \ {p}
  /\ pc' = [l \in Lockers |-> IF Process[l] = p THEN "dead" ELSE pc[l]]
  /\ seen' = [l \in Lockers |-> IF Process[l] = p THEN NoFile ELSE seen[l]]
  /\ UNCHANGED <<file, reclaims, polls>>

\* kLockStaleMillis pass over the file.  A live holder is that slow only when
\* the surroundings say so.
Age ==
  /\ file # NoFile
  /\ ~file.aged
  /\ Owner(file) \in alive => file.by \in config.slow
  /\ file' = [file EXCEPT !.aged = TRUE]
  /\ UNCHANGED <<pc, seen, reclaims, polls, alive>>

Step(l) ==
  \/ Create(l) \/ CreateFails(l) \/ Write(l) \/ ReadStamp(l) \/ JudgeStale(l)
  \/ Remove(l) \/ JudgeLive(l) \/ GiveUp(l) \/ CheckOwner(l) \/ Unlink(l)

Next ==
  /\ UNCHANGED config
  /\ \/ \E l \in Lockers : TryLock(l) \/ Unlock(l) \/ Step(l)
     \/ \E p \in Procs : Crash(p)
     \/ Age

Spec == Init /\ [][Next]_<<config, lockVars>>

-----------------------------------------------------------------------------
Trying == {"create", "read", "judge", "remove", "write"}

\* The types of the state, and that only a dead process's lockers are dead.
TypeOK ==
  /\ config \in Configs
  /\ file \in LockFile \cup {NoFile}
  /\ pc \in [Lockers -> PC]
  /\ seen \in [Lockers -> LockFile \cup {NoFile}]
  /\ reclaims \in [Lockers -> 0..MaxReclaims]
  /\ polls \in [Lockers -> 0..MaxPolls]
  /\ alive \subseteq Procs
  /\ \A l \in Lockers : pc[l] = "dead" <=> Process[l] \notin alive

\* "Prevents two processes from writing the same data file simultaneously"
\* (JsonFileDb.h:108-109): one holder at a time.
MutualExclusion ==
  \A l, m \in Lockers : l # m /\ pc[l] = "held" => pc[m] # "held"

\* No process has crashed, none holds the lock for longer than kLockStaleMillis,
\* and all may look at each other: no reclaim is due.
Calm == alive = Procs /\ config.slow = {} /\ config.foreign = {}

\* The lock keeps that promise until a reclaim is due: two reclaims may race, and
\* a holder whose lock was reclaimed may remove its successor's.
CalmMutualExclusion == Calm => MutualExclusion

Orphan == file # NoFile /\ Owner(file) \notin alive

\* A live process can tell that the holder is gone: by the age of the file, or
\* by the pid when both run on one machine and nobody else has the pid.
Recognisable ==
  \/ file.aged
  \/ /\ Owner(file) \notin config.reused
     /\ \E p \in alive : config.host[p] = config.host[Owner(file)]

\* "A lock whose holder process is gone is considered abandoned and reclaimed"
\* (FileLock.h:37-38), as long as some live process keeps trying.  Not so a
\* file whose creator died before it wrote its pid, which is never stale.
OrphanReclaimed ==
  Orphan /\ file.filled /\ Recognisable /\ ~config.stuck ~> ~Orphan

\* tryLock() always returns, even if the stale file cannot be removed or the
\* lock is taken over again and again.
TryLockReturns == \A l \in Lockers : pc[l] \in Trying ~> pc[l] \notin Trying
=============================================================================
