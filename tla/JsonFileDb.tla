----------------------------- MODULE JsonFileDb -----------------------------
(***************************************************************************)
(* The engine of the JSON file backend: one JsonFileDb instance, its       *)
(* threads, the data file, and the processes and people that share the     *)
(* file.  A write is its closure modify() run by writeWithLock(); what the *)
(* closure does to the tables is module JsonTable's subject.  Here the     *)
(* content of the store is the set of the writes that made it, which is    *)
(* enough to see a write lost, torn, or published too early.               *)
(***************************************************************************)
EXTENDS Naturals, FiniteSets

CONSTANTS
  Threads,     \* threads of this process
  None,        \* no thread, no write, no view
  Writes,      \* bound: the writes of this process, each run once
  Foreign,     \* bound: the writes of other processes, each run once
  Seed,        \* what the file holds at the start
  Corrupt,     \* marks a file readStore() cannot parse
  Blank,       \* marks a truncated file, which readStore() takes for an empty store
  Configs      \* the surroundings to look at, see Surroundings

FaultKinds == {"modify",    \* modify() returns a non-200 status or throws
               "disk",      \* the temp file cannot be written
               "rename",    \* rename() fails and the fallback writes in place
               "erased",    \* a write in place that fails leaves not one byte
               "damage",    \* the file is damaged and repaired from outside
               "timeout",   \* other processes have the lock at every poll of a 30 s wait
               "remote",    \* another process runs on another machine
               "unfilled"}  \* a process died before filling its lock file

\* faults: those that occur; damages, crashes: bounds, how often the file is
\* damaged from outside and this process crashes.
Surroundings == [faults : SUBSET FaultKinds, damages : Nat, crashes : Nat]

Contents == SUBSET (Writes \cup Foreign \cup {Seed})

ASSUME EngineAssumption ==
  /\ None \notin Threads \cup Writes
  /\ Configs \subseteq Surroundings
  /\ {Seed, Corrupt, Blank} \cap (Writes \cup Foreign) = {}
  /\ Seed # Corrupt /\ Seed # Blank /\ Corrupt # Blank
  /\ Writes \cap Foreign = {}

VARIABLES
  config,      \* the surroundings, which do not change
  disk,        \* the data file
  lockFile,    \* the cross-process lock, see LockStates
  store,       \* store_
  index,       \* tableIdIndex_: the content it describes
  loaded,      \* loaded_
  loadFailed,  \* loadFailed_
  writer,      \* the thread that holds writeMutex_
  excl,        \* the thread that holds storeMutex_ exclusively
  shared,      \* the threads that hold storeMutex_ shared
  pc,          \* where each thread is
  write,       \* the write a thread runs
  locked,      \* writeWithLock's local: the writer got the file lock
  saved,       \* writeWithLock's locals previous, indexBackup, wasLoaded
  status,      \* what became of each write: "new", "run", "ok" or "failed"
  onDisk,      \* history: every readable content the file has had
  inPlace,     \* what another process is writing in place, or {}
  damages,     \* times the file was damaged
  crashes      \* times this process crashed

diskVars == <<disk, onDisk, inPlace, damages>>
memVars == <<store, index, loaded, loadFailed>>
mutexVars == <<writer, excl, shared>>
localVars == <<write, locked, saved>>
vars == <<diskVars, lockFile, memVars, mutexVars, pc, localVars, status, crashes>>

(***************************************************************************)
(* "self" and "other": held by this or by another live process of this     *)
(* machine; "remote": held by a live process of another machine; "orphan": *)
(* left by a dead process; "unfilled": left by one that died before it     *)
(* wrote its pid, which module FileLock shows is never reclaimed.          *)
(***************************************************************************)
LockStates == {"free", "self", "other", "remote", "orphan", "unfilled"}
ForeignHeld == {"other", "remote"}

WriterPC == {"wmutex", "flock", "inspect", "smutex", "reload", "modify", "persist", "inplace",
             "funlock", "return"}
ReaderPC == {"rlock", "rload", "relock", "read"}
PC == {"idle"} \cup WriterPC \cup ReaderPC

Readable(d) == d # {Corrupt}
ContentOf(d) == d \ {Blank}

NothingSaved == [store |-> {}, index |-> {}, loaded |-> FALSE]

Init ==
  /\ config \in Configs
  /\ disk = {Seed}
  /\ onDisk = {{Seed}}
  /\ damages = 0 /\ crashes = 0 /\ inPlace = {}
  /\ lockFile = "free"
  /\ store = {} /\ index = {}
  /\ loaded = FALSE /\ loadFailed = FALSE
  /\ writer = None /\ excl = None /\ shared = {}
  /\ pc = [t \in Threads |-> "idle"]
  /\ write = [t \in Threads |-> None]
  /\ locked = FALSE
  /\ saved = NothingSaved
  /\ status = [w \in Writes \cup Foreign |-> "new"]

Move(t, from, to) == pc[t] = from /\ pc' = [pc EXCEPT ![t] = to]

Commit(d) == /\ disk' = d
             /\ onDisk' = IF d \in Contents THEN onDisk \cup {d} ELSE onDisk

-----------------------------------------------------------------------------
(* writeWithLock *)

BeginWrite(t) ==
  /\ Move(t, "idle", "wmutex")
  /\ \E w \in Writes :
       /\ status[w] = "new"
       /\ status' = [status EXCEPT ![w] = "run"]
       /\ write' = [write EXCEPT ![t] = w]
  /\ UNCHANGED <<diskVars, lockFile, memVars, mutexVars, locked, saved, crashes>>

LockWriter(t) ==
  /\ writer = None
  /\ Move(t, "wmutex", "flock")
  /\ writer' = t
  /\ UNCHANGED <<diskVars, lockFile, memVars, excl, shared, localVars, status, crashes>>

\* tryLock() succeeds: the file is free, or an orphan and reclaimed.
LockFile(t) ==
  /\ lockFile \in {"free", "orphan"}
  /\ Move(t, "flock", "smutex")
  /\ lockFile' = "self"
  /\ locked' = TRUE
  /\ UNCHANGED <<diskVars, memVars, mutexVars, write, saved, status, crashes>>

\* tryLock() returns false at its deadline.
TimeOut(t) ==
  /\ \/ lockFile = "unfilled"
     \/ "timeout" \in config.faults /\ lockFile \in ForeignHeld
  /\ Move(t, "flock", "inspect")
  /\ UNCHANGED <<diskVars, lockFile, memVars, mutexVars, localVars, status, crashes>>

\* Mutant: the refused writer keeps writeMutex_.
RefuseWrite_KeepsMutex(t) ==
  /\ lockFile \in {"other", "self"}
  /\ Move(t, "inspect", "idle")
  /\ write' = [write EXCEPT ![t] = None]
  /\ status' = [status EXCEPT ![write[t]] = "failed"]
  /\ UNCHANGED <<diskVars, lockFile, memVars, mutexVars, locked, saved, crashes>>

\* The lock file is read again: if it names a process alive on this machine
\* the write is refused, and the return releases writeMutex_.
RefuseWrite(t) ==
  /\ lockFile \in {"other", "self"}
  /\ Move(t, "inspect", "idle")
  /\ writer' = None
  /\ write' = [write EXCEPT ![t] = None]
  /\ status' = [status EXCEPT ![write[t]] = "failed"]
  /\ UNCHANGED <<diskVars, lockFile, memVars, excl, shared, locked, saved, crashes>>

\* If by now the lock file is gone, names nobody, or names a pid that is not
\* running here, the write goes on without the lock.
ProceedUnlocked(t) ==
  /\ lockFile \notin {"other", "self"}
  /\ Move(t, "inspect", "smutex")
  /\ UNCHANGED <<diskVars, lockFile, memVars, mutexVars, localVars, status, crashes>>

LockStore(t) ==
  /\ excl = None /\ shared = {}
  /\ Move(t, "smutex", "reload")
  /\ excl' = t
  /\ UNCHANGED <<diskVars, lockFile, memVars, writer, shared, localVars, status, crashes>>

ReloadFails(t) ==
  /\ ~Readable(disk)
  /\ Move(t, "reload", "funlock")
  /\ loadFailed' = (loadFailed \/ ~loaded)
  /\ status' = [status EXCEPT ![write[t]] = "failed"]
  /\ UNCHANGED <<diskVars, lockFile, store, index, loaded, mutexVars, localVars, crashes>>

\* The store that is published, and the index built for it.
Publish(t, newStore, newIndex) ==
  /\ Readable(disk)
  /\ Move(t, "reload", "modify")
  /\ saved' = [store |-> store, index |-> index, loaded |-> loaded]
  /\ store' = newStore
  /\ index' = newIndex
  /\ loaded' = TRUE
  /\ loadFailed' = FALSE
  /\ UNCHANGED <<diskVars, lockFile, mutexVars, write, locked, status, crashes>>

\* Mutant: a store already in memory is not read again.
Reload_OnceOnly(t) ==
  LET new == IF loaded THEN store ELSE ContentOf(disk) IN Publish(t, new, new)

Reload(t) == Publish(t, ContentOf(disk), ContentOf(disk))

\* modify() succeeds: it changes the store and keeps the index in step.
Modify(t) ==
  /\ Move(t, "modify", "persist")
  /\ store' = store \cup {write[t]}
  /\ index' = index \cup {write[t]}
  /\ UNCHANGED <<diskVars, lockFile, loaded, loadFailed, mutexVars, localVars, status, crashes>>

\* What rollback() puts back; it never touches loadFailed_.
RollbackTo(oldStore, oldIndex, wasLoaded) ==
  /\ store' = oldStore
  /\ index' = oldIndex
  /\ loaded' = wasLoaded
  /\ UNCHANGED loadFailed

\* Mutants: the modified store stays; loaded_ is always cleared; the previous
\* store was moved away.
Rollback_KeepsStore == RollbackTo(store, index, saved.loaded)
Rollback_Unloads == RollbackTo(saved.store, saved.index, FALSE)
Rollback_LosesPrevious == RollbackTo({}, {}, saved.loaded)

Rollback == RollbackTo(saved.store, saved.index, saved.loaded)

\* modify() fails or throws, whatever part of its work it has done.
ModifyFails(t) ==
  /\ "modify" \in config.faults
  /\ Move(t, "modify", "funlock")
  /\ Rollback
  /\ status' = [status EXCEPT ![write[t]] = "failed"]
  /\ UNCHANGED <<diskVars, lockFile, mutexVars, localVars, crashes>>

-----------------------------------------------------------------------------
(* writeFileAtomic *)

\* Mutant: the data file is always written in place.
Rename_InPlace(t) ==
  /\ Move(t, "persist", "inplace")
  /\ Commit({Blank})
  /\ UNCHANGED <<inPlace, damages, lockFile, memVars, mutexVars, localVars, status, crashes>>

\* The temp file replaces the data file in one step.
Rename(t) ==
  /\ Move(t, "persist", "funlock")
  /\ Commit(store)
  /\ status' = [status EXCEPT ![write[t]] = "ok"]
  /\ UNCHANGED <<inPlace, damages, lockFile, memVars, mutexVars, localVars, crashes>>

\* The temp file cannot be written, or rename() fails and the data file cannot
\* be opened either: the file is as it was.
TempFails(t) ==
  /\ "disk" \in config.faults
  /\ Move(t, "persist", "funlock")
  /\ Rollback
  /\ status' = [status EXCEPT ![write[t]] = "failed"]
  /\ UNCHANGED <<diskVars, lockFile, mutexVars, localVars, crashes>>

\* rename() fails: the fallback truncates the data file ...
Truncate(t) ==
  /\ "rename" \in config.faults
  /\ Move(t, "persist", "inplace")
  /\ Commit({Blank})
  /\ UNCHANGED <<inPlace, damages, lockFile, memVars, mutexVars, localVars, status, crashes>>

\* ... and writes it in place ...
Fill(t) ==
  /\ Move(t, "inplace", "funlock")
  /\ Commit(store)
  /\ status' = [status EXCEPT ![write[t]] = "ok"]
  /\ UNCHANGED <<inPlace, damages, lockFile, memVars, mutexVars, localVars, crashes>>

\* ... or fails half way, which leaves a file cut off in its array, or before
\* the first byte, which leaves the file empty: an empty store to readStore().
CutShort == {{Corrupt}} \cup (IF "erased" \in config.faults THEN {{Blank}} ELSE {})

FillFails(t) ==
  /\ "disk" \in config.faults
  /\ Move(t, "inplace", "funlock")
  /\ \E left \in CutShort : Commit(left)
  /\ Rollback
  /\ status' = [status EXCEPT ![write[t]] = "failed"]
  /\ UNCHANGED <<inPlace, damages, lockFile, mutexVars, localVars, crashes>>

\* Mutant: a failed write leaves the lock file behind.
UnlockFile_OnSuccess(t) ==
  /\ Move(t, "funlock", "return")
  /\ lockFile' = IF locked /\ status[write[t]] = "ok" THEN "free" ELSE lockFile
  /\ locked' = FALSE
  /\ UNCHANGED <<diskVars, memVars, mutexVars, write, saved, status, crashes>>

UnlockFile(t) ==
  /\ Move(t, "funlock", "return")
  /\ lockFile' = IF locked THEN "free" ELSE lockFile
  /\ locked' = FALSE
  /\ UNCHANGED <<diskVars, memVars, mutexVars, write, saved, status, crashes>>

\* The return releases storeMutex_, then writeMutex_.
ReturnWrite(t) ==
  /\ Move(t, "return", "idle")
  /\ excl' = None
  /\ writer' = None
  /\ write' = [write EXCEPT ![t] = None]
  /\ saved' = NothingSaved
  /\ UNCHANGED <<diskVars, lockFile, memVars, shared, locked, status, crashes>>

-----------------------------------------------------------------------------
(* select and querySql *)

BeginRead(t) ==
  /\ Move(t, "idle", "rlock")
  /\ UNCHANGED <<diskVars, lockFile, memVars, mutexVars, localVars, status, crashes>>

\* Mutant: readers take no lock.
LockShared_Unlocked(t) ==
  /\ pc[t] = "rlock"
  /\ pc' = [pc EXCEPT ![t] = IF loaded THEN "read" ELSE "rload"]
  /\ UNCHANGED <<diskVars, lockFile, memVars, mutexVars, localVars, status, crashes>>

LockShared(t) ==
  /\ excl = None
  /\ pc[t] = "rlock"
  /\ IF loaded
     THEN shared' = shared \cup {t} /\ pc' = [pc EXCEPT ![t] = "read"]
     ELSE UNCHANGED shared /\ pc' = [pc EXCEPT ![t] = "rload"]
  /\ UNCHANGED <<diskVars, lockFile, memVars, writer, excl, localVars, status, crashes>>

\* The one-time load under the exclusive lock, without the file lock.
EnsureLoaded(t) ==
  /\ excl = None /\ shared = {}
  /\ Move(t, "rload", "relock")
  /\ loaded' = TRUE
  /\ loadFailed' = IF loaded THEN loadFailed ELSE ~Readable(disk)
  /\ IF loaded \/ ~Readable(disk)
     THEN UNCHANGED <<store, index>>
     ELSE store' = ContentOf(disk) /\ index' = ContentOf(disk)
  /\ UNCHANGED <<diskVars, lockFile, mutexVars, localVars, status, crashes>>

Relock(t) ==
  /\ excl = None
  /\ Move(t, "relock", "read")
  /\ shared' = shared \cup {t}
  /\ UNCHANGED <<diskVars, lockFile, memVars, writer, excl, localVars, status, crashes>>

\* The answer is computed under the shared lock, which the return releases.
Read(t) ==
  /\ Move(t, "read", "idle")
  /\ shared' = shared \ {t}
  /\ UNCHANGED <<diskVars, lockFile, memVars, writer, excl, localVars, status, crashes>>

-----------------------------------------------------------------------------
(* the environment *)

\* Another process takes the lock, or goes on without it as this one would.
ForeignLock ==
  /\ Foreign # {}
  /\ lockFile \in {"free", "orphan"}
  /\ lockFile' \in {"other"} \cup (IF "remote" \in config.faults THEN {"remote"} ELSE {})
  /\ UNCHANGED <<diskVars, memVars, mutexVars, pc, localVars, status, crashes>>

ForeignMayWrite(w) ==
  /\ lockFile \in ForeignHeld \cup {"unfilled"}
  /\ inPlace = {}
  /\ status[w] = "new"
  /\ Readable(disk)

ForeignCommit(w) ==
  /\ ForeignMayWrite(w)
  /\ Commit(ContentOf(disk) \cup {w})
  /\ status' = [status EXCEPT ![w] = "ok"]
  /\ UNCHANGED <<inPlace, damages, lockFile, memVars, mutexVars, pc, localVars, crashes>>

\* Its rename() may fail too.
ForeignTruncate(w) ==
  /\ "rename" \in config.faults
  /\ ForeignMayWrite(w)
  /\ Commit({Blank})
  /\ inPlace' = ContentOf(disk) \cup {w}
  /\ status' = [status EXCEPT ![w] = "run"]
  /\ UNCHANGED <<damages, lockFile, memVars, mutexVars, pc, localVars, crashes>>

ForeignFill(w) ==
  /\ inPlace # {}
  /\ status[w] = "run"
  /\ Commit(inPlace)
  /\ inPlace' = {}
  /\ status' = [status EXCEPT ![w] = "ok"]
  /\ UNCHANGED <<damages, lockFile, memVars, mutexVars, pc, localVars, crashes>>

ForeignFillFails(w) ==
  /\ "disk" \in config.faults
  /\ inPlace # {}
  /\ status[w] = "run"
  /\ \E left \in CutShort : Commit(left)
  /\ inPlace' = {}
  /\ status' = [status EXCEPT ![w] = "failed"]
  /\ UNCHANGED <<damages, lockFile, memVars, mutexVars, pc, localVars, crashes>>

\* It finishes, or dies holding the lock: then the lock file may be unfilled.
ForeignUnlock ==
  /\ lockFile \in ForeignHeld
  /\ inPlace = {}
  /\ lockFile' \in {"free", "orphan"} \cup (IF "unfilled" \in config.faults THEN {"unfilled"} ELSE {})
  /\ UNCHANGED <<diskVars, memVars, mutexVars, pc, localVars, status, crashes>>

Damage ==
  /\ "damage" \in config.faults
  /\ damages < config.damages
  /\ disk \in Contents
  /\ Commit({Corrupt})
  /\ damages' = damages + 1
  /\ UNCHANGED <<inPlace, lockFile, memVars, mutexVars, pc, localVars, status, crashes>>

\* The latest readable content is put back.
Repair ==
  /\ disk = {Corrupt}
  /\ \E d \in onDisk : (\A e \in onDisk : e \subseteq d) /\ Commit(d)
  /\ UNCHANGED <<inPlace, damages, lockFile, memVars, mutexVars, pc, localVars, status,
                 crashes>>

\* The process dies and starts again: the memory is gone, the lock file and
\* the data file stay as they are.
Crash ==
  /\ crashes < config.crashes
  /\ crashes' = crashes + 1
  /\ lockFile' = IF lockFile = "self" THEN "orphan" ELSE lockFile
  /\ store' = {} /\ index' = {} /\ loaded' = FALSE /\ loadFailed' = FALSE
  /\ writer' = None /\ excl' = None /\ shared' = {}
  /\ pc' = [t \in Threads |-> "idle"]
  /\ write' = [t \in Threads |-> None]
  /\ locked' = FALSE
  /\ saved' = NothingSaved
  /\ status' = [w \in Writes \cup Foreign |->
                  IF w \in Writes /\ status[w] = "run" THEN "failed" ELSE status[w]]
  /\ UNCHANGED <<disk, onDisk, inPlace, damages>>

-----------------------------------------------------------------------------
WriteStep(t) ==
  \/ LockWriter(t) \/ LockFile(t) \/ TimeOut(t) \/ RefuseWrite(t) \/ ProceedUnlocked(t)
  \/ LockStore(t) \/ ReloadFails(t) \/ Reload(t) \/ Modify(t) \/ ModifyFails(t)
  \/ Rename(t) \/ TempFails(t) \/ Truncate(t) \/ Fill(t) \/ FillFails(t)
  \/ UnlockFile(t) \/ ReturnWrite(t)

ReadStep(t) == LockShared(t) \/ EnsureLoaded(t) \/ Relock(t) \/ Read(t)

Environment ==
  \/ ForeignLock \/ ForeignUnlock
  \/ \E w \in Foreign : ForeignCommit(w) \/ ForeignTruncate(w) \/ ForeignFill(w) \/ ForeignFillFails(w)
  \/ Damage \/ Repair \/ Crash

Next ==
  /\ UNCHANGED config
  /\ \/ \E t \in Threads : BeginWrite(t) \/ BeginRead(t) \/ WriteStep(t) \/ ReadStep(t)
     \/ Environment

Spec == Init /\ [][Next]_<<config, vars>>

(***************************************************************************)
(* A thread that can take its next step takes it, and a mutex is not       *)
(* granted to others for ever.  Nothing makes a thread begin an operation, *)
(* and nothing makes another process release the file lock.                *)
(***************************************************************************)
Fairness == \A t \in Threads : WF_vars(WriteStep(t)) /\ SF_vars(ReadStep(t))
FairSpec == Spec /\ Fairness /\ \A t \in Threads : SF_vars(LockWriter(t)) /\ SF_vars(LockStore(t))

-----------------------------------------------------------------------------
Committed == {Seed} \cup {w \in Writes \cup Foreign : status[w] = "ok"}

\* What a thread that is about to compute an answer sees.
Answers(t) == pc[t] = "read" /\ ~loadFailed

\* Readers never see a write that is under way, failed or was rolled back:
\* "a failed write never publishes in-memory state that is ahead of the
\* file" (JsonFileDb.h:28-29).
ReadersSeeOnlyCommitted ==
  \A t \in Threads : Answers(t) => store \subseteq Committed

\* A read that does not report an error answers from a loaded store that is,
\* whole, a content the file has had: never a mixture of two, never an empty
\* database in its stead (JsonFileDb.h:26-27); and the id index it looks rows
\* up in was made for that store, whatever was reloaded or rolled back.
AnswersComeFromFile ==
  \A t \in Threads : Answers(t) => loaded /\ store \in onDisk /\ index = store

\* It is so unless a write fails after a first load that failed, or a file is
\* read while it is written in place.
FailureFlagSafe ==
  "damage" \in config.faults => config.faults \cap {"modify", "disk", "rename"} = {}
AnswersAreWhole ==
  FailureFlagSafe /\ "rename" \notin config.faults => AnswersComeFromFile

\* A write that returned success stays in the file, whoever writes, fails or
\* crashes afterwards: the read-modify-write cycles of two processes never
\* overwrite each other (JsonFileDb.h:108-110).
AckedOnDisk == disk \in Contents => Committed \subseteq disk

\* It is so while nobody goes on without the lock, and no write in place ends
\* with an empty file, by a crash or by a disk that takes no byte: readStore()
\* answers "ok" for an empty file (JsonFileDb.cpp:679-681), so that the next
\* write puts an almost empty store in the place of all that was acknowledged.
LockIsKept == config.faults \cap {"timeout", "unfilled"} = {}
NothingErased ==
  "rename" \in config.faults => config.crashes = 0 /\ "erased" \notin config.faults
AckedIsDurable == LockIsKept /\ NothingErased => AckedOnDisk

\* A process sees its own successful writes for as long as it runs, and again
\* after a restart.
ReadYourWrites ==
  FailureFlagSafe /\ LockIsKept /\ "rename" \notin config.faults =>
    \A t \in Threads : Answers(t) => Committed \cap Writes \subseteq store

\* "Readers only ever observe the old or the new complete content"
\* (JsonFileDb.cpp:295-297): at every moment, a crash at any point included,
\* the data file is complete, unless rename() fails or others damage it.
FileAlwaysWhole == config.faults \cap {"rename", "damage"} = {} => disk \in Contents

\* No path out of writeWithLock() leaves the lock file behind.
FileLockFreed == writer = None => lockFile # "self"

Reading(t) == pc[t] \in ReaderPC
Writing(t) == pc[t] \in WriterPC

\* "Waiting for another process never blocks local readers" (JsonFileDb.h:93-
\* 94): every read returns, also while a writer waits on a lock file that
\* nobody ever releases; and every write returns: no order of the three locks
\* and no error path leaves a writer waiting for ever.
EveryCallReturns ==
  \A t \in Threads : (Reading(t) ~> ~Reading(t)) /\ (Writing(t) ~> ~Writing(t))

(***************************************************************************)
(* The abstract view is what a reader would see if the writer that has     *)
(* storeMutex_ were not there.                                             *)
(***************************************************************************)
Publishing ==
  excl # None /\ (pc[excl] \in {"modify", "persist"} \/ status[write[excl]] = "ok")

View ==
  LET mem == IF Publishing THEN saved ELSE [store |-> store, index |-> index, loaded |-> loaded]
  IN IF mem.loaded THEN mem.store ELSE None

Store == INSTANCE AtomicStore WITH
           Updates <- Writes \cup Foreign, First <- Seed, None <- None,
           value <- disk, past <- onDisk, view <- View

\* The engine implements the atomic store: a write takes effect in the one
\* step of rename(), and what readers see only moves forward.
Atomic == LockIsKept /\ config.faults \cap {"rename", "damage"} = {}
ImplementsStore ==
  /\ Atomic => Store!Init
  /\ [][Atomic => Store!Next]_<<disk, onDisk, View>>
=============================================================================
