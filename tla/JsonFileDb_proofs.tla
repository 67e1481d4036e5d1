-------------------------- MODULE JsonFileDb_proofs --------------------------
(***************************************************************************)
(* What writeWithLock() and the readers guarantee for any number of        *)
(* threads, writes and other processes' writes, under any faults.          *)
(***************************************************************************)
EXTENDS JsonFileDb, TLAPS

\* Where a writer holds writeMutex_, the file lock if it got it, storeMutex_.
HasMutex == WriterPC \ {"wmutex"}
HasFile == {"smutex", "reload", "modify", "persist", "inplace", "funlock"}
HasStore == {"reload", "modify", "persist", "inplace", "funlock", "return"}
UnderWay == {"wmutex", "flock", "inspect", "smutex", "reload", "modify", "persist", "inplace"}

(***************************************************************************)
(* Each lock is held by whom pc says, and each write is run by one thread, *)
(* which is what makes "the writer" and "its write" mean anything.         *)
(***************************************************************************)
LocksInv ==
  /\ pc \in [Threads -> PC]
  /\ write \in [Threads -> Writes \cup {None}]
  /\ status \in [Writes \cup Foreign -> {"new", "run", "ok", "failed"}]
  /\ writer \in Threads \cup {None} /\ excl \in Threads \cup {None}
  /\ shared \subseteq Threads /\ locked \in BOOLEAN
  /\ \A t \in Threads : writer = t <=> pc[t] \in HasMutex
  /\ \A t \in Threads : excl = t <=> pc[t] \in HasStore
  /\ \A t \in Threads : t \in shared <=> pc[t] = "read"
  /\ excl # None => shared = {}
  /\ lockFile = "self" => locked
  /\ locked => writer # None /\ pc[writer] \in HasFile
  /\ \A t \in Threads : pc[t] \in WriterPC <=> write[t] # None
  /\ \A t \in Threads : pc[t] \in UnderWay => status[write[t]] = "run"
  /\ \A t \in Threads : write[t] # None => status[write[t]] # "new"
  /\ \A t, u \in Threads : write[t] = write[u] /\ write[t] # None => t = u

Unfinished(t) == pc[t] \in {"persist", "inplace"}

(***************************************************************************)
(* What is in the memory, in the file and in every earlier content of the  *)
(* file was acknowledged, or is the write of the thread that has           *)
(* storeMutex_, or that of the other process that writes in place.         *)
(***************************************************************************)
CommittedInv ==
  /\ disk = {Corrupt} \/ ContentOf(disk) \subseteq Committed
  /\ \A d \in onDisk : d \subseteq Committed
  /\ \A w \in Foreign : status[w] = "run" => w \in inPlace /\ inPlace \subseteq Committed \cup {w}
  /\ inPlace = {} \/ \E w \in Foreign : status[w] = "run"
  /\ \A v, w \in Foreign : status[v] = "run" /\ status[w] = "run" => v = w
  /\ saved.store \subseteq Committed
  /\ (\A t \in Threads : ~Unfinished(t)) => store \subseteq Committed
  /\ \A t \in Threads : Unfinished(t) => store \subseteq Committed \cup {write[t]}

(***************************************************************************)
(* While nobody goes on without the lock, a writer past tryLock() has it,  *)
(* so that what it has reloaded is still what the file holds when it       *)
(* writes, and what it writes holds every acknowledged write.              *)
(***************************************************************************)
Kept == LockIsKept /\ NothingErased
Durable ==
  /\ crashes \in Nat
  /\ lockFile # "unfilled"
  /\ \A t \in Threads : pc[t] # "inspect"
  /\ \A t \in Threads : pc[t] \in HasFile => locked
  /\ locked => lockFile = "self"
  /\ inPlace # {} => disk = {Blank} /\ lockFile \in ForeignHeld
  /\ "rename" \notin config.faults => inPlace = {} /\ \A t \in Threads : pc[t] # "inplace"
  /\ disk \in Contents \cup {{Corrupt}, {Blank}}
  /\ store \in Contents /\ saved.store \in Contents
  /\ inPlace # {} => inPlace \in Contents /\ Committed \subseteq inPlace
  /\ disk \in Contents => Committed \subseteq disk
  /\ disk = {Blank} => inPlace # {} \/ \E t \in Threads : pc[t] = "inplace"
  /\ onDisk \subseteq Contents
  /\ \E d \in onDisk : Committed \subseteq d
  /\ \A t \in Threads : pc[t] = "modify" => Committed \subseteq store
  /\ \A t \in Threads : Unfinished(t) => Committed \cup {write[t]} \subseteq store
DurableInv == Kept => Durable

LEMMA LocksInvariant == Spec => []LocksInv
<1> USE EngineAssumption DEF LocksInv, PC, WriterPC, ReaderPC, HasMutex, HasFile, HasStore, UnderWay
<1>1. Init => LocksInv
  BY DEF Init
<1>2. LocksInv /\ [Next]_<<config, vars>> => LocksInv'
  <2> SUFFICES ASSUME LocksInv, [Next]_<<config, vars>>
               PROVE  LocksInv'
    OBVIOUS
  <2> USE DEF Move, memVars, mutexVars, localVars, diskVars
  <2>1. ASSUME NEW t \in Threads, LockWriter(t)
        PROVE  LocksInv'
    BY <2>1 DEF LockWriter
  <2>2. ASSUME NEW t \in Threads, LockFile(t)
        PROVE  LocksInv'
    BY <2>2 DEF LockFile
  <2>3. ASSUME NEW t \in Threads, TimeOut(t)
        PROVE  LocksInv'
    BY <2>3 DEF TimeOut
  <2>4. ASSUME NEW t \in Threads, RefuseWrite(t)
        PROVE  LocksInv'
    BY <2>4 DEF RefuseWrite
  <2>5. ASSUME NEW t \in Threads, ProceedUnlocked(t)
        PROVE  LocksInv'
    BY <2>5 DEF ProceedUnlocked
  <2>6. ASSUME NEW t \in Threads, LockStore(t)
        PROVE  LocksInv'
    BY <2>6 DEF LockStore
  <2>7. ASSUME NEW t \in Threads, ReloadFails(t)
        PROVE  LocksInv'
    BY <2>7 DEF ReloadFails
  <2>8. ASSUME NEW t \in Threads, Reload(t)
        PROVE  LocksInv'
    BY <2>8 DEF Reload, Publish
  <2>9. ASSUME NEW t \in Threads, Modify(t)
        PROVE  LocksInv'
    BY <2>9 DEF Modify
  <2>10. ASSUME NEW t \in Threads, ModifyFails(t)
        PROVE  LocksInv'
    BY <2>10 DEF ModifyFails
  <2>11. ASSUME NEW t \in Threads, Rename(t)
        PROVE  LocksInv'
    BY <2>11 DEF Rename
  <2>12. ASSUME NEW t \in Threads, TempFails(t)
        PROVE  LocksInv'
    BY <2>12 DEF TempFails
  <2>13. ASSUME NEW t \in Threads, Truncate(t)
        PROVE  LocksInv'
    BY <2>13 DEF Truncate
  <2>14. ASSUME NEW t \in Threads, Fill(t)
        PROVE  LocksInv'
    BY <2>14 DEF Fill
  <2>15. ASSUME NEW t \in Threads, FillFails(t)
        PROVE  LocksInv'
    BY <2>15 DEF FillFails
  <2>16. ASSUME NEW t \in Threads, UnlockFile(t)
        PROVE  LocksInv'
    <3>1. lockFile' # "self"
      BY <2>16 DEF UnlockFile
    <3>2. /\ pc[t] = "funlock" /\ pc' = [pc EXCEPT ![t] = "return"]
          /\ ~locked' /\ locked' \in BOOLEAN
          /\ UNCHANGED <<mutexVars, write, status>>
      BY <2>16 DEF UnlockFile
    <3>3. QED
      BY <3>1, <3>2
  <2>17. ASSUME NEW t \in Threads, ReturnWrite(t)
        PROVE  LocksInv'
    BY <2>17 DEF ReturnWrite
  <2>18. ASSUME NEW t \in Threads, LockShared(t)
        PROVE  LocksInv'
    BY <2>18 DEF LockShared
  <2>19. ASSUME NEW t \in Threads, EnsureLoaded(t)
        PROVE  LocksInv'
    BY <2>19 DEF EnsureLoaded
  <2>20. ASSUME NEW t \in Threads, Relock(t)
        PROVE  LocksInv'
    BY <2>20 DEF Relock
  <2>21. ASSUME NEW t \in Threads, Read(t)
        PROVE  LocksInv'
    BY <2>21 DEF Read
  <2>22. ASSUME NEW t \in Threads, BeginWrite(t)
        PROVE  LocksInv'
    BY <2>22 DEF BeginWrite
  <2>23. ASSUME NEW t \in Threads, BeginRead(t)
        PROVE  LocksInv'
    BY <2>23 DEF BeginRead
  <2>24. ASSUME NEW w \in Foreign, ForeignCommit(w)
        PROVE  LocksInv'
    BY <2>24 DEF ForeignCommit, ForeignMayWrite
  <2>25. ASSUME NEW w \in Foreign, ForeignTruncate(w)
        PROVE  LocksInv'
    BY <2>25 DEF ForeignTruncate, ForeignMayWrite
  <2>26. ASSUME NEW w \in Foreign, ForeignFill(w)
        PROVE  LocksInv'
    BY <2>26 DEF ForeignFill, ForeignMayWrite
  <2>26a. ASSUME NEW w \in Foreign, ForeignFillFails(w)
        PROVE  LocksInv'
    BY <2>26a DEF ForeignFillFails
  <2>27. CASE ForeignLock \/ ForeignUnlock \/ Damage \/ Repair
    BY <2>27 DEF ForeignLock, ForeignUnlock, ForeignHeld, Damage, Repair
  <2>28. CASE Crash
    BY <2>28 DEF Crash
  <2>29. CASE UNCHANGED <<config, vars>>
    BY <2>29 DEF vars
  <2>30. QED
    BY <2>1, <2>2, <2>3, <2>4, <2>5, <2>6, <2>7, <2>8, <2>9, <2>10, <2>11, <2>12, <2>13, <2>14, <2>15, <2>16, <2>17, <2>18, <2>19, <2>20, <2>21, <2>22, <2>23, <2>24, <2>25, <2>26, <2>26a, <2>27, <2>28, <2>29 DEF Next, WriteStep, ReadStep, Environment
<1>3. QED
  BY <1>1, <1>2, PTL DEF Spec

\* The marks of a damaged file are no contents.
LEMMA Marks == {Corrupt} \notin Contents /\ {Blank} \notin Contents
BY EngineAssumption DEF Contents

\* A write in place that is cut short puts nothing into the file.
LEMMA NothingNew ==
  ASSUME \E left \in CutShort : Commit(left)
  PROVE  /\ disk' = {Corrupt} \/ ContentOf(disk') = {}
         /\ onDisk' = onDisk
BY Marks DEF CutShort, Commit, ContentOf

\* What an answer of writeWithLock() makes of the set of acknowledged writes.
LEMMA Answered ==
  ASSUME LocksInv, NEW t \in Threads, pc[t] \in UnderWay, NEW a \in {"ok", "failed"},
         status' = [status EXCEPT ![write[t]] = a]
  PROVE  /\ Committed' = IF a = "ok" THEN Committed \cup {write[t]} ELSE Committed
         /\ \A w \in Foreign : status'[w] = status[w]
<1>1. write[t] \in Writes /\ write[t] \notin Foreign /\ status[write[t]] = "run"
  BY EngineAssumption DEF LocksInv, UnderWay, WriterPC
<1>2. /\ status \in [Writes \cup Foreign -> {"new", "run", "ok", "failed"}]
      /\ status'[write[t]] = a
      /\ \A w \in Writes \cup Foreign : w # write[t] => status'[w] = status[w]
  BY <1>1 DEF LocksInv
<1>3. CASE a = "ok"
  BY <1>1, <1>2, <1>3 DEF Committed
<1>4. CASE a = "failed"
  BY <1>1, <1>2, <1>4 DEF Committed
<1>5. QED
  BY <1>1, <1>2, <1>3, <1>4

LEMMA CommittedInvariant == Spec => []CommittedInv
<1> USE EngineAssumption DEF CommittedInv, Committed, ContentOf, Unfinished
<1>1. Init => CommittedInv
  BY DEF Init, NothingSaved
<1>2. LocksInv /\ CommittedInv /\ [Next]_<<config, vars>> => CommittedInv'
  <2> SUFFICES ASSUME LocksInv, CommittedInv, [Next]_<<config, vars>>
               PROVE  CommittedInv'
    OBVIOUS
  <2> USE Marks DEF LocksInv, UnderWay, HasStore, Move, Commit, memVars, mutexVars, localVars, diskVars
  <2>1. ASSUME NEW t \in Threads, LockWriter(t)
        PROVE  CommittedInv'
    BY <2>1 DEF LockWriter
  <2>2. ASSUME NEW t \in Threads, LockFile(t)
        PROVE  CommittedInv'
    BY <2>2 DEF LockFile
  <2>3. ASSUME NEW t \in Threads, TimeOut(t)
        PROVE  CommittedInv'
    BY <2>3 DEF TimeOut
  <2>4. ASSUME NEW t \in Threads, RefuseWrite(t)
        PROVE  CommittedInv'
    <3> HIDE DEF Committed
    <3>1. pc[t] \in UnderWay /\ status' = [status EXCEPT ![write[t]] = "failed"]
      BY <2>4 DEF RefuseWrite
    <3>2. Committed' = Committed /\ \A w \in Foreign : status'[w] = status[w]
      BY <3>1, Answered
    <3>3. QED
      BY <2>4, <3>2 DEF RefuseWrite
  <2>5. ASSUME NEW t \in Threads, ProceedUnlocked(t)
        PROVE  CommittedInv'
    BY <2>5 DEF ProceedUnlocked
  <2>6. ASSUME NEW t \in Threads, LockStore(t)
        PROVE  CommittedInv'
    BY <2>6 DEF LockStore
  <2>7. ASSUME NEW t \in Threads, ReloadFails(t)
        PROVE  CommittedInv'
    <3> HIDE DEF Committed
    <3>1. pc[t] \in UnderWay /\ status' = [status EXCEPT ![write[t]] = "failed"]
      BY <2>7 DEF ReloadFails
    <3>2. Committed' = Committed /\ \A w \in Foreign : status'[w] = status[w]
      BY <3>1, Answered
    <3>3. QED
      BY <2>7, <3>2 DEF ReloadFails
  <2>8. ASSUME NEW t \in Threads, Reload(t)
        PROVE  CommittedInv'
    BY <2>8 DEF Reload, Publish, Readable
  <2>9. ASSUME NEW t \in Threads, Modify(t)
        PROVE  CommittedInv'
    BY <2>9 DEF Modify
  <2>10. ASSUME NEW t \in Threads, ModifyFails(t)
        PROVE  CommittedInv'
    <3> HIDE DEF Committed
    <3>1. pc[t] \in UnderWay /\ status' = [status EXCEPT ![write[t]] = "failed"]
      BY <2>10 DEF ModifyFails
    <3>2. Committed' = Committed /\ \A w \in Foreign : status'[w] = status[w]
      BY <3>1, Answered
    <3>3. QED
      BY <2>10, <3>2 DEF ModifyFails, Rollback, RollbackTo
  <2>11. ASSUME NEW t \in Threads, Rename(t)
        PROVE  CommittedInv'
    <3> HIDE DEF Committed
    <3>1. pc[t] \in UnderWay /\ status' = [status EXCEPT ![write[t]] = "ok"]
      BY <2>11 DEF Rename
    <3>2. Committed' = Committed \cup {write[t]} /\ \A w \in Foreign : status'[w] = status[w]
      BY <3>1, Answered
    <3>3. QED
      BY <2>11, <3>2 DEF Rename
  <2>12. ASSUME NEW t \in Threads, TempFails(t)
        PROVE  CommittedInv'
    <3> HIDE DEF Committed
    <3>1. pc[t] \in UnderWay /\ status' = [status EXCEPT ![write[t]] = "failed"]
      BY <2>12 DEF TempFails
    <3>2. Committed' = Committed /\ \A w \in Foreign : status'[w] = status[w]
      BY <3>1, Answered
    <3>3. QED
      BY <2>12, <3>2 DEF TempFails, Rollback, RollbackTo
  <2>13. ASSUME NEW t \in Threads, Truncate(t)
        PROVE  CommittedInv'
    BY <2>13 DEF Truncate
  <2>14. ASSUME NEW t \in Threads, Fill(t)
        PROVE  CommittedInv'
    <3> HIDE DEF Committed
    <3>1. pc[t] \in UnderWay /\ status' = [status EXCEPT ![write[t]] = "ok"]
      BY <2>14 DEF Fill
    <3>2. Committed' = Committed \cup {write[t]} /\ \A w \in Foreign : status'[w] = status[w]
      BY <3>1, Answered
    <3>3. QED
      BY <2>14, <3>2 DEF Fill
  <2>15. ASSUME NEW t \in Threads, FillFails(t)
        PROVE  CommittedInv'
    <3> HIDE DEF Committed
    <3>1. pc[t] \in UnderWay /\ status' = [status EXCEPT ![write[t]] = "failed"]
      BY <2>15 DEF FillFails
    <3>2. Committed' = Committed /\ \A w \in Foreign : status'[w] = status[w]
      BY <3>1, Answered
    <3>3. (disk' = {Corrupt} \/ ContentOf(disk') = {}) /\ onDisk' = onDisk
      BY <2>15, NothingNew DEF FillFails
    <3>4. QED
      BY <2>15, <3>2, <3>3 DEF FillFails, Rollback, RollbackTo
  <2>16. ASSUME NEW t \in Threads, UnlockFile(t)
        PROVE  CommittedInv'
    BY <2>16 DEF UnlockFile
  <2>17. ASSUME NEW t \in Threads, ReturnWrite(t)
        PROVE  CommittedInv'
    BY <2>17 DEF ReturnWrite, NothingSaved
  <2>18. ASSUME NEW t \in Threads, LockShared(t)
        PROVE  CommittedInv'
    BY <2>18 DEF LockShared
  <2>19. ASSUME NEW t \in Threads, EnsureLoaded(t)
        PROVE  CommittedInv'
    BY <2>19 DEF EnsureLoaded, Readable
  <2>20. ASSUME NEW t \in Threads, Relock(t)
        PROVE  CommittedInv'
    BY <2>20 DEF Relock
  <2>21. ASSUME NEW t \in Threads, Read(t)
        PROVE  CommittedInv'
    BY <2>21 DEF Read
  <2>22. ASSUME NEW t \in Threads, BeginWrite(t)
        PROVE  CommittedInv'
    BY <2>22 DEF BeginWrite
  <2>23. ASSUME NEW t \in Threads, BeginRead(t)
        PROVE  CommittedInv'
    BY <2>23 DEF BeginRead
  <2>24. ASSUME NEW w \in Foreign, ForeignCommit(w)
        PROVE  CommittedInv'
    BY <2>24 DEF ForeignCommit, ForeignMayWrite, Readable
  <2>25. ASSUME NEW w \in Foreign, ForeignTruncate(w)
        PROVE  CommittedInv'
    BY <2>25 DEF ForeignTruncate, ForeignMayWrite, Readable
  <2>26. ASSUME NEW w \in Foreign, ForeignFill(w)
        PROVE  CommittedInv'
    BY <2>26 DEF ForeignFill, ForeignMayWrite, Readable
  <2>26a. ASSUME NEW w \in Foreign, ForeignFillFails(w)
        PROVE  CommittedInv'
    <3>1. (disk' = {Corrupt} \/ ContentOf(disk') = {}) /\ onDisk' = onDisk
      BY <2>26a, NothingNew DEF ForeignFillFails
    <3>2. Committed' = Committed /\ \A v \in Foreign : status'[v] # "run"
      BY <2>26a DEF ForeignFillFails
    <3>3. QED
      BY <2>26a, <3>1, <3>2 DEF ForeignFillFails
  <2>27. CASE ForeignLock \/ ForeignUnlock \/ Damage \/ Repair
    BY <2>27 DEF ForeignLock, ForeignUnlock, Damage, Repair
  <2>28. CASE Crash
    BY <2>28 DEF Crash, NothingSaved
  <2>29. CASE UNCHANGED <<config, vars>>
    BY <2>29 DEF vars
  <2>30. QED
    BY <2>1, <2>2, <2>3, <2>4, <2>5, <2>6, <2>7, <2>8, <2>9, <2>10, <2>11, <2>12, <2>13, <2>14, <2>15, <2>16, <2>17, <2>18, <2>19, <2>20, <2>21, <2>22, <2>23, <2>24, <2>25, <2>26, <2>26a, <2>27, <2>28, <2>29 DEF Next, WriteStep, ReadStep, Environment
<1>3. QED
  BY <1>1, <1>2, LocksInvariant, PTL DEF Spec

LEMMA DurableInvariant == Spec => []DurableInv
<1> USE EngineAssumption DEF Durable, ContentOf, Unfinished, HasFile
<1>1. Init => DurableInv
  BY DEF Init, NothingSaved, DurableInv, Contents, Committed, LockStates, ForeignHeld
<1>2. LocksInv /\ CommittedInv /\ DurableInv /\ [Next]_<<config, vars>> => DurableInv'
  <2> SUFFICES ASSUME LocksInv, CommittedInv, DurableInv, [Next]_<<config, vars>>, Kept'
               PROVE  Durable'
    BY DEF DurableInv
  <2>0. UNCHANGED config /\ Kept /\ Durable
    BY DEF Next, vars, DurableInv, Kept, LockIsKept, NothingErased
  <2>a. UNCHANGED status => UNCHANGED Committed
    BY DEF Committed
  <2> USE Marks, <2>0, <2>a DEF LocksInv, Move, Commit, memVars, mutexVars, localVars, diskVars
  <2>1. ASSUME NEW t \in Threads, LockWriter(t)
        PROVE  Durable'
    BY <2>1 DEF LockWriter
  <2>2. ASSUME NEW t \in Threads, LockFile(t)
        PROVE  Durable'
    BY <2>2 DEF LockFile, ForeignHeld
  <2>3. ASSUME NEW t \in Threads, TimeOut(t)
        PROVE  Durable'
    BY <2>3 DEF TimeOut, Kept, LockIsKept, ForeignHeld
  <2>4. ASSUME NEW t \in Threads, RefuseWrite(t)
        PROVE  Durable'
    <3>1. pc[t] \in UnderWay /\ status' = [status EXCEPT ![write[t]] = "failed"]
      BY <2>4 DEF RefuseWrite, UnderWay
    <3>2. Committed' = Committed
      BY <3>1, Answered
    <3>3. QED
      BY <2>4, <3>2 DEF RefuseWrite, ForeignHeld, UnderWay, HasStore
  <2>5. ASSUME NEW t \in Threads, ProceedUnlocked(t)
        PROVE  Durable'
    BY <2>5 DEF ProceedUnlocked
  <2>6. ASSUME NEW t \in Threads, LockStore(t)
        PROVE  Durable'
    BY <2>6 DEF LockStore
  <2>7. ASSUME NEW t \in Threads, ReloadFails(t)
        PROVE  Durable'
    <3>1. pc[t] \in UnderWay /\ status' = [status EXCEPT ![write[t]] = "failed"]
      BY <2>7 DEF ReloadFails, UnderWay
    <3>2. Committed' = Committed
      BY <3>1, Answered
    <3>3. QED
      BY <2>7, <3>2 DEF ReloadFails, ForeignHeld, UnderWay, HasStore
  <2>8. ASSUME NEW t \in Threads, Reload(t)
        PROVE  Durable'
    <3>1. pc[t] = "reload" /\ excl = t /\ lockFile = "self"
      BY <2>8 DEF Reload, Publish, HasStore
    <3>2. \A u \in Threads \ {t} : pc[u] \notin HasStore
      BY <3>1
    <3>3. inPlace = {} /\ \A u \in Threads : pc[u] # "inplace"
      BY <3>1, <3>2 DEF ForeignHeld, HasStore
    <3>4. disk \in Contents /\ ContentOf(disk) = disk
      BY <2>8, <3>3 DEF Reload, Publish, Readable, Contents
    <3>5. QED
      BY <2>8, <3>1, <3>2, <3>3, <3>4 DEF Reload, Publish, ForeignHeld, HasStore
  <2>9. ASSUME NEW t \in Threads, Modify(t)
        PROVE  Durable'
    <3>1. write[t] \in Writes
      BY <2>9 DEF Modify, WriterPC
    <3>2. store' \in Contents
      BY <2>9, <3>1 DEF Modify, Contents
    <3>3. \A u \in Threads \ {t} : ~Unfinished(u)
      BY <2>9 DEF Modify, HasStore
    <3>4. QED
      BY <2>9, <3>2, <3>3 DEF Modify
  <2>10. ASSUME NEW t \in Threads, ModifyFails(t)
        PROVE  Durable'
    <3>1. pc[t] \in UnderWay /\ status' = [status EXCEPT ![write[t]] = "failed"]
      BY <2>10 DEF ModifyFails, Rollback, RollbackTo, UnderWay
    <3>2. Committed' = Committed
      BY <3>1, Answered
    <3>3. QED
      BY <2>10, <3>2 DEF ModifyFails, Rollback, RollbackTo, ForeignHeld, UnderWay, HasStore
  <2>11. ASSUME NEW t \in Threads, Rename(t)
        PROVE  Durable'
    <3>1. pc[t] \in UnderWay /\ status' = [status EXCEPT ![write[t]] = "ok"]
      BY <2>11 DEF Rename, UnderWay
    <3>2. Committed' = Committed \cup {write[t]}
      BY <3>1, Answered
    <3>3. store \in Contents /\ inPlace = {} /\ lockFile = "self" /\ write[t] \in Writes
      BY <2>11 DEF Rename, ForeignHeld, HasStore, WriterPC
    <3>4. \A u \in Threads \ {t} : ~Unfinished(u) /\ pc[u] # "inplace"
      BY <2>11 DEF Rename, HasStore
    <3>5. QED
      BY <2>11, <3>2, <3>3, <3>4 DEF Rename, ForeignHeld, UnderWay, HasStore
  <2>12. ASSUME NEW t \in Threads, TempFails(t)
        PROVE  Durable'
    <3>1. pc[t] \in UnderWay /\ status' = [status EXCEPT ![write[t]] = "failed"]
      BY <2>12 DEF TempFails, Rollback, RollbackTo, UnderWay
    <3>2. Committed' = Committed
      BY <3>1, Answered
    <3>3. QED
      BY <2>12, <3>2 DEF TempFails, Rollback, RollbackTo, ForeignHeld, UnderWay, HasStore
  <2>13. ASSUME NEW t \in Threads, Truncate(t)
        PROVE  Durable'
    BY <2>13 DEF Truncate, ForeignHeld
  <2>14. ASSUME NEW t \in Threads, Fill(t)
        PROVE  Durable'
    <3>1. pc[t] \in UnderWay /\ status' = [status EXCEPT ![write[t]] = "ok"]
      BY <2>14 DEF Fill, UnderWay
    <3>2. Committed' = Committed \cup {write[t]}
      BY <3>1, Answered
    <3>3. QED
      <4>1. /\ pc[t] = "inplace" /\ pc' = [pc EXCEPT ![t] = "funlock"]
            /\ disk' = store /\ onDisk' = onDisk \cup {store}
            /\ UNCHANGED <<inPlace, store, saved, lockFile, locked, write, crashes>>
        BY <2>14 DEF Fill
      <4>2. \A u \in Threads \ {t} : pc[u] \notin HasStore
        BY <4>1 DEF HasStore
      <4>3. lockFile = "self" /\ inPlace = {} /\ Committed' \subseteq store
        BY <3>2, <4>1 DEF ForeignHeld
      <4>4. \A u \in Threads : ~Unfinished(u)' /\ pc'[u] # "modify" /\ pc'[u] # "inspect"
        BY <4>1, <4>2 DEF HasStore, HasMutex, WriterPC
      <4>5. disk' \in Contents /\ disk' # {Blank} /\ Committed' \subseteq disk'
        BY <4>1, <4>3
      <4>6. QED
        BY <3>2, <4>1, <4>2, <4>3, <4>4, <4>5 DEF ForeignHeld, HasStore
  <2>15. ASSUME NEW t \in Threads, FillFails(t)
        PROVE  Durable'
    <3>1. pc[t] \in UnderWay /\ status' = [status EXCEPT ![write[t]] = "failed"]
      BY <2>15 DEF FillFails, Rollback, RollbackTo, UnderWay
    <3>2. Committed' = Committed
      BY <3>1, Answered
    <3>3. pc[t] = "inplace" /\ pc' = [pc EXCEPT ![t] = "funlock"]
      BY <2>15 DEF FillFails
    <3>4. CutShort = {{Corrupt}}
      BY <3>3 DEF CutShort, Kept, NothingErased
    <3>5. disk' = {Corrupt} /\ onDisk' = onDisk
      BY <2>15, <3>4 DEF FillFails
    <3>6. inPlace = {}
      BY <3>3 DEF ForeignHeld, HasStore
    <3>7. QED
      BY <2>15, <3>2, <3>5, <3>6 DEF FillFails, Rollback, RollbackTo, ForeignHeld, UnderWay, HasStore
  <2>16. ASSUME NEW t \in Threads, UnlockFile(t)
        PROVE  Durable'
    <3>1. pc[t] = "funlock" /\ writer = t /\ locked
      BY <2>16 DEF UnlockFile, HasMutex, WriterPC
    <3>2. /\ lockFile' = "free" /\ ~locked' /\ pc' = [pc EXCEPT ![t] = "return"]
          /\ UNCHANGED <<diskVars, memVars, write, saved, crashes, Committed>>
      BY <2>16, <3>1 DEF UnlockFile
    <3>3. \A u \in Threads \ {t} : pc[u] \notin HasFile
      BY <3>1 DEF HasMutex, WriterPC
    <3>4. QED
      BY <3>1, <3>2, <3>3 DEF ForeignHeld
  <2>17. ASSUME NEW t \in Threads, ReturnWrite(t)
        PROVE  Durable'
    BY <2>17 DEF ReturnWrite, NothingSaved, Contents
  <2>18. ASSUME NEW t \in Threads, LockShared(t)
        PROVE  Durable'
    BY <2>18 DEF LockShared
  <2>19. ASSUME NEW t \in Threads, EnsureLoaded(t)
        PROVE  Durable'
    BY <2>19 DEF EnsureLoaded, Readable, Contents, HasStore
  <2>20. ASSUME NEW t \in Threads, Relock(t)
        PROVE  Durable'
    BY <2>20 DEF Relock
  <2>21. ASSUME NEW t \in Threads, Read(t)
        PROVE  Durable'
    BY <2>21 DEF Read
  <2>22. ASSUME NEW t \in Threads, BeginWrite(t)
        PROVE  Durable'
    BY <2>22 DEF BeginWrite, Committed
  <2>23. ASSUME NEW t \in Threads, BeginRead(t)
        PROVE  Durable'
    BY <2>23 DEF BeginRead
  <2>24. ASSUME NEW w \in Foreign, ForeignCommit(w)
        PROVE  Durable'
    <3>1. \A t \in Threads : pc[t] \notin HasFile
      BY <2>24 DEF ForeignCommit, ForeignMayWrite, ForeignHeld
    <3>2. Committed' = Committed \cup {w}
      BY <2>24 DEF ForeignCommit, Committed, ForeignMayWrite
    <3>3. QED
      BY <2>24, <3>1, <3>2 DEF ForeignCommit, ForeignMayWrite, Readable, ForeignHeld, Contents
  <2>25. ASSUME NEW w \in Foreign, ForeignTruncate(w)
        PROVE  Durable'
    <3>1. \A t \in Threads : pc[t] \notin HasFile
      BY <2>25 DEF ForeignTruncate, ForeignMayWrite, ForeignHeld
    <3>2. Committed' = Committed
      BY <2>25 DEF ForeignTruncate, Committed, ForeignMayWrite
    <3>3. QED
      BY <2>25, <3>1, <3>2 DEF ForeignTruncate, ForeignMayWrite, Readable, ForeignHeld, Contents, Committed
  <2>26. ASSUME NEW w \in Foreign, ForeignFill(w)
        PROVE  Durable'
    <3>1. \A t \in Threads : pc[t] \notin HasFile
      BY <2>26 DEF ForeignFill, ForeignMayWrite, ForeignHeld
    <3>2. Committed' = Committed \cup {w}
      BY <2>26 DEF ForeignFill, Committed, ForeignMayWrite
    <3>3. QED
      BY <2>26, <3>1, <3>2 DEF ForeignFill, ForeignMayWrite, Readable, ForeignHeld, Contents, CommittedInv
  <2>26a. ASSUME NEW w \in Foreign, ForeignFillFails(w)
        PROVE  Durable'
    <3>1. CutShort = {{Corrupt}} /\ Committed' = Committed
      BY <2>26a DEF ForeignFillFails, CutShort, Kept, NothingErased, Committed
    <3>2. QED
      BY <2>26a, <3>1 DEF ForeignFillFails, ForeignHeld
  <2>27. CASE ForeignLock
    BY <2>27 DEF ForeignLock, ForeignHeld
  <2>28. CASE ForeignUnlock
    BY <2>28 DEF ForeignUnlock, ForeignHeld, Kept, LockIsKept
  <2>29. CASE Damage
    BY <2>29 DEF Damage
  <2>30. CASE Repair
    <3>1. PICK d \in onDisk : Committed \subseteq d /\ disk' = d /\ onDisk' = onDisk
      BY <2>30 DEF Repair
    <3>2. QED
      BY <2>30, <3>1 DEF Repair
  <2>31. CASE Crash
    <3>1. "rename" \notin config.faults
      BY <2>31 DEF Crash, Kept, NothingErased
    <3>2. Committed' = Committed
      BY <2>31 DEF Crash, Committed
    <3>3. QED
      BY <2>31, <3>1, <3>2 DEF Crash, NothingSaved, Contents, ForeignHeld
  <2>32. CASE UNCHANGED <<config, vars>>
    BY <2>32 DEF vars
  <2>33. QED
    BY <2>1, <2>2, <2>3, <2>4, <2>5, <2>6, <2>7, <2>8, <2>9, <2>10, <2>11, <2>12, <2>13, <2>14, <2>15, <2>16, <2>17, <2>18, <2>19, <2>20, <2>21, <2>22, <2>23, <2>24, <2>25, <2>26, <2>26a, <2>27, <2>28, <2>29, <2>30, <2>31, <2>32 DEF Next, WriteStep, ReadStep, Environment
<1>3. QED
  BY <1>1, <1>2, LocksInvariant, CommittedInvariant, PTL DEF Spec

-----------------------------------------------------------------------------
\* No path out of writeWithLock(), an exception included, leaves the lock file
\* behind: between two writes this process does not have it.
THEOREM LockFileFreed == Spec => []FileLockFreed
<1>1. LocksInv => FileLockFreed
  BY DEF LocksInv, FileLockFreed
<1>2. QED
  BY <1>1, LocksInvariant, PTL

(***************************************************************************)
(* Why no call waits for ever, as far as an invariant can say it.  Blocked *)
(* threads wait for a mutex of this process; a thread at "flock" waits for *)
(* whoever has the lock file.                                              *)
(***************************************************************************)
Blocked(t) ==
  \/ pc[t] = "wmutex" /\ writer # None
  \/ pc[t] \in {"smutex", "rload"} /\ (excl # None \/ shared # {})
  \/ pc[t] \in {"rlock", "relock"} /\ excl # None

GoesOn(t) ==
  pc[t] # "idle" /\ ~Blocked(t) /\ (pc[t] = "flock" => lockFile \notin ForeignHeld \cup {"self"})

\* Some thread of the process can go on while any is in a call; except that
\* writers, and never readers, may all wait for another process that has the
\* lock file: "waiting for another process never blocks local readers"
\* (JsonFileDb.h:93-94), not even behind a writer.
WaitsLeadOut ==
  \A t \in Threads : pc[t] # "idle" =>
    \/ \E u \in Threads : GoesOn(u)
    \/ pc[t] \in {"wmutex", "flock"} /\ lockFile \in ForeignHeld

LEMMA StoreHolderGoesOn ==
  ASSUME LocksInv, excl # None \/ shared # {}
  PROVE  \E u \in Threads : GoesOn(u)
<1>1. PICK u \in Threads : pc[u] \in HasStore \cup {"read"}
  BY EngineAssumption DEF LocksInv
<1> QED
  BY <1>1 DEF GoesOn, Blocked, HasStore

\* The mutexes of writeWithLock() and of the readers are never waited for in a
\* circle, and the file lock is never waited for under storeMutex_: in any
\* number of threads some call can go on, and a reader never waits for another
\* process, directly or behind a writer.
THEOREM EngineNeverStalls == Spec => []WaitsLeadOut
<1>1. ASSUME LocksInv PROVE WaitsLeadOut
  <2> SUFFICES ASSUME NEW t \in Threads, pc[t] # "idle", \A u \in Threads : ~GoesOn(u)
               PROVE  pc[t] \in {"wmutex", "flock"} /\ lockFile \in ForeignHeld
    BY DEF WaitsLeadOut
  <2>1. excl = None /\ shared = {}
    BY <1>1, StoreHolderGoesOn
  <2>2. ASSUME NEW u \in Threads, pc[u] = "flock"
        PROVE  lockFile \in ForeignHeld
    <3>1. writer = u /\ lockFile # "self"
      BY <1>1, <2>2 DEF LocksInv, HasMutex, HasFile, WriterPC
    <3> QED
      BY <2>2, <3>1 DEF GoesOn, Blocked
  <2>3. pc[t] \in {"wmutex", "flock"}
    BY <2>1 DEF GoesOn, Blocked
  <2>4. CASE pc[t] = "wmutex"
    <3>1. PICK u \in Threads : writer = u
      BY <1>1, <2>4 DEF LocksInv, GoesOn, Blocked
    <3>2. pc[u] \in HasMutex
      BY <1>1, <3>1 DEF LocksInv
    <3>3. pc[u] = "flock"
      BY <2>1, <3>2 DEF GoesOn, Blocked, HasMutex, WriterPC
    <3> QED
      BY <2>2, <2>3, <3>3
  <2> QED
    BY <2>2, <2>3, <2>4
<1>2. QED
  BY <1>1, LocksInvariant, PTL

\* Under storeMutex_ shared no write is under way, so that what a reader answers
\* from was acknowledged: writeWithLock() never publishes a failed write.
THEOREM ReadersSeeCommitted == Spec => []ReadersSeeOnlyCommitted
<1>1. LocksInv /\ CommittedInv => ReadersSeeOnlyCommitted
  <2> SUFFICES ASSUME LocksInv, CommittedInv, NEW t \in Threads, pc[t] = "read"
               PROVE  store \subseteq Committed
    BY DEF ReadersSeeOnlyCommitted, Answers
  <2>1. excl = None
    BY DEF LocksInv
  <2>2. \A u \in Threads : pc[u] \notin HasStore
    BY <2>1, EngineAssumption DEF LocksInv
  <2>3. QED
    BY <2>2 DEF CommittedInv, Unfinished, HasStore
<1>2. QED
  BY <1>1, LocksInvariant, CommittedInvariant, PTL

\* The read-modify-write cycles of writeWithLock() in any number of threads and
\* other processes never overwrite an acknowledged write, whatever fails or
\* crashes, while nobody goes on without the file lock and no write in place
\* ends with an empty file.
THEOREM AckedWritesAreDurable == Spec => []AckedIsDurable
<1>1. DurableInv => AckedIsDurable
  BY DEF DurableInv, Kept, Durable, AckedIsDurable, AckedOnDisk
<1>2. QED
  BY <1>1, DurableInvariant, PTL

-----------------------------------------------------------------------------
(***************************************************************************)
(* That the engine implements the atomic store: what its memory holds is   *)
(* at every step one of the contents the file has had.                     *)
(***************************************************************************)

Faithful == FailureFlagSafe /\ "rename" \notin config.faults
Damaged == "damage" \in config.faults

\* A writer between its reload and the end of writeFileAtomic().
Mid(t) == pc[t] \in {"modify", "persist"}

(***************************************************************************)
(* Memory and file: the store is a content of the file except for what a   *)
(* writer has added and not yet written, and what rollback() would put     *)
(* back is one too.  A reader that has loaded the store keeps it loaded:   *)
(* rollback() clears loaded_ only when nobody had loaded it.               *)
(***************************************************************************)
Mirror ==
  /\ inPlace = {} /\ \A t \in Threads : pc[t] # "inplace"
  /\ disk \in onDisk \/ (disk = {Corrupt} /\ Damaged)
  /\ onDisk \subseteq Contents
  /\ store \in Contents /\ saved.store \in Contents
  /\ loaded \in BOOLEAN /\ loadFailed \in BOOLEAN /\ saved.loaded \in BOOLEAN
  /\ ~Damaged => ~loadFailed
  /\ \A t \in Threads : pc[t] \in {"relock", "read"} => loaded
  /\ \A t, u \in Threads : pc[t] \in {"relock", "read"} /\ Mid(u) => saved.loaded
  /\ (\A t \in Threads : pc[t] # "persist") =>
       (loaded /\ ~loadFailed => store \in onDisk /\ index = store)
  /\ \A t \in Threads : Mid(t) => loaded /\ ~loadFailed /\ index = store
  /\ \A t \in Threads : Mid(t) /\ ~Damaged /\ saved.loaded =>
       saved.store \in onDisk /\ saved.index = saved.store
MirrorInv == Faithful => Mirror

LEMMA MirrorInvariant == Spec => []MirrorInv
<1> USE EngineAssumption DEF Mirror, Mid, Damaged, ContentOf
<1>1. Init => MirrorInv
  <2> SUFFICES ASSUME Init
               PROVE  Mirror
    BY DEF MirrorInv
  <2>1. onDisk = {disk} /\ disk \in Contents /\ store \in Contents
    BY DEF Init, Contents
  <2>2. saved.store = {} /\ saved.loaded = FALSE
    BY DEF Init, NothingSaved
  <2>3. \A t \in Threads : pc[t] = "idle"
    BY DEF Init
  <2>4. loaded = FALSE /\ loadFailed = FALSE /\ inPlace = {}
    BY DEF Init
  <2>5. QED
    BY <2>1, <2>2, <2>3, <2>4 DEF Contents
<1>2. LocksInv /\ MirrorInv /\ [Next]_<<config, vars>> => MirrorInv'
  <2> SUFFICES ASSUME LocksInv, MirrorInv, [Next]_<<config, vars>>, Faithful'
               PROVE  Mirror'
    BY DEF MirrorInv
  <2>a. config' = config
    BY DEF Next
  <2>b. Faithful /\ Mirror
    BY <2>a DEF MirrorInv, Faithful, FailureFlagSafe
  <2>c. Damaged' = Damaged
    BY <2>a
  <2>d. \A t, u \in Threads : pc[t] \in HasStore /\ pc[u] \in HasStore => t = u
    BY DEF LocksInv
  <2>e. \A t \in Threads : excl = None => pc[t] \notin HasStore
    BY DEF LocksInv
  <2>f. Readable(disk) => disk \in onDisk /\ disk \in Contents /\ ContentOf(disk) = disk
    BY <2>b DEF Readable, Contents
  <2>g. pc \in [Threads -> PC]
    BY DEF LocksInv
  <2>h. ~Readable(disk) => Damaged
    BY <2>b DEF Readable, Contents
  <2> USE <2>a, <2>b, <2>c, <2>g DEF HasStore, Move
  <2>1. ASSUME NEW t \in Threads, LockWriter(t)
        PROVE  Mirror'
    BY <2>1 DEF LockWriter, diskVars, memVars, localVars
  <2>2. ASSUME NEW t \in Threads, LockFile(t)
        PROVE  Mirror'
    BY <2>2 DEF LockFile, diskVars, memVars
  <2>3. ASSUME NEW t \in Threads, TimeOut(t)
        PROVE  Mirror'
    BY <2>3 DEF TimeOut, diskVars, memVars, localVars
  <2>4. ASSUME NEW t \in Threads, RefuseWrite(t)
        PROVE  Mirror'
    BY <2>4 DEF RefuseWrite, diskVars, memVars
  <2>5. ASSUME NEW t \in Threads, ProceedUnlocked(t)
        PROVE  Mirror'
    BY <2>5 DEF ProceedUnlocked, diskVars, memVars, localVars
  <2>6. ASSUME NEW t \in Threads, LockStore(t)
        PROVE  Mirror'
    BY <2>6 DEF LockStore, diskVars, memVars, localVars
  <2>7. ASSUME NEW t \in Threads, ReloadFails(t)
        PROVE  Mirror'
    <3>1. CASE loaded
      <4>1. loadFailed' = loadFailed
        BY <2>7, <3>1 DEF ReloadFails
      <4>2. QED
        BY <2>7, <4>1, <2>d DEF ReloadFails, diskVars, localVars
    <3>2. CASE ~loaded
      <4>1. loadFailed' = TRUE
        BY <2>7, <3>2 DEF ReloadFails
      <4>2. QED
        BY <2>7, <2>h, <3>2, <4>1, <2>d DEF ReloadFails, diskVars, localVars
    <3>3. QED
      BY <3>1, <3>2
  <2>8. ASSUME NEW t \in Threads, Reload(t)
        PROVE  Mirror'
    BY <2>8, <2>d, <2>f DEF Reload, Publish, diskVars
  <2>9. ASSUME NEW t \in Threads, Modify(t)
        PROVE  Mirror'
    <3>1. write[t] \in Writes
      BY <2>9 DEF Modify, LocksInv, WriterPC
    <3>2. QED
      BY <2>9, <2>d, <3>1 DEF Modify, diskVars, localVars, Contents
  <2>10. ASSUME NEW t \in Threads, ModifyFails(t)
        PROVE  Mirror'
    <3>1. ~Damaged
      BY <2>10 DEF ModifyFails, Faithful, FailureFlagSafe
    <3>2. QED
      BY <2>10, <2>d, <3>1 DEF ModifyFails, Rollback, RollbackTo, diskVars, localVars
  <2>11. ASSUME NEW t \in Threads, Rename(t)
        PROVE  Mirror'
    BY <2>11, <2>d DEF Rename, Commit, memVars, localVars
  <2>12. ASSUME NEW t \in Threads, TempFails(t)
        PROVE  Mirror'
    <3>1. ~Damaged
      BY <2>12 DEF TempFails, Faithful, FailureFlagSafe
    <3>2. QED
      BY <2>12, <2>d, <3>1 DEF TempFails, Rollback, RollbackTo, diskVars, localVars
  <2>13. ASSUME NEW t \in Threads, Truncate(t) \/ Fill(t) \/ FillFails(t)
        PROVE  Mirror'
    BY <2>13 DEF Truncate, Fill, FillFails, Faithful
  <2>14. ASSUME NEW t \in Threads, UnlockFile(t)
        PROVE  Mirror'
    BY <2>14 DEF UnlockFile, diskVars, memVars
  <2>15. ASSUME NEW t \in Threads, ReturnWrite(t)
        PROVE  Mirror'
    BY <2>15, <2>d DEF ReturnWrite, diskVars, memVars, NothingSaved, Contents
  <2>16. ASSUME NEW t \in Threads, LockShared(t)
        PROVE  Mirror'
    BY <2>16, <2>e DEF LockShared, diskVars, memVars, localVars
  <2>17. ASSUME NEW t \in Threads, EnsureLoaded(t)
        PROVE  Mirror'
    <3>a. \A u \in Threads : pc'[u] \notin HasStore
      BY <2>17, <2>e DEF EnsureLoaded
    <3>b. /\ loaded' = TRUE
          /\ UNCHANGED <<saved, disk, onDisk, inPlace>>
      BY <2>17 DEF EnsureLoaded, diskVars, localVars
    <3>1. CASE loaded
      <4>1. loadFailed' = loadFailed /\ store' = store /\ index' = index
        BY <2>17, <3>1 DEF EnsureLoaded
      <4>2. QED
        BY <2>e, <3>1, <3>a, <3>b, <4>1, <2>17 DEF EnsureLoaded
    <3>2. CASE ~loaded /\ Readable(disk)
      <4>1. loadFailed' = FALSE /\ store' = disk /\ index' = disk
        BY <2>17, <2>f, <3>2 DEF EnsureLoaded
      <4>2. QED
        BY <2>f, <3>2, <3>a, <3>b, <4>1
    <3>3. CASE ~loaded /\ ~Readable(disk)
      <4>1. loadFailed' = TRUE /\ store' = store
        BY <2>17, <3>3 DEF EnsureLoaded
      <4>2. QED
        BY <2>h, <3>3, <3>a, <3>b, <4>1
    <3>4. QED
      BY <3>1, <3>2, <3>3
  <2>18. ASSUME NEW t \in Threads, Relock(t)
        PROVE  Mirror'
    BY <2>18, <2>e DEF Relock, diskVars, memVars, localVars
  <2>19. ASSUME NEW t \in Threads, Read(t)
        PROVE  Mirror'
    BY <2>19 DEF Read, diskVars, memVars, localVars
  <2>20. ASSUME NEW t \in Threads, BeginWrite(t)
        PROVE  Mirror'
    BY <2>20 DEF BeginWrite, diskVars, memVars
  <2>21. ASSUME NEW t \in Threads, BeginRead(t)
        PROVE  Mirror'
    BY <2>21 DEF BeginRead, diskVars, memVars, localVars
  <2>22. ASSUME NEW w \in Foreign, ForeignCommit(w)
        PROVE  Mirror'
    <3>1. disk \cup {w} \in Contents /\ ContentOf(disk) = disk
      BY <2>22, <2>f DEF ForeignCommit, ForeignMayWrite, Contents
    <3>2. QED
      BY <2>22, <3>1 DEF ForeignCommit, Commit, memVars, localVars
  <2>23. ASSUME NEW w \in Foreign, ForeignTruncate(w) \/ ForeignFill(w) \/ ForeignFillFails(w)
        PROVE  Mirror'
    BY <2>23 DEF ForeignTruncate, ForeignFill, ForeignFillFails, Faithful
  <2>24. CASE ForeignLock \/ ForeignUnlock
    BY <2>24 DEF ForeignLock, ForeignUnlock, diskVars, memVars, localVars
  <2>25. CASE Damage
    <3>1. {Corrupt} \notin Contents
      BY DEF Contents
    <3>2. QED
      BY <2>25, <3>1 DEF Damage, Commit, memVars, localVars
  <2>26. CASE Repair
    BY <2>26 DEF Repair, Commit, memVars, localVars
  <2>27. CASE Crash
    BY <2>27 DEF Crash, NothingSaved, Contents
  <2>28. CASE UNCHANGED <<config, vars>>
    BY <2>28 DEF vars, diskVars, memVars, localVars
  <2>29. QED
    BY <2>1, <2>2, <2>3, <2>4, <2>5, <2>6, <2>7, <2>8, <2>9, <2>10, <2>11, <2>12, <2>13, <2>14,
       <2>15, <2>16, <2>17, <2>18, <2>19, <2>20, <2>21, <2>22, <2>23, <2>24, <2>25, <2>26,
       <2>27, <2>28 DEF Next, WriteStep, ReadStep, Environment
<1>3. QED
  BY <1>1, <1>2, LocksInvariant, PTL DEF Spec

-----------------------------------------------------------------------------
\* A reader that reports no error answers from a store that is, whole, a
\* content the file has had, through the index made for it, whatever writers
\* reload, roll back or fail meanwhile.
THEOREM AnswersAreWholeAlways == Spec => []AnswersAreWhole
<1>1. LocksInv /\ MirrorInv => AnswersAreWhole
  <2> SUFFICES ASSUME LocksInv, MirrorInv, Faithful, NEW t \in Threads, Answers(t)
               PROVE  loaded /\ store \in onDisk /\ index = store
    BY DEF AnswersAreWhole, AnswersComeFromFile, Faithful
  <2>1. excl = None
    BY DEF LocksInv, Answers
  <2>2. \A u \in Threads : pc[u] # "persist"
    BY <2>1, EngineAssumption DEF LocksInv, HasStore
  <2>3. QED
    BY <2>2 DEF MirrorInv, Mirror, Answers
<1>2. QED
  BY <1>1, LocksInvariant, MirrorInvariant, PTL

\* At every moment, a crash between any two steps of writeFileAtomic()
\* included, the data file is complete while rename() works.
THEOREM FileIsWhole == Spec => []FileAlwaysWhole
<1>1. MirrorInv => FileAlwaysWhole
  BY DEF MirrorInv, Mirror, FileAlwaysWhole, Faithful, FailureFlagSafe, Damaged
<1>2. QED
  BY <1>1, MirrorInvariant, PTL
-----------------------------------------------------------------------------
(***************************************************************************)
(* While nobody goes on without the file lock, memory is never behind the  *)
(* writes of this process, and a write only adds to what was published.    *)
(***************************************************************************)
Done(t) == pc[t] \in {"funlock", "return"} /\ status[write[t]] = "ok"
Own == Committed \cap Writes
Mine ==
  /\ loaded /\ ~loadFailed => Own \subseteq store
  /\ \A t \in Threads : Mid(t) /\ ~Damaged /\ saved.loaded => Own \subseteq saved.store
  /\ \A t \in Threads : Done(t) =>
       /\ loaded /\ ~loadFailed
       /\ ~Damaged /\ saved.loaded => saved.store \in onDisk /\ saved.store \subseteq store
Locked == Faithful /\ LockIsKept
MineInv == Locked => Mine

LEMMA MineInvariant == Spec => []MineInv
<1> USE EngineAssumption DEF Mine, Mid, Done, Damaged
<1>1. Init => MineInv
  BY DEF Init, MineInv
<1>2. LocksInv /\ CommittedInv /\ DurableInv /\ MirrorInv /\ MineInv /\ [Next]_<<config, vars>>
        => MineInv'
  <2> SUFFICES ASSUME LocksInv, CommittedInv, DurableInv, MirrorInv, MineInv,
                      [Next]_<<config, vars>>, Locked'
               PROVE  Mine'
    BY DEF MineInv
  <2>a. config' = config
    BY DEF Next
  <2>b. Locked /\ Mine /\ Mirror /\ Durable
    BY <2>a DEF MineInv, MirrorInv, DurableInv, Locked, Faithful, FailureFlagSafe, LockIsKept,
                Kept, NothingErased
  <2>c. Damaged' = Damaged
    BY <2>a
  <2>d. \A t, u \in Threads : pc[t] \in HasStore /\ pc[u] \in HasStore => t = u
    BY DEF LocksInv
  <2>e. \A t \in Threads : excl = None => pc[t] \notin HasStore
    BY DEF LocksInv
  <2>f. Readable(disk) => ContentOf(disk) = disk /\ Committed \subseteq disk
    BY <2>b DEF Readable, Contents, ContentOf, Mirror, Durable
  <2>g. /\ pc \in [Threads -> PC] /\ write \in [Threads -> Writes \cup {None}]
        /\ status \in [Writes \cup Foreign -> {"new", "run", "ok", "failed"}]
    BY DEF LocksInv
  <2>h. ~Readable(disk) => Damaged
    BY <2>b DEF Readable, Contents, Mirror
  <2>i. UNCHANGED status => Own' = Own
    BY DEF Own, Committed
  <2> USE <2>a, <2>b, <2>c, <2>g DEF HasStore, Move
  <2>1. ASSUME NEW t \in Threads, LockWriter(t)
        PROVE  Mine'
    BY <2>1, <2>i DEF LockWriter, diskVars, memVars, localVars
  <2>2. ASSUME NEW t \in Threads, LockFile(t)
        PROVE  Mine'
    BY <2>2, <2>i DEF LockFile, diskVars, memVars
  <2>3. ASSUME NEW t \in Threads, TimeOut(t) \/ RefuseWrite(t) \/ ProceedUnlocked(t)
        PROVE  Mine'
    BY <2>3 DEF TimeOut, RefuseWrite, ProceedUnlocked, Locked, LockIsKept, Durable
  <2>4. ASSUME NEW t \in Threads, LockStore(t)
        PROVE  Mine'
    BY <2>4, <2>i DEF LockStore, diskVars, memVars, localVars
  <2>5. ASSUME NEW t \in Threads, ReloadFails(t)
        PROVE  Mine'
    <3>1. Own' = Own /\ status'[write[t]] = "failed"
      <4>1. /\ pc[t] \in UnderWay /\ write[t] \in Writes
            /\ status' = [status EXCEPT ![write[t]] = "failed"]
        BY <2>5 DEF ReloadFails, UnderWay, LocksInv, WriterPC
      <4>2. Committed' = Committed
        BY <4>1, Answered
      <4>3. QED
        BY <4>1, <4>2 DEF Own
    <3>2. \A u \in Threads : u # t => pc[u] \notin HasStore
      BY <2>5, <2>d DEF ReloadFails
    <3>3. loaded' = loaded /\ store' = store /\ (loaded => loadFailed' = loadFailed)
      BY <2>5 DEF ReloadFails, Mirror
    <3>4. QED
      BY <2>5, <3>1, <3>2, <3>3 DEF ReloadFails, diskVars, localVars
  <2>6. ASSUME NEW t \in Threads, Reload(t)
        PROVE  Mine'
    <3>1. store' = disk /\ Own' = Own /\ Own \subseteq disk
      BY <2>6, <2>f, <2>i DEF Reload, Publish, Own
    <3>2. \A u \in Threads : u # t => pc[u] \notin HasStore
      BY <2>6, <2>d DEF Reload, Publish
    <3>3. saved'.loaded = loaded /\ saved'.store = store
      BY <2>6 DEF Reload, Publish
    <3>4. ~Damaged => ~loadFailed
      BY DEF Mirror
    <3>5. QED
      BY <2>6, <3>1, <3>2, <3>3, <3>4 DEF Reload, Publish, diskVars
  <2>7. ASSUME NEW t \in Threads, Modify(t)
        PROVE  Mine'
    <3>1. \A u \in Threads : u # t => pc[u] \notin HasStore
      BY <2>7, <2>d DEF Modify
    <3>2. QED
      BY <2>7, <2>i, <3>1 DEF Modify, diskVars, localVars
  <2>8. ASSUME NEW t \in Threads, ModifyFails(t) \/ TempFails(t)
        PROVE  Mine'
    <3>1. ~Damaged
      BY <2>8 DEF ModifyFails, TempFails, Locked, Faithful, FailureFlagSafe
    <3>2. \A u \in Threads : u # t => pc[u] \notin HasStore
      BY <2>8, <2>d DEF ModifyFails, TempFails
    <3>3. Own' = Own /\ status'[write[t]] = "failed"
      <4>1. /\ pc[t] \in UnderWay /\ write[t] \in Writes
            /\ status' = [status EXCEPT ![write[t]] = "failed"]
        BY <2>8 DEF ModifyFails, TempFails, UnderWay, LocksInv, WriterPC
      <4>2. Committed' = Committed
        BY <4>1, Answered
      <4>3. QED
        BY <4>1, <4>2 DEF Own
    <3>4. Mid(t) /\ pc' = [pc EXCEPT ![t] = "funlock"]
      BY <2>8 DEF ModifyFails, TempFails
    <3>5. /\ store' = saved.store /\ loaded' = saved.loaded /\ loadFailed' = loadFailed
          /\ UNCHANGED <<write, saved, onDisk>>
      BY <2>8 DEF ModifyFails, TempFails, Rollback, RollbackTo, diskVars, localVars
    <3>6. QED
      BY <3>1, <3>2, <3>3, <3>4, <3>5
  <2>9. ASSUME NEW t \in Threads, Rename(t)
        PROVE  Mine'
    <3>1. Committed \cup {write[t]} \subseteq store /\ saved.store \subseteq store
      BY <2>9 DEF Rename, Durable, Unfinished, CommittedInv
    <3>2. Own' \subseteq store
      BY <2>9, <3>1, Answered DEF Rename, Own, Committed
    <3>3. \A u \in Threads : u # t => pc[u] \notin HasStore
      BY <2>9, <2>d DEF Rename
    <3>4. QED
      BY <2>9, <3>1, <3>2, <3>3 DEF Rename, Commit, memVars, localVars, Mirror
  <2>10. ASSUME NEW t \in Threads, Truncate(t) \/ Fill(t) \/ FillFails(t)
        PROVE  Mine'
    BY <2>10 DEF Truncate, Fill, FillFails, Mirror, Locked, Faithful
  <2>11. ASSUME NEW t \in Threads, UnlockFile(t)
        PROVE  Mine'
    BY <2>11, <2>i DEF UnlockFile, diskVars, memVars
  <2>12. ASSUME NEW t \in Threads, ReturnWrite(t)
        PROVE  Mine'
    BY <2>12, <2>d, <2>i DEF ReturnWrite, diskVars, memVars
  <2>13. ASSUME NEW t \in Threads, LockShared(t)
        PROVE  Mine'
    BY <2>13, <2>e, <2>i DEF LockShared, diskVars, memVars, localVars
  <2>14. ASSUME NEW t \in Threads, EnsureLoaded(t)
        PROVE  Mine'
    <3>1. \A u \in Threads : pc'[u] \notin HasStore
      BY <2>14, <2>e DEF EnsureLoaded
    <3>2. Own' = Own
      BY <2>14, <2>i DEF EnsureLoaded
    <3>3. CASE loaded
      BY <2>14, <3>1, <3>2, <3>3 DEF EnsureLoaded
    <3>4. CASE ~loaded /\ Readable(disk)
      BY <2>14, <2>f, <3>1, <3>2, <3>4 DEF EnsureLoaded, Own
    <3>5. CASE ~loaded /\ ~Readable(disk)
      BY <2>14, <3>1, <3>5 DEF EnsureLoaded
    <3>6. QED
      BY <3>3, <3>4, <3>5
  <2>15. ASSUME NEW t \in Threads, Relock(t) \/ Read(t) \/ BeginRead(t)
        PROVE  Mine'
    BY <2>15, <2>i DEF Relock, Read, BeginRead, diskVars, memVars, localVars
  <2>16. ASSUME NEW t \in Threads, BeginWrite(t)
        PROVE  Mine'
    <3>1. Own' = Own
      BY <2>16 DEF BeginWrite, Own, Committed
    <3>2. QED
      BY <2>16, <3>1 DEF BeginWrite, diskVars, memVars
  <2>17. ASSUME NEW w \in Foreign, ForeignCommit(w)
        PROVE  Mine'
    <3>1. Own' = Own
      BY <2>17 DEF ForeignCommit, Own, Committed
    <3>2. onDisk \subseteq onDisk'
      BY <2>17 DEF ForeignCommit, Commit
    <3>3. \A t \in Threads : write[t] # None => write[t] # w
      OBVIOUS
    <3>4. \A t \in Threads : Done(t)' => Done(t)
      BY <2>17, <3>3 DEF ForeignCommit, localVars, LocksInv, WriterPC
    <3>5. QED
      BY <2>17, <3>1, <3>2, <3>4 DEF ForeignCommit, memVars, localVars
  <2>18. ASSUME NEW w \in Foreign, ForeignTruncate(w) \/ ForeignFill(w) \/ ForeignFillFails(w)
        PROVE  Mine'
    BY <2>18 DEF ForeignTruncate, ForeignFill, ForeignFillFails, Locked, Faithful, Mirror
  <2>19. CASE ForeignLock \/ ForeignUnlock
    BY <2>19, <2>i DEF ForeignLock, ForeignUnlock, diskVars, memVars, localVars
  <2>20. CASE Damage
    BY <2>20, <2>i DEF Damage, Commit, memVars, localVars
  <2>21. CASE Repair
    BY <2>21, <2>i DEF Repair, Commit, memVars, localVars
  <2>22. CASE Crash
    BY <2>22 DEF Crash
  <2>23. CASE UNCHANGED <<config, vars>>
    BY <2>23, <2>i DEF vars, diskVars, memVars, localVars
  <2>24. QED
    BY <2>1, <2>2, <2>3, <2>4, <2>5, <2>6, <2>7, <2>8, <2>9, <2>10, <2>11, <2>12, <2>13, <2>14,
       <2>15, <2>16, <2>17, <2>18, <2>19, <2>20, <2>21, <2>22, <2>23
       DEF Next, WriteStep, ReadStep, Environment
<1>3. QED
  BY <1>1, <1>2, LocksInvariant, CommittedInvariant, DurableInvariant, MirrorInvariant, PTL DEF Spec

\* A process reads its own successful writes, also after a failed write of
\* another thread was rolled back, and after a restart.
THEOREM OwnWritesAreRead == Spec => []ReadYourWrites
<1>1. MirrorInv /\ MineInv => ReadYourWrites
  <2> SUFFICES ASSUME MirrorInv, MineInv, Locked, NEW t \in Threads, Answers(t)
               PROVE  Committed \cap Writes \subseteq store
    BY DEF ReadYourWrites, Locked, Faithful
  <2>1. loaded /\ ~loadFailed
    BY DEF MirrorInv, Mirror, Answers, Locked
  <2>2. QED
    BY <2>1 DEF MineInv, Mine, Own
<1>2. QED
  BY <1>1, MirrorInvariant, MineInvariant, PTL
-----------------------------------------------------------------------------
(***************************************************************************)
(* The refinement: what each step does to the view of the readers.         *)
(***************************************************************************)
Front == IF loaded THEN store ELSE None
Behind == IF saved.loaded THEN saved.store ELSE None

ViewIs ==
  /\ Publishing => View = Behind
  /\ ~Publishing => View = Front
  /\ Publishing <=> \E t \in Threads : Mid(t) \/ Done(t)
  /\ excl = None => ~Publishing

LEMMA ViewInvariant == Spec => []ViewIs
<1>1. LocksInv => ViewIs
  <2> SUFFICES ASSUME LocksInv
               PROVE  ViewIs
    OBVIOUS
  <2>1. Publishing => View = Behind
    BY DEF View, Behind
  <2>2. ~Publishing => View = Front
    BY DEF View, Front
  <2>3. ASSUME Publishing
        PROVE  \E t \in Threads : Mid(t) \/ Done(t)
    <3>1. excl \in Threads /\ pc[excl] \in HasStore
      BY <2>3 DEF Publishing, LocksInv
    <3>2. CASE pc[excl] \in {"modify", "persist"}
      BY <3>1, <3>2 DEF Mid
    <3>3. CASE status[write[excl]] = "ok"
      <4>1. pc[excl] \notin UnderWay
        BY <3>1, <3>3 DEF LocksInv
      <4>2. QED
        BY <3>1, <3>3, <4>1 DEF UnderWay, HasStore, Done
    <3>4. QED
      BY <2>3, <3>2, <3>3 DEF Publishing
  <2>4. ASSUME NEW t \in Threads, Mid(t) \/ Done(t)
        PROVE  Publishing
    <3>1. excl = t
      BY <2>4 DEF LocksInv, HasStore, Mid, Done
    <3>2. QED
      BY <2>4, <3>1, EngineAssumption DEF Publishing, Mid, Done
  <2>5. excl = None => ~Publishing
    BY DEF Publishing
  <2>6. QED
    BY <2>1, <2>2, <2>3, <2>4, <2>5 DEF ViewIs
<1>2. QED
  BY <1>1, LocksInvariant, PTL

\* The engine implements the atomic store: a write takes effect, for every
\* process at once, in the one step of rename(), and what the readers of this
\* process see is always a value the store has had and never goes back.
THEOREM EngineIsAtomicStore == Spec => ImplementsStore
<1> USE EngineAssumption
<1>1. Init => (Atomic => Store!Init)
  <2> SUFFICES ASSUME Init
               PROVE  Store!Init
    OBVIOUS
  <2>1. ~Publishing /\ loaded = FALSE
    BY DEF Init, Publishing
  <2>2. View = None
    BY <2>1 DEF View
  <2>3. QED
    BY <2>2 DEF Init, Store!Init
<1>2. LocksInv /\ CommittedInv /\ DurableInv /\ MirrorInv /\ MirrorInv' /\ MineInv
        /\ ViewIs /\ ViewIs' /\ [Next]_<<config, vars>>
        => [Atomic => Store!Next]_<<disk, onDisk, View>>
  <2> SUFFICES ASSUME LocksInv, CommittedInv, DurableInv, MirrorInv, MirrorInv', MineInv,
                      ViewIs, ViewIs', [Next]_<<config, vars>>, Atomic
               PROVE  [Store!Next]_<<disk, onDisk, View>>
    OBVIOUS
  <2>a. config' = config
    BY DEF Next
  <2>b. Mirror /\ Durable /\ Mine /\ ~Damaged /\ ~loadFailed
    BY DEF Atomic, Faithful, FailureFlagSafe, Damaged, MirrorInv, MineInv, DurableInv, Locked,
           LockIsKept, Kept, NothingErased, Mirror
  <2>c. Mirror'
    BY <2>a DEF Atomic, Faithful, FailureFlagSafe, MirrorInv
  <2>d. disk \in Contents /\ disk \in onDisk /\ Readable(disk) /\ ContentOf(disk) = disk
    BY <2>b DEF Mirror, Readable, ContentOf, Contents
  <2>e. disk = Committed
    BY <2>b, <2>d, Marks DEF CommittedInv, Durable
  <2>f. ASSUME View' = None, UNCHANGED <<disk, onDisk>>
        PROVE  [Store!Next]_<<disk, onDisk, View>>
    BY <2>f DEF Store!Next, Store!Restart
  <2>g. ASSUME View' \in onDisk, View # None => View \subseteq View', UNCHANGED <<disk, onDisk>>
        PROVE  [Store!Next]_<<disk, onDisk, View>>
    BY <2>g DEF Store!Next, Store!Look
  <2>h. ASSUME NEW w \in Writes \cup Foreign, w \notin disk, disk' = disk \cup {w},
               onDisk' = onDisk \cup {disk'}, View' = View
        PROVE  [Store!Next]_<<disk, onDisk, View>>
    BY <2>h DEF Store!Next, Store!Update
  <2>i. ASSUME \A u \in Threads : (Mid(u) \/ Done(u))' <=> (Mid(u) \/ Done(u)),
               UNCHANGED saved, Publishing \/ UNCHANGED <<store, loaded>>
        PROVE  View' = View
    <3>1. Publishing' <=> Publishing
      BY <2>i DEF ViewIs
    <3>2. CASE Publishing
      BY <2>i, <3>1, <3>2 DEF ViewIs, Behind
    <3>3. CASE ~Publishing
      BY <2>i, <3>1, <3>3 DEF ViewIs, Front
    <3>4. QED
      BY <3>2, <3>3
  <2>j. \A t, u \in Threads : pc[t] \in HasStore /\ pc[u] \in HasStore => t = u
    BY DEF LocksInv
  <2>k. /\ pc \in [Threads -> PC] /\ write \in [Threads -> Writes \cup {None}]
        /\ status \in [Writes \cup Foreign -> {"new", "run", "ok", "failed"}]
    BY DEF LocksInv
  <2> USE <2>k DEF Move, HasStore
  <2>1. ASSUME NEW t \in Threads, LockWriter(t) \/ LockFile(t)
        PROVE  UNCHANGED <<disk, onDisk, View>>
    BY <2>1, <2>i DEF LockWriter, LockFile, diskVars, memVars, localVars, Mid, Done
  <2>2. ASSUME NEW t \in Threads, TimeOut(t) \/ RefuseWrite(t) \/ ProceedUnlocked(t)
        PROVE  FALSE
    BY <2>2, <2>b DEF TimeOut, RefuseWrite, ProceedUnlocked, Atomic, LockIsKept, Durable
  <2>3. ASSUME NEW t \in Threads, LockStore(t)
        PROVE  UNCHANGED <<disk, onDisk, View>>
    <3>1. ~Done(t)' /\ ~Mid(t)'
      BY <2>3 DEF LockStore, Mid, Done
    <3>2. QED
      BY <2>3, <2>i, <3>1 DEF LockStore, diskVars, memVars, localVars, Mid, Done
  <2>4. ASSUME NEW t \in Threads, ReloadFails(t)
        PROVE  FALSE
    BY <2>4, <2>d DEF ReloadFails
  <2>5. ASSUME NEW t \in Threads, Reload(t)
        PROVE  UNCHANGED <<disk, onDisk, View>>
    <3>1. Mid(t)' /\ ~Mid(t) /\ ~Done(t)
      BY <2>5 DEF Reload, Publish, Mid, Done
    <3>2. \A u \in Threads : u # t => ~Mid(u) /\ ~Done(u)
      BY <2>5, <2>j DEF Reload, Publish, Mid, Done
    <3>3. Publishing' /\ ~Publishing
      BY <3>1, <3>2 DEF ViewIs
    <3>4. saved'.loaded = loaded /\ saved'.store = store
      BY <2>5 DEF Reload, Publish
    <3>5. View' = View
      BY <3>3, <3>4 DEF ViewIs, Front, Behind
    <3>6. QED
      BY <2>5, <3>5 DEF Reload, Publish, diskVars
  <2>6. ASSUME NEW t \in Threads, Modify(t)
        PROVE  UNCHANGED <<disk, onDisk, View>>
    <3>1. Publishing
      BY <2>6 DEF Modify, ViewIs, Mid
    <3>2. QED
      BY <2>6, <3>1, <2>i DEF Modify, diskVars, localVars, Mid, Done
  <2>7. ASSUME NEW t \in Threads, ModifyFails(t) \/ TempFails(t)
        PROVE  UNCHANGED <<disk, onDisk, View>>
    <3>1. Publishing
      BY <2>7 DEF ModifyFails, TempFails, ViewIs, Mid
    <3>2. write[t] \in Writes
      BY <2>7 DEF ModifyFails, TempFails, LocksInv, WriterPC
    <3>3. ~Mid(t)' /\ ~Done(t)'
      BY <2>7, <3>2 DEF ModifyFails, TempFails, Mid, Done, localVars
    <3>4. \A u \in Threads : u # t => ~Mid(u)' /\ ~Done(u)'
      BY <2>7, <2>j DEF ModifyFails, TempFails, Mid, Done
    <3>5. ~Publishing'
      BY <3>3, <3>4 DEF ViewIs
    <3>6. store' = saved.store /\ loaded' = saved.loaded
      BY <2>7 DEF ModifyFails, TempFails, Rollback, RollbackTo
    <3>7. View' = View
      BY <3>1, <3>5, <3>6 DEF ViewIs, Front, Behind
    <3>8. QED
      BY <2>7, <3>7 DEF ModifyFails, TempFails, diskVars
  <2>8. ASSUME NEW t \in Threads, Rename(t)
        PROVE  [Store!Next]_<<disk, onDisk, View>>
    <3>1. write[t] \in Writes /\ status[write[t]] = "run"
      BY <2>8 DEF Rename, LocksInv, WriterPC, UnderWay
    <3>2. write[t] \notin disk
      BY <2>e, <3>1 DEF Committed
    <3>3. disk \cup {write[t]} = store
      BY <2>8, <2>b, <2>e DEF Rename, Durable, Unfinished, CommittedInv
    <3>4. disk' = disk \cup {write[t]} /\ onDisk' = onDisk \cup {disk'}
      BY <2>8, <2>b, <3>3 DEF Rename, Commit, Mirror
    <3>5. Mid(t) /\ Done(t)'
      BY <2>8, <3>1 DEF Rename, Mid, Done, localVars
    <3>6. \A u \in Threads : u # t => (Mid(u) \/ Done(u))' = FALSE /\ ~Mid(u) /\ ~Done(u)
      BY <2>8, <2>j DEF Rename, Mid, Done
    <3>7. View' = View
      BY <2>8, <2>i, <3>5, <3>6 DEF Rename, localVars, memVars
    <3>8. QED
      BY <2>h, <3>1, <3>2, <3>4, <3>7
  <2>9. ASSUME NEW t \in Threads, Truncate(t) \/ Fill(t) \/ FillFails(t)
        PROVE  FALSE
    BY <2>9, <2>b DEF Truncate, Fill, FillFails, Mirror, Atomic
  <2>10. ASSUME NEW t \in Threads, UnlockFile(t)
        PROVE  UNCHANGED <<disk, onDisk, View>>
    BY <2>10, <2>i DEF UnlockFile, diskVars, memVars, Mid, Done
  <2>11. ASSUME NEW t \in Threads, ReturnWrite(t)
        PROVE  [Store!Next]_<<disk, onDisk, View>>
    <3>1. \A u \in Threads : u # t => ~Mid(u) /\ ~Done(u)
      BY <2>11, <2>j DEF ReturnWrite, Mid, Done
    <3>2. ~Publishing' /\ ~Mid(t)
      BY <2>11 DEF ReturnWrite, ViewIs, Mid
    <3>3. View' = Front
      BY <2>11, <3>2 DEF ReturnWrite, ViewIs, Front, memVars
    <3>4. UNCHANGED <<disk, onDisk>>
      BY <2>11 DEF ReturnWrite, diskVars
    <3>5. CASE Done(t)
      <4>1. Publishing /\ View = Behind
        BY <3>5 DEF ViewIs
      <4>2. loaded /\ (saved.loaded => saved.store \subseteq store)
        BY <2>b, <3>5 DEF Mine
      <4>3. store \in onDisk
        BY <2>11, <2>b, <2>j, <4>2 DEF ReturnWrite, Mirror
      <4>4. View' = store /\ (View # None => View \subseteq store)
        BY <3>3, <4>1, <4>2 DEF Front, Behind
      <4>5. QED
        BY <2>g, <3>4, <4>3, <4>4
    <3>6. CASE ~Done(t)
      <4>1. ~Publishing
        BY <3>1, <3>2, <3>6 DEF ViewIs
      <4>2. View = Front
        BY <4>1 DEF ViewIs
      <4>3. QED
        BY <3>3, <3>4, <4>2
    <3>7. QED
      BY <3>5, <3>6
  <2>12. ASSUME NEW t \in Threads, LockShared(t) \/ Relock(t) \/ Read(t) \/ BeginRead(t)
        PROVE  UNCHANGED <<disk, onDisk, View>>
    BY <2>12, <2>i DEF LockShared, Relock, Read, BeginRead, diskVars, memVars, localVars, Mid, Done
  <2>13. ASSUME NEW t \in Threads, EnsureLoaded(t)
        PROVE  [Store!Next]_<<disk, onDisk, View>>
    <3>1. ~Publishing /\ excl' = None
      BY <2>13, EngineAssumption DEF EnsureLoaded, ViewIs, mutexVars
    <3>2. ~Publishing' /\ View = Front /\ View' = Front'
      BY <3>1 DEF ViewIs
    <3>3. UNCHANGED <<disk, onDisk>>
      BY <2>13 DEF EnsureLoaded, diskVars
    <3>4. CASE loaded
      <4>1. UNCHANGED <<store, loaded>>
        BY <2>13, <3>4, <2>b DEF EnsureLoaded, Mirror
      <4>2. QED
        BY <3>2, <3>3, <4>1 DEF Front
    <3>5. CASE ~loaded
      <4>1. View = None /\ loaded' /\ store' = disk
        BY <2>13, <2>d, <3>2, <3>5 DEF EnsureLoaded, Front
      <4>2. QED
        BY <2>d, <2>g, <3>2, <3>3, <4>1 DEF Front
    <3>6. QED
      BY <3>4, <3>5
  <2>14. ASSUME NEW t \in Threads, BeginWrite(t)
        PROVE  UNCHANGED <<disk, onDisk, View>>
    <3>1. PICK w \in Writes : /\ status[w] = "new" /\ status' = [status EXCEPT ![w] = "run"]
                              /\ write' = [write EXCEPT ![t] = w]
      BY <2>14 DEF BeginWrite
    <3>2. pc[t] = "idle" /\ pc' = [pc EXCEPT ![t] = "wmutex"]
      BY <2>14 DEF BeginWrite
    <3>3. \A u \in Threads : u # t => write'[u] = write[u] /\ write[u] # w
      BY <3>1, EngineAssumption DEF LocksInv
    <3>4. \A u \in Threads : (Mid(u) \/ Done(u))' <=> (Mid(u) \/ Done(u))
      BY <3>1, <3>2, <3>3 DEF Mid, Done
    <3>5. QED
      BY <2>14, <2>i, <3>4 DEF BeginWrite, diskVars, memVars
  <2>15. ASSUME NEW w \in Foreign, ForeignCommit(w)
        PROVE  [Store!Next]_<<disk, onDisk, View>>
    <3>1. w \notin disk
      BY <2>15, <2>e DEF ForeignCommit, ForeignMayWrite, Committed
    <3>2. disk \cup {w} \in Contents
      BY <2>d DEF Contents
    <3>3. disk' = disk \cup {w} /\ onDisk' = onDisk \cup {disk'}
      BY <2>15, <2>d, <3>2 DEF ForeignCommit, Commit
    <3>4. \A u \in Threads : write[u] # None => write[u] # w /\ write[u] \in Writes
      OBVIOUS
    <3>5. \A u \in Threads : (Mid(u) \/ Done(u))' <=> (Mid(u) \/ Done(u))
      BY <2>15, <3>4 DEF ForeignCommit, localVars, Mid, Done, LocksInv, WriterPC
    <3>6. View' = View
      BY <2>15, <2>i, <3>5 DEF ForeignCommit, localVars, memVars
    <3>7. QED
      BY <2>h, <3>1, <3>3, <3>6
  <2>16. ASSUME NEW w \in Foreign, ForeignTruncate(w) \/ ForeignFill(w) \/ ForeignFillFails(w)
        PROVE  FALSE
    BY <2>16, <2>b DEF ForeignTruncate, ForeignFill, ForeignFillFails, Atomic, Mirror
  <2>17. CASE ForeignLock \/ ForeignUnlock
    BY <2>17, <2>i DEF ForeignLock, ForeignUnlock, diskVars, memVars, localVars, Mid, Done
  <2>18. CASE Damage \/ Repair
    BY <2>18, <2>d, Marks DEF Damage, Repair, Atomic
  <2>19. CASE Crash
    <3>1. ~Publishing' /\ loaded' = FALSE /\ UNCHANGED <<disk, onDisk>>
      BY <2>19 DEF Crash, ViewIs
    <3>2. View' = None
      BY <3>1 DEF ViewIs, Front
    <3>3. QED
      BY <2>f, <3>1, <3>2
  <2>20. CASE UNCHANGED <<config, vars>>
    BY <2>20, <2>i DEF vars, diskVars, memVars, localVars, Mid, Done
  <2>21. QED
    BY <2>1, <2>2, <2>3, <2>4, <2>5, <2>6, <2>7, <2>8, <2>9, <2>10, <2>11, <2>12, <2>13, <2>14,
       <2>15, <2>16, <2>17, <2>18, <2>19, <2>20 DEF Next, WriteStep, ReadStep, Environment
<1>3. QED
  BY <1>1, <1>2, LocksInvariant, CommittedInvariant, DurableInvariant, MirrorInvariant,
     MineInvariant, ViewInvariant, PTL DEF Spec, ImplementsStore
=============================================================================
