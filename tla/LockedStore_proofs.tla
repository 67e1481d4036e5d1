-------------------------- MODULE LockedStore_proofs --------------------------
(***************************************************************************)
(* Nobody takes a lock that another one holds while no reclaim is due, and *)
(* no process then overwrites what another one was told is saved, for any  *)
(* number of processes and lock objects.                                   *)
(***************************************************************************)
EXTENDS LockedStore, TLAPS

\* From the moment its open() created the file until its unlink.
Holding(l) == pc[l] \in {"write", "held", "check", "unlink"}

(***************************************************************************)
(* MutualExclusion alone is not inductive: a second Create is excluded     *)
(* because the file of a holder is still there and was created by it, and  *)
(* it is still there because nobody judged it stale.                       *)
(***************************************************************************)
CalmInv ==
  /\ file \in LockFile \cup {NoFile}
  /\ pc \in [Lockers -> PC]
  /\ seen \in [Lockers -> LockFile \cup {NoFile}]
  /\ file # NoFile => ~file.aged
  /\ \A l \in Lockers : seen[l] # NoFile => ~seen[l].aged
  /\ \A l \in Lockers : pc[l] # "remove"
  /\ \A l \in Lockers : Holding(l) => file # NoFile /\ file.by = l

LockInv ==
  /\ alive \subseteq Procs
  /\ Calm => CalmInv

\* The lock protocol keeps that invariant, in this module's specification and in
\* every one whose steps are its steps.
LEMMA LockInvariant == Spec => []LockInv
<1>1. Init => LockInv
  BY DEF Init, LockInv, CalmInv, Holding, PC
<1>2. LockInv /\ [Next]_<<config, lockVars>> => LockInv'
  <2> SUFFICES ASSUME LockInv, [Next]_<<config, lockVars>>
               PROVE  LockInv'
    OBVIOUS
  <2>0. UNCHANGED config
    BY DEF Next, lockVars
  <2>1. alive' \subseteq alive
    BY DEF Next, Step, TryLock, Create, CreateFails, Write, ReadStamp, JudgeStale, Remove,
       JudgeLive, GiveUp, Unlock, CheckOwner, Unlink, Crash, Age, lockVars
  <2> SUFFICES ASSUME Calm'
               PROVE  CalmInv'
    BY <2>1 DEF LockInv
  <2>2. Calm /\ CalmInv
    BY <2>0, <2>1 DEF LockInv, Calm
  <2>3. \A f \in LockFile : Owner(f) \in Procs
    BY LockAssumption DEF LockFile, Owner
  <2>4. \A l \in Lockers : ~IsStale(l, seen[l])
    BY <2>2, <2>3 DEF Calm, CalmInv, IsStale, LooksDead
  <2>5. ASSUME NEW l \in Lockers, TryLock(l)
        PROVE  CalmInv'
    BY <2>2, <2>5 DEF TryLock, Move, CalmInv, Holding, PC
  <2>6. ASSUME NEW l \in Lockers, Create(l)
        PROVE  CalmInv'
    <3>1. file' = [by |-> l, filled |-> FALSE, aged |-> FALSE]
      BY <2>6 DEF Create
    <3>2. \A m \in Lockers : ~Holding(m)
      BY <2>2, <2>6 DEF Create, CalmInv
    <3>3. file' \in LockFile /\ ~file'.aged /\ file'.by = l
      BY <3>1 DEF LockFile
    <3>4. file' # NoFile
      BY <3>3, LockAssumption
    <3> QED
      BY <2>2, <2>6, <3>2, <3>3, <3>4 DEF Create, Move, CalmInv, Holding, PC
  <2>7. ASSUME NEW l \in Lockers, CreateFails(l)
        PROVE  CalmInv'
    BY <2>2, <2>7 DEF CreateFails, Move, CalmInv, Holding, PC
  <2>8. ASSUME NEW l \in Lockers, Write(l)
        PROVE  CalmInv'
    <3>1. file # NoFile /\ file.by = l /\ file \in LockFile /\ ~file.aged
      BY <2>2, <2>8 DEF Write, Move, CalmInv, Holding
    <3>2. file' = [file EXCEPT !.filled = TRUE]
      BY <2>8, <3>1 DEF Write
    <3>3. file' \in LockFile /\ file'.by = l /\ ~file'.aged
      BY <3>1, <3>2 DEF LockFile
    <3>4. file' # NoFile
      BY <3>3, LockAssumption
    <3> QED
      BY <2>2, <2>8, <3>1, <3>3, <3>4 DEF Write, Move, CalmInv, Holding, PC
  <2>9. ASSUME NEW l \in Lockers, ReadStamp(l)
        PROVE  CalmInv'
    BY <2>2, <2>9 DEF ReadStamp, Move, CalmInv, Holding, PC
  <2>10. ASSUME NEW l \in Lockers, JudgeStale(l) \/ JudgeLive(l) \/ GiveUp(l)
         PROVE  CalmInv'
    BY <2>2, <2>4, <2>10
       DEF JudgeStale, JudgeLive, GiveUp, Forget, Move, CalmInv, Holding, PC
  <2>11. ASSUME NEW l \in Lockers, Remove(l)
         PROVE  CalmInv'
    BY <2>2, <2>11 DEF Remove, Move, CalmInv
  <2>12. ASSUME NEW l \in Lockers, Unlock(l)
         PROVE  CalmInv'
    BY <2>2, <2>12 DEF Unlock, Move, CalmInv, Holding, PC
  <2>13. ASSUME NEW l \in Lockers, CheckOwner(l)
         PROVE  CalmInv'
    BY <2>2, <2>13 DEF CheckOwner, CalmInv, Holding, PC
  <2>14. ASSUME NEW l \in Lockers, Unlink(l)
         PROVE  CalmInv'
    <3>1. \A m \in Lockers : Holding(m) => m = l
      BY <2>2, <2>14 DEF Unlink, Move, CalmInv, Holding
    <3>2. \A m \in Lockers : ~Holding(m)'
      BY <2>2, <2>14, <3>1 DEF Unlink, Move, CalmInv, Holding
    <3> QED
      BY <2>2, <2>14, <3>2 DEF Unlink, Unlinked, Move, CalmInv, PC
  <2>15. ASSUME NEW p \in Procs, Crash(p)
         PROVE  FALSE
    BY <2>15 DEF Crash, Calm
  <2>16. CASE Age
    <3>1. file \in LockFile
      BY <2>2, <2>16 DEF Age, CalmInv
    <3>2. config.slow # {}
      BY <2>2, <2>3, <2>16, <3>1 DEF Age, Calm
    <3> QED
      BY <2>2, <3>2 DEF Calm
  <2>17. CASE UNCHANGED <<config, lockVars>>
    BY <2>2, <2>17 DEF lockVars, CalmInv, Holding
  <2> QED
    BY <2>5, <2>6, <2>7, <2>8, <2>9, <2>10, <2>11, <2>12, <2>13, <2>14, <2>15, <2>16, <2>17
       DEF Next, Step
<1> QED
  BY <1>1, <1>2, PTL DEF Spec

\* With no crash so far, no holder slower than kLockStaleMillis and no process of
\* another user, two lockers never hold the lock at once, however their system
\* calls interleave.
THEOREM LockCalmExclusion == Spec => []CalmMutualExclusion
<1>1. LockInv => CalmMutualExclusion
  BY DEF LockInv, Calm, CalmInv, Holding, CalmMutualExclusion, MutualExclusion
<1> QED
  BY <1>1, LockInvariant, PTL

\* The types of FileLock: no counter of tryLock() passes its limit, and a locker
\* is dead exactly when its process has crashed.
THEOREM LockTypeCorrect == Spec => []TypeOK
<1>1. Init => TypeOK
  BY LockAssumption DEF Init, TypeOK, PC
<1>2. TypeOK /\ [Next]_<<config, lockVars>> => TypeOK'
  <2> SUFFICES ASSUME TypeOK, [Next]_<<config, lockVars>>
               PROVE  TypeOK'
    OBVIOUS
  <2>0. config' \in Configs
    BY DEF Next, lockVars, TypeOK
  <2>1. ASSUME NEW l \in Lockers, TryLock(l) \/ CreateFails(l) \/ Unlock(l)
        PROVE  TypeOK'
    BY <2>0, <2>1 DEF TryLock, CreateFails, Unlock, Move, TypeOK, PC
  <2>2. ASSUME NEW l \in Lockers, Create(l)
        PROVE  TypeOK'
    <3>1. file' \in LockFile
      BY <2>2 DEF Create, LockFile
    <3> QED
      BY <2>0, <2>2, <3>1 DEF Create, Move, TypeOK, PC
  <2>3. ASSUME NEW l \in Lockers, Write(l)
        PROVE  TypeOK'
    <3>1. file' \in LockFile \cup {NoFile}
      BY <2>3 DEF Write, TypeOK, LockFile
    <3> QED
      BY <2>0, <2>3, <3>1, LockAssumption DEF Write, LeaveTryLock, Move, TypeOK, PC
  <2>4. ASSUME NEW l \in Lockers, ReadStamp(l)
        PROVE  TypeOK'
    BY <2>0, <2>4 DEF ReadStamp, Move, TypeOK, PC
  <2>5. ASSUME NEW l \in Lockers, JudgeStale(l)
        PROVE  TypeOK'
    BY <2>0, <2>5, LockAssumption DEF JudgeStale, Forget, Move, TypeOK, PC
  <2>6. ASSUME NEW l \in Lockers, JudgeLive(l)
        PROVE  TypeOK'
    BY <2>0, <2>6, LockAssumption DEF JudgeLive, Forget, Move, TypeOK, PC
  <2>7. ASSUME NEW l \in Lockers, GiveUp(l)
        PROVE  TypeOK'
    BY <2>0, <2>7, LockAssumption DEF GiveUp, LeaveTryLock, Forget, Move, TypeOK, PC
  <2>8. ASSUME NEW l \in Lockers, Remove(l) \/ Unlink(l)
        PROVE  TypeOK'
    BY <2>0, <2>8 DEF Remove, Unlink, Unlinked, Move, TypeOK, PC
  <2>9. ASSUME NEW l \in Lockers, CheckOwner(l)
        PROVE  TypeOK'
    BY <2>0, <2>9 DEF CheckOwner, TypeOK, PC
  <2>10. ASSUME NEW p \in Procs, Crash(p)
         PROVE  TypeOK'
    BY <2>0, <2>10 DEF Crash, TypeOK, PC
  <2>11. CASE Age
    <3>1. file' \in LockFile
      BY <2>11 DEF Age, TypeOK, LockFile
    <3> QED
      BY <2>0, <2>11, <3>1 DEF Age, TypeOK
  <2>12. CASE UNCHANGED <<config, lockVars>>
    BY <2>12 DEF lockVars, TypeOK
  <2> QED
    BY <2>1, <2>2, <2>3, <2>4, <2>5, <2>6, <2>7, <2>8, <2>9, <2>10, <2>11, <2>12
       DEF Next, Step
<1> QED
  BY <1>1, <1>2, PTL DEF Spec

-----------------------------------------------------------------------------
(* The data file behind the lock.                                          *)

(***************************************************************************)
(* AckedWritesSurvive alone is not inductive: a write saves what its copy  *)
(* holds, so the copy must still hold every acknowledged write.  It does   *)
(* because the write has held the lock since it loaded the copy, and       *)
(* whoever else saves would hold the lock too.                             *)
(***************************************************************************)
StoreInv ==
  /\ DOMAIN phase = Lockers /\ DOMAIN copy = Lockers
  /\ Calm /\ ~late =>
       /\ acked \subseteq data
       /\ \A l \in Lockers : phase[l] # "unlocked"
       /\ \A l \in Lockers : phase[l] = "loaded" => pc[l] = "held" /\ acked \subseteq copy[l]

\* Every step of the store is a step of the lock, or leaves the lock alone.
LEMMA StoreStepsAreLockSteps ==
  [StoreNext]_<<config, lockVars, storeVars>> => [Next]_<<config, lockVars>>
<1> SUFFICES ASSUME [StoreNext]_<<config, lockVars, storeVars>>
             PROVE  [Next]_<<config, lockVars>>
  OBVIOUS
<1>0. UNCHANGED config
  BY DEF StoreNext
<1>1. ASSUME NEW l \in Lockers, BeginWrite(l) \/ Locking(l) \/ TimeOut(l) \/ EndWrite(l)
      PROVE  Next
  BY <1>0, <1>1 DEF BeginWrite, Locking, TimeOut, EndWrite, Next, Step
<1>2. ASSUME NEW l \in Lockers, Inspect(l) \/ Load(l) \/ Save(l) \/ EndUnlocked(l)
      PROVE  UNCHANGED <<config, lockVars>>
  BY <1>0, <1>2 DEF Inspect, Load, Save, EndUnlocked
<1>3. ASSUME NEW p \in Procs, StoreCrash(p)
      PROVE  Next
  BY <1>0, <1>3 DEF StoreCrash, Next
<1>4. CASE Age
  BY <1>0, <1>4 DEF Next
<1>5. CASE UNCHANGED <<config, lockVars, storeVars>>
  BY <1>5
<1> QED
  BY <1>1, <1>2, <1>3, <1>4, <1>5 DEF StoreNext, StoreStep

\* What holds of the lock alone holds of the lock under the store.
THEOREM StoreKeepsLockSpec == StoreSpec => Spec
<1>1. StoreInit => Init
  BY DEF StoreInit
<1> QED
  BY <1>1, StoreStepsAreLockSteps, PTL DEF StoreSpec, Spec

\* A locker that holds the lock and reads or writes nothing but lock files goes on
\* holding it.
LEMMA LockingKeepsHolders ==
  ASSUME NEW l \in Lockers, BeginWrite(l) \/ Locking(l) \/ TimeOut(l), pc \in [Lockers -> PC]
  PROVE  \A m \in Lockers : pc[m] = "held" => pc'[m] = "held"
BY DEF BeginWrite, Locking, TimeOut, TryLock, Create, CreateFails, Write, ReadStamp, JudgeStale,
   Remove, JudgeLive, GiveUp, CheckOwner, Unlink, Move

\* While every process is alive, may look at the others and is quick, a write that
\* was acknowledged stays in the file until some write goes on without the lock.
THEOREM AckedWritesAreKept == StoreSpec => []AckedWritesSurvive
<1>1. StoreInit => StoreInv
  BY DEF StoreInit, StoreInv
<1>2. LockInv /\ StoreInv /\ [StoreNext]_<<config, lockVars, storeVars>> => StoreInv'
  <2> SUFFICES ASSUME LockInv, StoreInv, [StoreNext]_<<config, lockVars, storeVars>>
               PROVE  StoreInv'
    OBVIOUS
  <2>1. DOMAIN phase' = Lockers /\ DOMAIN copy' = Lockers
    BY DEF StoreInv, StoreNext, StoreStep, BeginWrite, Locking, TimeOut, Inspect, Load, Save,
       EndWrite, EndUnlocked, Over, StoreCrash, Proceed, storeVars
  <2>2. config' = config /\ alive' \subseteq alive
    BY StoreStepsAreLockSteps DEF Next, Step, TryLock, Create, CreateFails, Write, ReadStamp,
       JudgeStale, Remove, JudgeLive, GiveUp, Unlock, CheckOwner, Unlink, Crash, Age, lockVars
  <2>3. late => late'
    BY DEF StoreNext, StoreStep, BeginWrite, Locking, TimeOut, Inspect, Load, Save, EndWrite,
       EndUnlocked, Over, StoreCrash, storeVars
  <2> SUFFICES ASSUME Calm', ~late'
               PROVE  /\ acked' \subseteq data'
                      /\ \A l \in Lockers : phase'[l] # "unlocked"
                      /\ \A l \in Lockers : phase'[l] = "loaded" =>
                           pc'[l] = "held" /\ acked' \subseteq copy'[l]
    BY <2>1 DEF StoreInv
  <2>4. Calm /\ ~late /\ CalmInv
    BY <2>2, <2>3 DEF Calm, LockInv
  <2>5. /\ acked \subseteq data
        /\ \A l \in Lockers : phase[l] # "unlocked"
        /\ \A l \in Lockers : phase[l] = "loaded" => pc[l] = "held" /\ acked \subseteq copy[l]
    BY <2>4 DEF StoreInv
  <2>6. \A l, m \in Lockers : pc[l] = "held" /\ pc[m] = "held" => l = m
    BY <2>4 DEF CalmInv, Holding
  <2>7. ASSUME NEW l \in Lockers, BeginWrite(l) \/ Locking(l) \/ TimeOut(l)
        PROVE  /\ UNCHANGED <<data, copy, acked>>
               /\ \A m \in Lockers : phase'[m] = phase[m] \/ phase'[m] \in {"begin", "inspect"}
    BY <2>1, <2>7 DEF BeginWrite, Locking, TimeOut, storeVars
  <2>8. ASSUME NEW l \in Lockers, Inspect(l)
        PROVE  /\ UNCHANGED <<lockVars, data, copy, acked>>
               /\ \A m \in Lockers : phase'[m] = phase[m] \/ phase'[m] = "begin"
    BY <2>1, <2>8 DEF Inspect, Proceed
  <2>9. ASSUME NEW l \in Lockers, Load(l)
        PROVE  /\ pc[l] = "held"
               /\ UNCHANGED <<lockVars, data, acked>>
               /\ \A m \in Lockers : IF m = l THEN phase'[m] = "loaded" /\ copy'[m] = data
                                     ELSE phase'[m] = phase[m] /\ copy'[m] = copy[m]
    BY <2>1, <2>5, <2>9 DEF Load, Proceed, StoreInv
  <2>10. ASSUME NEW l \in Lockers, Save(l)
         PROVE  /\ phase[l] = "loaded"
                /\ UNCHANGED lockVars
                /\ data' = copy[l] \cup {l} /\ acked' = acked \cup {l}
                /\ \A m \in Lockers : IF m = l THEN phase'[m] = "saved"
                                      ELSE phase'[m] = phase[m] /\ copy'[m] = copy[m]
    BY <2>1, <2>10 DEF Save, Proceed, StoreInv
  <2>11. ASSUME NEW l \in Lockers, EndWrite(l) \/ EndUnlocked(l)
         PROVE  /\ UNCHANGED <<data, acked>>
                /\ \A m \in Lockers : IF m = l THEN phase'[m] = "begin"
                                      ELSE /\ phase'[m] = phase[m] /\ copy'[m] = copy[m]
                                           /\ pc'[m] = pc[m]
    BY <2>1, <2>4, <2>11
       DEF EndWrite, EndUnlocked, Over, Unlock, Move, lockVars, StoreInv, CalmInv
  <2>12. ASSUME NEW p \in Procs, StoreCrash(p)
         PROVE  FALSE
    BY <2>2, <2>4, <2>12 DEF StoreCrash, Crash, Calm
  <2>13. CASE Age /\ UNCHANGED storeVars
    BY <2>5, <2>13 DEF Age, storeVars
  <2>14. CASE UNCHANGED <<config, lockVars, storeVars>>
    BY <2>5, <2>14 DEF lockVars, storeVars
  <2>15. ASSUME NEW l \in Lockers, BeginWrite(l) \/ Locking(l) \/ TimeOut(l)
         PROVE  \A m \in Lockers : pc[m] = "held" => pc'[m] = "held"
    BY <2>4, <2>15, LockingKeepsHolders DEF CalmInv
  <2> QED
    BY <2>5, <2>6, <2>7, <2>8, <2>9, <2>10, <2>11, <2>12, <2>13, <2>14, <2>15
       DEF StoreNext, StoreStep, lockVars
<1>3. StoreInv => AckedWritesSurvive
  BY DEF StoreInv, AckedWritesSurvive
<1> QED
  BY <1>1, <1>2, <1>3, LockInvariant, StoreKeepsLockSpec, PTL DEF StoreSpec
===============================================================================
