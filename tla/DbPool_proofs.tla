---------------------------- MODULE DbPool_proofs ----------------------------
(***************************************************************************)
(* Theorems about the connection pool, for any number of clients, handles  *)
(* and connections, and for every subset of the faults.                    *)
(***************************************************************************)
EXTENDS DbPool, FiniteSetTheorems, TLAPS

\* No connection sits in two slots.
SlotsDistinct ==
  \A i, j \in Slots : i # j /\ handle[i] # NoHandle => handle[i] # handle[j]

BusyHasHandle == \A i \in Slots : busy[i] => handle[i] # NoHandle

(***************************************************************************)
(* LeaseExclusive is not inductive alone: that TakeLive hands out a handle *)
(* nobody holds follows from the handle's slot being idle, so every held   *)
(* handle must be known to sit in a busy slot (LeasedIsAlive) and in one   *)
(* slot only (SlotsDistinct).                                              *)
(***************************************************************************)
PoolInv ==
  /\ TypeOK
  /\ SlotsDistinct
  /\ BusyHasHandle
  /\ LeasedIsAlive
  /\ LeaseExclusive
  /\ BusyIsLeased
  /\ PoisonedHasNoIdleHandle

LEMMA InitPoolInv == Init => PoolInv
<1> SUFFICES ASSUME Init PROVE PoolInv
  OBVIOUS
<1> USE PoolAssumption DEF Init
<1>1. TypeOK
  BY DEF TypeOK, PC, LeaseMatchesPc, Slots
<1>2. SlotsDistinct /\ BusyHasHandle /\ BusyIsLeased
  BY DEF SlotsDistinct, BusyHasHandle, BusyIsLeased
<1>3. LeaseMatchesPc /\ LeasedIsAlive /\ LeaseExclusive
  BY DEF LeaseMatchesPc, LeasedIsAlive, LeaseExclusive
<1>4. PoisonedHasNoIdleHandle
  BY DEF PoisonedHasNoIdleHandle
<1> QED
  BY <1>1, <1>2, <1>3, <1>4 DEF PoolInv

\* Steps that only move a program counter outside the leased states.
LEMMA QuietStep ==
  ASSUME PoolInv, NEW c \in Clients,
         UNCHANGED <<config, poolVars, lease, doomed>>,
         calls' \in [Clients -> Nat],
         pc' \in [Clients -> PC],
         \A d \in Clients : pc'[d] \in {"leased", "failed"} <=> pc[d] \in {"leased", "failed"}
  PROVE  PoolInv'
  BY DEF PoolInv, TypeOK, poolVars, Slots, SlotsDistinct, BusyHasHandle, LeaseMatchesPc,
         LeasedIsAlive, LeaseExclusive, BusyIsLeased, PoisonedHasNoIdleHandle

LEMMA TakeLivePreserves ==
  ASSUME PoolInv, NEW c \in Clients, UNCHANGED config, TakeLive(c)
  PROVE  PoolInv'
<1>1. PICK i \in Slots : /\ FirstIdle(i)
                         /\ handle[i] # NoHandle
                         /\ busy' = [busy EXCEPT ![i] = TRUE]
                         /\ lease' = [lease EXCEPT ![c] = handle[i]]
  BY DEF TakeLive
<1> USE <1>1 DEF PoolInv, TakeLive, Goto, FirstIdle
<1>2. TypeOK'
  BY DEF TypeOK, PC, LeaseMatchesPc, Slots
<1>3. SlotsDistinct' /\ BusyHasHandle' /\ PoisonedHasNoIdleHandle'
  BY DEF TypeOK, SlotsDistinct, BusyHasHandle, PoisonedHasNoIdleHandle, Slots
<1>4. LeaseMatchesPc'
  BY DEF TypeOK, LeaseMatchesPc
<1>5. LeasedIsAlive'
  BY DEF TypeOK, LeasedIsAlive, Slots
<1>6. \A d \in Clients : lease[d] # handle[i]
  BY DEF LeasedIsAlive, SlotsDistinct
<1>7. LeaseExclusive'
  BY <1>6 DEF TypeOK, LeaseExclusive
<1>8. lease[c] = NoHandle
  BY DEF TypeOK, LeaseMatchesPc
<1>9. BusyIsLeased'
  BY <1>8 DEF TypeOK, BusyIsLeased, Slots
<1> QED
  BY <1>2, <1>3, <1>4, <1>5, <1>7, <1>9

LEMMA ConnectPreserves ==
  ASSUME PoolInv, NEW c \in Clients, UNCHANGED config, Connect(c)
  PROVE  PoolInv'
<1>1. PICK i \in Slots, h \in Handles :
        /\ FirstIdle(i)
        /\ handle[i] = NoHandle
        /\ Fresh(h)
        /\ handle' = [handle EXCEPT ![i] = h]
        /\ busy' = [busy EXCEPT ![i] = TRUE]
        /\ lease' = [lease EXCEPT ![c] = h]
        /\ doomed' = doomed \ {h}
  BY DEF Connect
<1> USE <1>1, PoolAssumption DEF PoolInv, Connect, Goto, FirstIdle, Fresh
<1>2. TypeOK'
  BY DEF TypeOK, PC, LeaseMatchesPc, Slots
<1>3. SlotsDistinct' /\ BusyHasHandle'
  BY DEF TypeOK, SlotsDistinct, BusyHasHandle, Slots
<1>4. LeaseMatchesPc'
  BY DEF TypeOK, LeaseMatchesPc
<1>5. \A d \in Clients : lease[d] # h
  BY DEF LeasedIsAlive
<1>6. LeasedIsAlive'
  BY DEF TypeOK, LeasedIsAlive, Slots
<1>7. LeaseExclusive'
  BY <1>5 DEF TypeOK, LeaseExclusive
<1>8. lease[c] = NoHandle
  BY DEF TypeOK, LeaseMatchesPc
<1>9. BusyIsLeased'
  BY <1>8 DEF TypeOK, BusyIsLeased, Slots
<1>10. PoisonedHasNoIdleHandle'
  BY DEF PoisonedHasNoIdleHandle
<1> QED
  BY <1>2, <1>3, <1>4, <1>6, <1>7, <1>9, <1>10

LEMMA InvalidatePreserves ==
  ASSUME PoolInv, NEW c \in Clients, UNCHANGED config, Invalidate(c)
  PROVE  PoolInv'
<1> USE PoolAssumption DEF PoolInv, Invalidate, Goto
<1>1. handle' = [i \in Slots |-> IF busy[i] THEN handle[i] ELSE NoHandle]
  OBVIOUS
<1>2. TypeOK'
  BY ZenonT(40) DEF TypeOK, PC, LeaseMatchesPc, Slots
<1>3. SlotsDistinct' /\ BusyHasHandle' /\ PoisonedHasNoIdleHandle'
  BY DEF SlotsDistinct, BusyHasHandle, PoisonedHasNoIdleHandle, Slots
<1>4. LeaseMatchesPc'
  BY DEF TypeOK, LeaseMatchesPc
<1>5. LeasedIsAlive' /\ LeaseExclusive' /\ BusyIsLeased'
  BY DEF TypeOK, LeasedIsAlive, LeaseExclusive, BusyIsLeased, Slots
<1> QED
  BY <1>2, <1>3, <1>4, <1>5

LEMMA ReleasePreserves ==
  ASSUME PoolInv, NEW c \in Clients, UNCHANGED config, Release(c)
  PROVE  PoolInv'
<1>1. PICK i \in Slots :
        /\ handle[i] = lease[c]
        /\ handle' = IF poisoned THEN [handle EXCEPT ![i] = NoHandle] ELSE handle
        /\ busy' = [busy EXCEPT ![i] = FALSE]
  BY DEF Release, ReleaseSlot
<1> USE <1>1, PoolAssumption DEF PoolInv, Release, ReleaseSlot, Goto
<1>2. TypeOK'
  BY DEF TypeOK, PC, LeaseMatchesPc, Slots
<1>3. SlotsDistinct'
  BY DEF TypeOK, SlotsDistinct, Slots
<1>4. LeaseMatchesPc'
  BY DEF TypeOK, LeaseMatchesPc
<1>5. lease[c] # NoHandle
  BY DEF TypeOK, LeaseMatchesPc
<1>6. busy[i]
  BY <1>5 DEF LeasedIsAlive, SlotsDistinct
<1>7. BusyHasHandle'
  BY DEF TypeOK, BusyHasHandle, Slots
<1>8. LeaseExclusive'
  BY DEF TypeOK, LeaseExclusive
<1>9. LeasedIsAlive'
  <2> SUFFICES ASSUME NEW d \in Clients, lease'[d] # NoHandle
               PROVE  \E j \in Slots' : busy'[j] /\ handle'[j] = lease'[d]
    BY DEF LeasedIsAlive
  <2>1. d # c /\ lease'[d] = lease[d]
    BY DEF TypeOK
  <2>2. PICK j \in Slots : busy[j] /\ handle[j] = lease[d]
    BY <2>1 DEF LeasedIsAlive
  <2>3. j # i
    BY <2>1, <2>2, <1>5 DEF LeaseExclusive
  <2> QED
    BY <2>1, <2>2, <2>3 DEF TypeOK, Slots
<1>10. BusyIsLeased'
  <2> SUFFICES ASSUME NEW j \in Slots, busy'[j]
               PROVE  \E d \in Clients : lease'[d] = handle'[j] /\ lease'[d] # NoHandle
    BY DEF BusyIsLeased, Slots
  <2>1. j # i /\ busy[j] /\ handle'[j] = handle[j]
    BY DEF TypeOK
  <2>2. PICK d \in Clients : lease[d] = handle[j] /\ lease[d] # NoHandle
    BY <2>1 DEF BusyIsLeased
  <2>3. d # c
    BY <2>1, <2>2, <1>5 DEF SlotsDistinct
  <2> QED
    BY <2>1, <2>2, <2>3 DEF TypeOK
<1>11. PoisonedHasNoIdleHandle'
  BY DEF TypeOK, PoisonedHasNoIdleHandle, Slots
<1> QED
  BY <1>2, <1>3, <1>4, <1>7, <1>8, <1>9, <1>10, <1>11

LEMMA PoolInvInductive == PoolInv /\ [Next]_vars => PoolInv'
<1> SUFFICES ASSUME PoolInv, [Next]_vars
             PROVE  PoolInv'
  OBVIOUS
<1>1. ASSUME NEW c \in Clients, UNCHANGED config,
             Call(c) \/ SpuriousWake(c) \/ ConnectFails(c) \/ Wait(c)
      PROVE  PoolInv'
  <2>1. /\ UNCHANGED <<config, poolVars, lease, doomed>>
        /\ calls' \in [Clients -> Nat]
        /\ pc' \in [Clients -> PC]
        /\ \A d \in Clients : pc'[d] \in {"leased", "failed"} <=> pc[d] \in {"leased", "failed"}
    BY <1>1 DEF PoolInv, TypeOK, PC, Call, SpuriousWake, ConnectFails, Wait, Goto
  <2> QED
    BY <2>1, QuietStep
<1>2. ASSUME NEW c \in Clients, UNCHANGED config, Notify(c)
      PROVE  PoolInv'
  <2>1. /\ UNCHANGED <<config, poolVars, lease, doomed>>
        /\ calls' \in [Clients -> Nat]
        /\ pc' \in [Clients -> PC]
        /\ \A d \in Clients : pc'[d] \in {"leased", "failed"} <=> pc[d] \in {"leased", "failed"}
    <3>1. CASE \E w \in Clients : pc[w] = "wait"
      BY <1>2, <3>1 DEF PoolInv, TypeOK, PC, Notify, Goto
    <3>2. CASE ~ \E w \in Clients : pc[w] = "wait"
      BY <1>2, <3>2 DEF PoolInv, TypeOK, PC, Notify, Goto
    <3> QED
      BY <3>1, <3>2
  <2> QED
    BY <2>1, QuietStep
<1>3. CASE UNCHANGED vars
  BY <1>3 DEF vars, poolVars, PoolInv, TypeOK, Slots, SlotsDistinct, BusyHasHandle,
              LeaseMatchesPc, LeasedIsAlive, LeaseExclusive, BusyIsLeased,
              PoisonedHasNoIdleHandle
<1> QED
  BY <1>1, <1>2, <1>3, TakeLivePreserves, ConnectPreserves, InvalidatePreserves,
     ReleasePreserves DEF Next, Step

THEOREM PoolInvariant == Spec => []PoolInv
  BY InitPoolInv, PoolInvInductive, PTL DEF Spec

\* The state of the pool keeps its types.
THEOREM PoolTypeCorrect == Spec => []TypeOK
  BY PoolInvariant, PTL DEF PoolInv

\* A connection belongs to at most one lease, for every pool size and every
\* interleaving of acquire(), release(), invalidate() and failed connects.
THEOREM PoolLeaseExclusive == Spec => []LeaseExclusive
  BY PoolInvariant, PTL DEF PoolInv

\* A lease never outlives its connection, and a busy slot is never orphaned.
THEOREM PoolLeaseSlot == Spec => []LeasesHoldSlots
<1>1. PoolInv => LeasesHoldSlots
  BY DEF PoolInv, LeasesHoldSlots
<1>. QED  BY <1>1, PoolInvariant, PTL

\* Between invalidate() and the next connect no old connection is idle.
THEOREM PoolPoison == Spec => []PoisonedHasNoIdleHandle
  BY PoolInvariant, PTL DEF PoolInv

-----------------------------------------------------------------------------
\* What makes the promise of invalidate() hold in a pool of one.
DoomedDies == \A i \in Slots : handle[i] \in doomed => busy[i] /\ poisoned
DoomedInv == PoolInv /\ (config.maxConn = 1 => DoomedDies)

\* In a pool of one connection (the sqlite backend's) a handle that was leased
\* when invalidate() ran is destroyed on release.  With two connections the
\* first reconnect clears the flag too early.
THEOREM OneConnectionHeals == Spec => []InvalidatedHandlesDie
<1>1. Init => DoomedInv
  BY InitPoolInv DEF Init, DoomedInv, DoomedDies, Slots
<1>2. DoomedInv /\ [Next]_vars => DoomedInv'
  <2> SUFFICES ASSUME DoomedInv, [Next]_vars, config'.maxConn = 1
               PROVE  DoomedDies'
    BY PoolInvInductive DEF DoomedInv
  <2>0. /\ config' = config
        /\ Slots = {1} /\ Slots' = {1}
    BY DEF Next, Step, vars, Slots
  <2> USE <2>0 DEF DoomedInv, DoomedDies, PoolInv, TypeOK
  <2>1. CASE UNCHANGED vars
    BY <2>1 DEF vars, Slots
  <2>2. ASSUME NEW c \in Clients,
               Call(c) \/ SpuriousWake(c) \/ ConnectFails(c) \/ Wait(c) \/ Notify(c)
        PROVE  DoomedDies'
    BY <2>2 DEF Call, SpuriousWake, ConnectFails, Wait, Notify, poolVars, Slots
  <2>3. ASSUME NEW c \in Clients, TakeLive(c)
        PROVE  DoomedDies'
    BY <2>3 DEF TakeLive, FirstIdle, Slots
  <2>4. ASSUME NEW c \in Clients, Connect(c)
        PROVE  DoomedDies'
    BY <2>4 DEF Connect, FirstIdle, Slots
  <2>5. ASSUME NEW c \in Clients, Invalidate(c)
        PROVE  DoomedDies'
    BY <2>5 DEF Invalidate, Slots
  <2>6. ASSUME NEW c \in Clients, Release(c)
        PROVE  DoomedDies'
    <3>1. /\ handle[1] = lease[c]
          /\ handle' = IF poisoned THEN [handle EXCEPT ![1] = NoHandle] ELSE handle
          /\ doomed' = IF poisoned THEN doomed \ {lease[c]} ELSE doomed
          /\ busy' = [busy EXCEPT ![1] = FALSE]
          /\ poisoned' = poisoned
      BY <2>6 DEF Release, ReleaseSlot
    <3>2. CASE poisoned
      BY <3>1, <3>2, PoolAssumption
    <3>3. CASE ~poisoned
      BY <3>1, <3>3
    <3> QED
      BY <3>2, <3>3
  <2> QED
    BY <2>1, <2>2, <2>3, <2>4, <2>5, <2>6 DEF Next, Step
<1>3. DoomedInv => InvalidatedHandlesDie
  BY DEF DoomedInv, DoomedDies, InvalidatedHandlesDie
<1> QED
  BY <1>1, <1>2, <1>3, PTL DEF Spec

-----------------------------------------------------------------------------
(***************************************************************************)
(* NoStrandedWaiter is not inductive: that somebody is awake beside one    *)
(* idle slot does not say that somebody is left when a second slot stays   *)
(* idle.  Every idle slot needs a client of its own that is on its way:    *)
(* the one whose release() freed it, the waiter that this one woke, or a   *)
(* newcomer that takes this waiter's place.  A refused connect breaks the  *)
(* count, so slots must keep their connections once somebody had to wait,  *)
(* and they do unless a statement fails.                                   *)
(***************************************************************************)
IdleSlots == {i \in Slots : ~busy[i]}
Roused == {c \in Clients : Awake(c)}
SomeoneWaits == \E w \in Clients : pc[w] = "wait"

WakeInv ==
  /\ "exec" \notin config.faults => ~poisoned
  /\ config.faults # {"connect", "exec"} /\ SomeoneWaits =>
       /\ "exec" \notin config.faults => \A i \in Slots : handle[i] # NoHandle
       /\ ExistsInjection(IdleSlots, Roused)

LEMMA InjectionFromNothing == \A T : ExistsInjection({}, T)
<1> SUFFICES ASSUME NEW T
             PROVE  ExistsInjection({}, T)
  OBVIOUS
<1> DEFINE f == [i \in {} |-> i]
<1>1. f \in [{} -> T] /\ \A i, j \in {} : f[i] = f[j] => i = j
  OBVIOUS
<1> QED
  BY <1>1 DEF ExistsInjection, Injection, IsInjective

\* An injection may lose an argument and any one value,
LEMMA InjectionWithout ==
  ASSUME NEW S, NEW T, ExistsInjection(S, T), NEW i \in S, NEW c \in T
  PROVE  ExistsInjection(S \ {i}, T \ {c})
<1>1. PICK f : f \in Injection(S, T)
  BY DEF ExistsInjection
<1>2. f \in [S -> T] /\ \A j, k \in S : f[j] = f[k] => j = k
  BY <1>1 DEF Injection, IsInjective
<1> DEFINE g == [j \in S \ {i} |-> IF f[j] = c THEN f[i] ELSE f[j]]
<1>3. g \in [S \ {i} -> T \ {c}]
  BY <1>2
<1>4. \A j, k \in S \ {i} : g[j] = g[k] => j = k
  BY <1>2
<1> QED
  BY <1>3, <1>4 DEF ExistsInjection, Injection, IsInjective

\* may gain a new argument together with a new value,
LEMMA InjectionWith ==
  ASSUME NEW S, NEW T, ExistsInjection(S, T), NEW i, NEW c, c \notin T
  PROVE  ExistsInjection(S \cup {i}, T \cup {c})
<1>1. PICK f : f \in Injection(S, T)
  BY DEF ExistsInjection
<1>2. f \in [S -> T] /\ \A j, k \in S : f[j] = f[k] => j = k
  BY <1>1 DEF Injection, IsInjective
<1> DEFINE g == [j \in S \cup {i} |-> IF j = i THEN c ELSE f[j]]
<1>3. g \in [S \cup {i} -> T \cup {c}]
  BY <1>2
<1>4. \A j, k \in S \cup {i} : g[j] = g[k] => j = k
  BY <1>2
<1> QED
  BY <1>3, <1>4 DEF ExistsInjection, Injection, IsInjective

\* and stays one among fewer arguments and more values.
LEMMA InjectionWidened ==
  ASSUME NEW S, NEW T, ExistsInjection(S, T), NEW R, NEW U, R \subseteq S, T \subseteq U
  PROVE  ExistsInjection(R, U)
<1>1. PICK f : f \in Injection(S, T)
  BY DEF ExistsInjection
<1>2. f \in [S -> T] /\ \A j, k \in S : f[j] = f[k] => j = k
  BY <1>1 DEF Injection, IsInjective
<1> DEFINE g == [j \in R |-> f[j]]
<1>3. g \in [R -> U] /\ \A j, k \in R : g[j] = g[k] => j = k
  BY <1>2
<1> QED
  BY <1>3 DEF ExistsInjection, Injection, IsInjective

LEMMA InitWakeInv == Init => WakeInv
  BY DEF Init, WakeInv, SomeoneWaits

LEMMA WakeInvKept == PoolInv /\ WakeInv /\ [Next]_vars => WakeInv'
<1> SUFFICES ASSUME PoolInv, WakeInv, [Next]_vars
             PROVE  WakeInv'
  OBVIOUS
<1>0. /\ config' = config /\ Slots' = Slots
      /\ config.faults # {"connect", "exec"} =>
           "connect" \notin config.faults \/ "exec" \notin config.faults
  BY PoolAssumption DEF Next, Step, vars, Slots, PoolInv, TypeOK
<1> USE <1>0
<1>1. ASSUME NEW c \in Clients, TakeLive(c)
      PROVE  WakeInv'
  <2>1. PICK i \in Slots : ~busy[i] /\ busy' = [busy EXCEPT ![i] = TRUE]
    BY <1>1 DEF TakeLive, FirstIdle
  <2>2. i \in IdleSlots /\ IdleSlots' = IdleSlots \ {i}
    BY <2>1 DEF IdleSlots, PoolInv, TypeOK
  <2>3. c \in Roused /\ Roused' = Roused \ {c} /\ (SomeoneWaits' => SomeoneWaits)
    BY <1>1 DEF TakeLive, Goto, Roused, Awake, SomeoneWaits, PoolInv, TypeOK
  <2>4. UNCHANGED <<handle, poisoned>>
    BY <1>1 DEF TakeLive
  <2> QED
    BY <2>2, <2>3, <2>4, InjectionWithout DEF WakeInv
<1>2. ASSUME NEW c \in Clients, Connect(c)
      PROVE  WakeInv'
  <2>1. PICK i \in Slots, h \in Handles :
          /\ ~busy[i] /\ busy' = [busy EXCEPT ![i] = TRUE]
          /\ handle' = [handle EXCEPT ![i] = h]
    BY <1>2 DEF Connect, FirstIdle
  <2>2. i \in IdleSlots /\ IdleSlots' = IdleSlots \ {i}
    BY <2>1 DEF IdleSlots, PoolInv, TypeOK
  <2>3. c \in Roused /\ Roused' = Roused \ {c} /\ (SomeoneWaits' => SomeoneWaits)
    BY <1>2 DEF Connect, Goto, Roused, Awake, SomeoneWaits, PoolInv, TypeOK
  <2>4. ~poisoned' /\ \A j \in Slots : handle[j] # NoHandle => handle'[j] # NoHandle
    BY <1>2, <2>1, PoolAssumption DEF Connect, PoolInv, TypeOK
  <2> QED
    BY <2>2, <2>3, <2>4, InjectionWithout DEF WakeInv
<1>3. ASSUME NEW c \in Clients, ConnectFails(c)
      PROVE  WakeInv'
  <2>1. UNCHANGED <<handle, poisoned>> /\ (SomeoneWaits' => SomeoneWaits)
    BY <1>3 DEF ConnectFails, poolVars, Goto, SomeoneWaits, PoolInv, TypeOK
  <2>2. "connect" \in config.faults /\ \E i \in Slots : handle[i] = NoHandle
    BY <1>3 DEF ConnectFails
  <2> QED
    BY <2>1, <2>2 DEF WakeInv
<1>4. ASSUME NEW c \in Clients, Wait(c)
      PROVE  WakeInv'
  <2>1. UNCHANGED <<handle, busy, poisoned>> /\ \A i \in Slots : busy[i]
    BY <1>4 DEF Wait, poolVars
  <2>2. IdleSlots' = {}
    BY <2>1 DEF IdleSlots
  <2>3. ExistsInjection(IdleSlots', Roused')
    BY <2>2, InjectionFromNothing
  <2> QED
    BY <2>1, <2>3 DEF WakeInv, PoolInv, BusyHasHandle
<1>5. ASSUME NEW c \in Clients, Call(c) \/ SpuriousWake(c)
      PROVE  WakeInv'
  <2>1. UNCHANGED <<handle, busy, poisoned>> /\ (SomeoneWaits' => SomeoneWaits)
    BY <1>5 DEF Call, SpuriousWake, poolVars, Goto, SomeoneWaits, PoolInv, TypeOK
  <2>2. IdleSlots' = IdleSlots /\ Roused \subseteq Roused'
    BY <1>5, <2>1 DEF IdleSlots, Call, SpuriousWake, Goto, Roused, Awake, PoolInv, TypeOK
  <2> QED
    BY <2>1, <2>2, InjectionWidened DEF WakeInv
<1>6. ASSUME NEW c \in Clients, Invalidate(c)
      PROVE  WakeInv'
  <2>1. "exec" \in config.faults /\ busy' = busy /\ (SomeoneWaits' => SomeoneWaits)
    BY <1>6 DEF Invalidate, Goto, SomeoneWaits, PoolInv, TypeOK
  <2>2. IdleSlots' = IdleSlots /\ Roused' = Roused
    BY <1>6, <2>1 DEF IdleSlots, Invalidate, Goto, Roused, Awake, PoolInv, TypeOK
  <2> QED
    BY <2>1, <2>2 DEF WakeInv
<1>7. ASSUME NEW c \in Clients, Release(c)
      PROVE  WakeInv'
  <2>1. PICK i \in Slots :
          /\ handle' = IF poisoned THEN [handle EXCEPT ![i] = NoHandle] ELSE handle
          /\ busy' = [busy EXCEPT ![i] = FALSE]
    BY <1>7 DEF Release, ReleaseSlot
  <2>2. poisoned' = poisoned /\ (~poisoned => handle' = handle)
    BY <1>7, <2>1 DEF Release, ReleaseSlot
  <2>3. IdleSlots' = IdleSlots \cup {i}
    BY <2>1 DEF IdleSlots, PoolInv, TypeOK
  <2>4. c \notin Roused /\ Roused' = Roused \cup {c} /\ (SomeoneWaits' => SomeoneWaits)
    BY <1>7 DEF Release, ReleaseSlot, Goto, Roused, Awake, SomeoneWaits, PoolInv, TypeOK
  <2> QED
    BY <2>2, <2>3, <2>4, InjectionWith DEF WakeInv
<1>8. ASSUME NEW c \in Clients, Notify(c)
      PROVE  WakeInv'
  <2>1. UNCHANGED <<handle, poisoned>> /\ IdleSlots' = IdleSlots
    BY <1>8 DEF Notify, poolVars, IdleSlots
  <2>2. CASE ~SomeoneWaits
    <3>1. ~SomeoneWaits'
      BY <1>8, <2>2 DEF Notify, Goto, SomeoneWaits, PoolInv, TypeOK
    <3> QED
      BY <2>1, <3>1 DEF WakeInv
  <2>3. CASE SomeoneWaits
    <3>1. PICK w \in Clients :
            /\ pc[w] = "wait"
            /\ pc' = [pc EXCEPT ![c] = "idle", ![w] = "acquire"]
      BY <1>8, <2>3 DEF Notify, SomeoneWaits
    <3>2. c \in Roused /\ w \notin Roused /\ Roused' = (Roused \ {c}) \cup {w}
      BY <1>8, <3>1 DEF Notify, Roused, Awake, PoolInv, TypeOK
    <3>3. ASSUME ExistsInjection(IdleSlots, Roused)
          PROVE  ExistsInjection(IdleSlots, Roused')
      <4>1. CASE IdleSlots = {}
        BY <4>1, InjectionFromNothing
      <4>2. CASE IdleSlots # {}
        <5>1. PICK i \in IdleSlots : TRUE
          BY <4>2
        <5>2. ExistsInjection(IdleSlots \ {i}, Roused \ {c})
          BY <3>2, <3>3, InjectionWithout
        <5>3. ExistsInjection((IdleSlots \ {i}) \cup {i}, (Roused \ {c}) \cup {w})
          BY <3>2, <5>2, InjectionWith
        <5>4. (IdleSlots \ {i}) \cup {i} = IdleSlots
          OBVIOUS
        <5> QED
          BY <3>2, <5>3, <5>4
      <4> QED
        BY <4>1, <4>2
    <3> QED
      BY <2>1, <2>3, <3>3 DEF WakeInv
  <2> QED
    BY <2>2, <2>3
<1>9. CASE UNCHANGED vars
  BY <1>9 DEF vars, WakeInv, SomeoneWaits, IdleSlots, Roused, Awake
<1> QED
  BY <1>1, <1>2, <1>3, <1>4, <1>5, <1>6, <1>7, <1>8, <1>9 DEF Next, Step

\* While a client waits beside a free slot, somebody is on the way to that slot
\* or to pass a wake-up on: for any number of threads and slots, and in any order
\* of releases, wake-ups and newcomers, unless statements fail and reconnects
\* are refused as well.
THEOREM WaitersAreServed == Spec => []NoStrandedWaiter
<1>1. PoolInv /\ WakeInv => NoStrandedWaiter
  <2> SUFFICES ASSUME PoolInv, WakeInv, config.faults # {"connect", "exec"}, SomeoneWaits,
                      NEW i \in Slots, ~busy[i]
               PROVE  \E c \in Clients : Awake(c)
    BY DEF NoStrandedWaiter, WaitsOnlyWhenFull, SomeoneWaits, PoolInv, TypeOK
  <2>1. PICK f : f \in [IdleSlots -> Roused]
    BY DEF WakeInv, ExistsInjection, Injection
  <2> QED
    BY <2>1 DEF IdleSlots, Roused
<1> QED
  BY <1>1, InitWakeInv, WakeInvKept, PoolInvariant, PTL DEF Spec

-----------------------------------------------------------------------------
(***************************************************************************)
(* The pool implements exclusive grants.  That the code never leases more  *)
(* than maxConn_ connections follows from PoolInv: leases map one to one   *)
(* to busy slots, and the slot that is about to be leased is idle.         *)
(***************************************************************************)
\* The cardinality that ExclusiveGrants speaks of is the one the library's
\* theorems are about.
LEMMA SameCardinality == \A S : Grants!Cardinality(S) = Cardinality(S)
  BY Zenon DEF Grants!Cardinality, Cardinality

\* While a slot is idle fewer connections than maxConn_ are leased.
LEMMA RoomForOneMore ==
  ASSUME PoolInv, NEW i \in Slots, ~busy[i]
  PROVE  IsFiniteSet(Held) /\ Cardinality(Held) < config.maxConn
<1> DEFINE n == config.maxConn
           SlotOf(g) == CHOOSE j \in Slots \ {i} : handle[j] = g[2]
           f == [g \in Held |-> SlotOf(g)]
<1>1. n \in Nat \ {0} /\ Slots = 1..n
  BY PoolAssumption DEF PoolInv, TypeOK, Slots
<1>2. IsFiniteSet(Slots) /\ Cardinality(Slots) = n
  BY <1>1, FS_Interval
<1>3. IsFiniteSet(Slots \ {i}) /\ Cardinality(Slots \ {i}) = n - 1
  BY <1>2, FS_RemoveElement
<1>4. \A g \in Held : SlotOf(g) \in Slots \ {i} /\ handle[SlotOf(g)] = g[2]
  <2> SUFFICES ASSUME NEW c \in Lessees
               PROVE  \E j \in Slots \ {i} : handle[j] = lease[c]
    BY DEF Held
  <2> QED
    BY DEF PoolInv, LeasedIsAlive, Lessees
<1>5. f \in Injection(Held, Slots \ {i})
  <2>1. f \in [Held -> Slots \ {i}]
    BY <1>4
  <2>2. ASSUME NEW g \in Held, NEW h \in Held, f[g] = f[h]
        PROVE  g = h
    <3>1. g[2] = h[2]
      BY <1>4, <2>2
    <3>2. PICK c \in Lessees, d \in Lessees : g = <<c, lease[c]>> /\ h = <<d, lease[d]>>
      BY DEF Held
    <3> QED
      BY <3>1, <3>2 DEF PoolInv, LeaseExclusive, Lessees
  <2> QED
    BY <2>1, <2>2 DEF Injection, IsInjective
<1>6. IsFiniteSet(Held) /\ Cardinality(Held) <= n - 1
  BY <1>3, <1>5, FS_Injection
<1>7. Cardinality(Held) \in Nat
  BY <1>6, FS_CardinalityType
<1> QED
  BY <1>1, <1>6, <1>7

\* A step that gives c the connection of an idle slot is a grant.
LEMMA LeaseIsGrant ==
  ASSUME PoolInv, UNCHANGED config,
         NEW c \in Clients, NEW i \in Slots, NEW h \in Handles,
         ~busy[i], lease[c] = NoHandle,
         \A d \in Clients : lease[d] # h,
         lease' = [lease EXCEPT ![c] = h]
  PROVE  Grants!Next
<1>2. Grants!Cardinality(Held) < config.maxConn
  BY RoomForOneMore, SameCardinality
<1>3. h # NoHandle
  BY PoolAssumption
<1>4. Held' = Held \cup {<<c, h>>}
  BY <1>3 DEF Held, Lessees, PoolInv, TypeOK
<1>5. \A g \in Held : g[1] # c /\ g[2] # h
  BY DEF Held, Lessees
<1> QED
  BY <1>2, <1>4, <1>5 DEF Grants!Next, Grants!Grant

\* The pool implements the abstract specification of exclusive grants, for
\* every pool size and every interleaving: a lease is one grant, its release
\* one return, and every other step changes no grant.
THEOREM PoolImplementsGrants == Spec => ImplementsGrants
<1>1. Init => Grants!Init
  BY PoolAssumption DEF Init, Grants!Init, Held, Lessees
<1>2. PoolInv /\ [Next]_vars => [Grants!Next]_<<Held, config.maxConn>>
  <2> SUFFICES ASSUME PoolInv, [Next]_vars
               PROVE  Grants!Next \/ (UNCHANGED <<Held, config.maxConn>>)
    OBVIOUS
  <2>0. config' = config
    BY DEF Next, Step, vars
  <2>1. ASSUME UNCHANGED lease
        PROVE  UNCHANGED <<Held, config.maxConn>>
    BY <2>0, <2>1 DEF Held, Lessees
  <2>2. ASSUME NEW c \in Clients, TakeLive(c)
        PROVE  Grants!Next
    <3>1. PICK i \in Slots : /\ FirstIdle(i)
                             /\ handle[i] # NoHandle
                             /\ lease' = [lease EXCEPT ![c] = handle[i]]
      BY <2>2 DEF TakeLive
    <3>2. ~busy[i] /\ handle[i] \in Handles
      BY <3>1 DEF FirstIdle, PoolInv, TypeOK
    <3>3. \A d \in Clients : lease[d] # handle[i]
      BY <3>1, <3>2 DEF PoolInv, LeasedIsAlive, SlotsDistinct
    <3>4. lease[c] = NoHandle
      BY <2>2 DEF TakeLive, PoolInv, TypeOK, LeaseMatchesPc
    <3> QED
      BY <2>0, <3>1, <3>2, <3>3, <3>4, LeaseIsGrant
  <2>3. ASSUME NEW c \in Clients, Connect(c)
        PROVE  Grants!Next
    <3>1. PICK i \in Slots, h \in Handles : /\ FirstIdle(i)
                                            /\ Fresh(h)
                                            /\ lease' = [lease EXCEPT ![c] = h]
      BY <2>3 DEF Connect
    <3>2. ~busy[i]
      BY <3>1 DEF FirstIdle
    <3>3. \A d \in Clients : lease[d] # h
      BY <3>1, PoolAssumption DEF Fresh, PoolInv, LeasedIsAlive
    <3>4. lease[c] = NoHandle
      BY <2>3 DEF Connect, PoolInv, TypeOK, LeaseMatchesPc
    <3> QED
      BY <2>0, <3>1, <3>2, <3>3, <3>4, LeaseIsGrant
  <2>4. ASSUME NEW c \in Clients, Release(c)
        PROVE  Grants!Next
    <3>1. lease' = [lease EXCEPT ![c] = NoHandle] /\ lease[c] # NoHandle
      BY <2>4 DEF Release, ReleaseSlot, PoolInv, TypeOK, LeaseMatchesPc
    <3>2. <<c, lease[c]>> \in Held /\ Held' = Held \ {<<c, lease[c]>>}
      BY <3>1 DEF Held, Lessees, PoolInv, TypeOK
    <3> QED
      BY <2>0, <3>2 DEF Grants!Next, Grants!Return
  <2>5. ASSUME NEW c \in Clients,
               \/ Call(c) \/ SpuriousWake(c) \/ Invalidate(c)
               \/ ConnectFails(c) \/ Wait(c) \/ Notify(c)
        PROVE  UNCHANGED lease
    BY <2>5 DEF Call, SpuriousWake, Invalidate, ConnectFails, Wait, Notify
  <2>6. CASE UNCHANGED vars
    BY <2>1, <2>6 DEF vars
  <2> QED
    BY <2>1, <2>2, <2>3, <2>4, <2>5, <2>6 DEF Next, Step
<1> QED
  BY <1>1, <1>2, PoolInvariant, PTL DEF Spec, ImplementsGrants, Grants!Spec
=============================================================================
