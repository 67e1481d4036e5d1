------------------------------- MODULE DbPool -------------------------------
(***************************************************************************)
(* The connection pool of the SQL backends, DbPool::HandlePool.            *)
(*                                                                         *)
(* A client is one Lease object together with the thread that asks for it. *)
(* Every critical section of the pool's mutex is one atomic step: the code *)
(* holds the mutex across the whole section, connect_ and destroy_         *)
(* included.  idle_.wait releases the mutex and idle_.notify_one runs      *)
(* after the mutex is dropped, so both have steps of their own.            *)
(***************************************************************************)
EXTENDS Naturals, FiniteSets

CONSTANTS
  Clients,    \* the lease objects
  Handles,    \* the connection objects connect_ can return
  NoHandle,   \* Handle{}, the null pointer
  Configs,    \* the pools to look at: their size and what may fail in them
  MaxCalls    \* bound: how many times each client calls acquire()

ASSUME PoolAssumption ==
  /\ NoHandle \notin Handles
  /\ Configs \subseteq [maxConn : Nat \ {0}, faults : SUBSET {"connect", "exec"}]
  /\ MaxCalls \in Nat

VARIABLES
  config,     \* maxConn_, which nobody sets after the first acquire(), and the faults
  handle,     \* slots_[i].handle
  busy,       \* slots_[i].busy
  poisoned,   \* poisoned_
  pc,         \* where each client is
  lease,      \* the handle of each client's Lease, NoHandle for an empty one
  calls,      \* acquire() calls each client has made
  doomed      \* history: handles that were leased when invalidate() ran

poolVars == <<handle, busy, poisoned>>
vars == <<config, handle, busy, poisoned, pc, lease, calls, doomed>>

(***************************************************************************)
(* slots_ grows by emplace_back up to maxConn_.  A slot not yet allocated  *)
(* behaves as an allocated empty one: it is not busy, has no handle, and   *)
(* comes after the allocated ones in the scan.  So the model starts with   *)
(* all of them.                                                            *)
(***************************************************************************)
Slots == 1..config.maxConn

PC == {"idle", "acquire", "wait", "leased", "failed", "notify"}

Init ==
  /\ config \in Configs
  /\ handle = [i \in Slots |-> NoHandle]
  /\ busy = [i \in Slots |-> FALSE]
  /\ poisoned = FALSE
  /\ pc = [c \in Clients |-> "idle"]
  /\ lease = [c \in Clients |-> NoHandle]
  /\ calls = [c \in Clients |-> 0]
  /\ doomed = {}

Goto(c, to) == pc' = [pc EXCEPT ![c] = to]

\* The scan of acquire() stops at the first slot that is not busy.
FirstIdle(i) == /\ i \in Slots
                /\ ~busy[i]
                /\ \A j \in Slots : j < i => busy[j]

\* A pointer the allocator can return: one that no slot holds.  A destroyed
\* handle's address may come back.
Fresh(h) == h \in Handles /\ \A i \in Slots : handle[i] # h

Call(c) ==
  /\ pc[c] = "idle"
  /\ calls[c] < MaxCalls
  /\ calls' = [calls EXCEPT ![c] = @ + 1]
  /\ Goto(c, "acquire")
  /\ UNCHANGED <<poolVars, lease, doomed>>

(***************************************************************************)
(* acquire(): the section from the entry, or from a wake-up, to a return   *)
(* or to idle_.wait.                                                       *)
(***************************************************************************)
\* Mutant: a reused handle's slot is not marked busy.
TakeLive_Unmarked(c) ==
  /\ pc[c] = "acquire"
  /\ \E i \in Slots :
       /\ FirstIdle(i)
       /\ handle[i] # NoHandle
       /\ lease' = [lease EXCEPT ![c] = handle[i]]
  /\ Goto(c, "leased")
  /\ UNCHANGED <<handle, busy, poisoned, calls, doomed>>

TakeLive(c) ==
  /\ pc[c] = "acquire"
  /\ \E i \in Slots :
       /\ FirstIdle(i)
       /\ handle[i] # NoHandle
       /\ busy' = [busy EXCEPT ![i] = TRUE]
       /\ lease' = [lease EXCEPT ![c] = handle[i]]
  /\ Goto(c, "leased")
  /\ UNCHANGED <<handle, poisoned, calls, doomed>>

Connect(c) ==
  /\ pc[c] = "acquire"
  /\ \E i \in Slots, h \in Handles :
       /\ FirstIdle(i)
       /\ handle[i] = NoHandle
       /\ Fresh(h)
       /\ handle' = [handle EXCEPT ![i] = h]
       /\ busy' = [busy EXCEPT ![i] = TRUE]
       /\ lease' = [lease EXCEPT ![c] = h]
       /\ doomed' = doomed \ {h}
  /\ poisoned' = FALSE
  /\ Goto(c, "leased")
  /\ UNCHANGED calls

\* Mutant: the result of connect_ is not tested for null.
ConnectFails_Untested(c) ==
  /\ "connect" \in config.faults
  /\ pc[c] = "acquire"
  /\ \E i \in Slots :
       /\ FirstIdle(i) /\ handle[i] = NoHandle
       /\ busy' = [busy EXCEPT ![i] = TRUE]
  /\ Goto(c, "leased")
  /\ UNCHANGED <<handle, poisoned, lease, calls, doomed>>

\* connect_ returned null: acquire() returns an empty Lease, whose destructor
\* does nothing.  The slot stays free and nobody is notified.
ConnectFails(c) ==
  /\ "connect" \in config.faults
  /\ pc[c] = "acquire"
  /\ \E i \in Slots : FirstIdle(i) /\ handle[i] = NoHandle
  /\ Goto(c, "idle")
  /\ UNCHANGED <<poolVars, lease, calls, doomed>>

\* Mutant: waits as soon as one slot is busy.
Wait_AnyBusy(c) ==
  /\ pc[c] = "acquire"
  /\ \E i \in Slots : busy[i]
  /\ Goto(c, "wait")
  /\ UNCHANGED <<poolVars, lease, calls, doomed>>

Wait(c) ==
  /\ pc[c] = "acquire"
  /\ \A i \in Slots : busy[i]
  /\ Goto(c, "wait")
  /\ UNCHANGED <<poolVars, lease, calls, doomed>>

\* A condition variable may wake up by itself; the loop then scans again.
SpuriousWake(c) ==
  /\ pc[c] = "wait"
  /\ Goto(c, "acquire")
  /\ UNCHANGED <<poolVars, lease, calls, doomed>>

\* Mutant: leased handles are destroyed too.
Invalidate_Leased(c) ==
  /\ "exec" \in config.faults
  /\ pc[c] = "leased"
  /\ poisoned' = TRUE
  /\ handle' = [i \in Slots |-> NoHandle]
  /\ doomed' = {}
  /\ Goto(c, "failed")
  /\ UNCHANGED <<busy, lease, calls>>

(***************************************************************************)
(* invalidate(): called through selfHealConnections by a client whose      *)
(* statement failed, while it still holds its lease.                       *)
(***************************************************************************)
Invalidate(c) ==
  /\ "exec" \in config.faults
  /\ pc[c] = "leased"
  /\ poisoned' = TRUE
  /\ handle' = [i \in Slots |-> IF busy[i] THEN handle[i] ELSE NoHandle]
  /\ doomed' = {handle'[i] : i \in Slots} \ {NoHandle}
  /\ Goto(c, "failed")
  /\ UNCHANGED <<busy, lease, calls>>

\* What release() does to the slot of a dying lease; destroy says whether the
\* handle is destroyed, next where the client goes.
ReleaseSlot(c, destroy, next) ==
  /\ pc[c] \in {"leased", "failed"}
  /\ \E i \in Slots :
       /\ handle[i] = lease[c]
       /\ \A j \in Slots : j < i => handle[j] # lease[c]
       /\ handle' = IF destroy THEN [handle EXCEPT ![i] = NoHandle] ELSE handle
       /\ busy' = [busy EXCEPT ![i] = FALSE]
  /\ doomed' = IF destroy THEN doomed \ {lease[c]} ELSE doomed
  /\ lease' = [lease EXCEPT ![c] = NoHandle]
  /\ Goto(c, next)
  /\ UNCHANGED <<poisoned, calls>>

\* Mutants: a poisoned handle goes back to the pool; nobody is notified of a
\* destroyed handle's slot.
Release_KeepsHandle(c) == ReleaseSlot(c, FALSE, "notify")
Release_NotifiesLive(c) == ReleaseSlot(c, poisoned, IF poisoned THEN "idle" ELSE "notify")

\* ~Lease: the critical section of release().
Release(c) == ReleaseSlot(c, poisoned, "notify")

\* idle_.notify_one(), after the mutex is dropped: any one waiter wakes.
Notify(c) ==
  /\ pc[c] = "notify"
  /\ IF \E w \in Clients : pc[w] = "wait"
     THEN \E w \in Clients :
            /\ pc[w] = "wait"
            /\ pc' = [pc EXCEPT ![c] = "idle", ![w] = "acquire"]
     ELSE Goto(c, "idle")
  /\ UNCHANGED <<poolVars, lease, calls, doomed>>

Step(c) ==
  /\ UNCHANGED config
  /\ \/ TakeLive(c) \/ Connect(c) \/ ConnectFails(c) \/ Wait(c)
     \/ Release(c) \/ Notify(c)

Next ==
  \/ \E c \in Clients : Step(c)
  \/ /\ UNCHANGED config
     /\ \E c \in Clients : Call(c) \/ SpuriousWake(c) \/ Invalidate(c)

(***************************************************************************)
(* A thread that is not blocked is scheduled, and a statement returns.     *)
(* Nothing makes a thread call again, wake up unasked, or fail.            *)
(***************************************************************************)
Fairness == \A c \in Clients : WF_vars(Step(c))

Spec == Init /\ [][Next]_vars
FairSpec == Spec /\ Fairness

-----------------------------------------------------------------------------
\* A client holds a connection exactly between acquire() and release().
LeaseMatchesPc ==
  \A c \in Clients : lease[c] # NoHandle <=> pc[c] \in {"leased", "failed"}

\* The types of the state; a client past acquire() has a real connection.
TypeOK ==
  /\ LeaseMatchesPc
  /\ config \in Configs
  /\ handle \in [Slots -> Handles \cup {NoHandle}]
  /\ busy \in [Slots -> BOOLEAN]
  /\ poisoned \in BOOLEAN
  /\ pc \in [Clients -> PC]
  /\ lease \in [Clients -> Handles \cup {NoHandle}]
  /\ calls \in [Clients -> Nat]
  /\ doomed \subseteq Handles

\* "A connection belongs to exactly one thread for as long as the lease
\* lives" (DbPool.h:8): two leases never name the same connection.
LeaseExclusive ==
  \A c, d \in Clients : c # d /\ lease[c] # NoHandle => lease[c] # lease[d]

\* No lease outlives its connection, however invalidate(), release() and
\* reconnection interleave: a leased handle sits in a busy slot until its
\* own client releases it (the Lease keeps a bare pointer).
LeasedIsAlive ==
  \A c \in Clients : lease[c] # NoHandle =>
    \E i \in Slots : busy[i] /\ handle[i] = lease[c]

\* No slot leaks: a busy slot's connection is held by some lease, so every
\* slot comes back when its lease dies.
BusyIsLeased ==
  \A i \in Slots : busy[i] => \E c \in Clients : lease[c] = handle[i] /\ lease[c] # NoHandle

\* Slots and leases correspond both ways, in the steps of release() and
\* invalidate() too.
LeasesHoldSlots == LeasedIsAlive /\ BusyIsLeased

Awake(c) == pc[c] \in {"acquire", "notify"}

\* acquire() blocks only "when all handles are leased" (DbPool.h:13): while a
\* client waits, either every slot is busy or someone is still on the way to
\* take the free slot or to pass a wake-up on.
WaitsOnlyWhenFull ==
  (\E w \in Clients : pc[w] = "wait") =>
    \/ \A i \in Slots : busy[i]
    \/ \E c \in Clients : Awake(c)

\* The pool keeps that promise, and nobody sleeps beside a free slot, as long
\* as no reconnect after an invalidate() fails: refused connects alone, and
\* failed statements alone, strand nobody.
NoStrandedWaiter == config.faults # {"connect", "exec"} => WaitsOnlyWhenFull

\* "Leased ones are destroyed as they are released" (DbPool.h:88-89): in the
\* pool of one that sqlite has, the only one that is ever invalidated, a handle
\* that was leased when invalidate() ran is never idle in the pool again.
InvalidatedHandlesDie ==
  config.maxConn = 1 => \A i \in Slots : handle[i] \in doomed => busy[i]

\* After an invalidate() the pool hands out no old connection: while it is
\* poisoned no idle slot holds a handle.
PoisonedHasNoIdleHandle ==
  poisoned => \A i \in Slots : handle[i] # NoHandle => busy[i]

\* Under the same condition every acquire() returns once the calls of the
\* other clients are over.
EveryAcquireReturns ==
  \A c \in Clients : pc[c] \in {"acquire", "wait"} /\ config.faults # {"connect", "exec"}
                       ~> pc[c] \in {"idle", "leased"}

\* The leases that are out.
Lessees == {c \in Clients : lease[c] # NoHandle}
Held == {<<c, lease[c]>> : c \in Lessees}

Grants == INSTANCE ExclusiveGrants WITH
            Users <- Clients, Resources <- Handles, limit <- config.maxConn, held <- Held

\* The pool implements exclusive grants of at most maxConn_ connections.
ImplementsGrants == Grants!Spec
=============================================================================
