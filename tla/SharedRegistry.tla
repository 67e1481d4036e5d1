---------------------------- MODULE SharedRegistry ----------------------------
(***************************************************************************)
(* The instances of the JSON engine that one process has on one data file. *)
(* createShared() hands out the instance that a registry of weak pointers  *)
(* names; DbBase makes one of its own.  An instance dies with its last     *)
(* pointer, which no mutex guards.  Every constructor sweeps the temp      *)
(* files that dead writers of other processes left beside the data file.   *)
(* What an instance does with the file is JsonFileDb's subject: here a     *)
(* write is one step, and a read answers from what the instance loaded.    *)
(***************************************************************************)
EXTENDS Naturals

CONSTANTS
  Clients,   \* threads of this process, with at most one pointer each
  Objects,   \* instances that may be made
  Writers,   \* other processes, each of which replaces the data file
  Pids,      \* process ids
  OwnPid,    \* the id of this process
  None,      \* no instance; nothing loaded yet
  Configs,   \* the surroundings to look at
  MaxWrites  \* bound: writes of this process

\* direct: DbBase makes instances too; pid: the ids of the writers; remote: the
\* writers on another machine; hidden: those whose processes kill() may not
\* look at; stuck: a temp file may resist removal; unlisted: the directory may
\* fail to open or to give its next entry.
Surroundings ==
  [direct : BOOLEAN, pid : [Writers -> Pids], remote : SUBSET Writers,
   hidden : SUBSET Writers, stuck : BOOLEAN, unlisted : BOOLEAN]

ASSUME RegistryAssumption ==
  /\ None \notin Objects /\ None \notin Nat
  /\ OwnPid \in Pids
  /\ Configs \subseteq Surroundings
  /\ MaxWrites \in Nat

VARIABLES
  config,    \* the surroundings, which do not change
  registry,  \* s_instances_[path]: the instance of the weak pointer, or None
  pc,        \* where each client is
  held,      \* the instance each client's shared_ptr owns
  view,      \* view[o]: how many writes the mirror of o holds, None before a load
  disk,      \* how many acknowledged writes the data file holds
  raced,     \* history: an instance died between the purge and the lookup
  writer,    \* what each other process is doing
  temps,     \* the writers whose temp file exists
  looked,    \* temp files the sweep of each client has passed
  leftover   \* history: temp files that were stale when that sweep began, while
             \* the client has its pointer

registryVars == <<registry, pc, held, view, disk, raced>>
tempVars == <<writer, temps, looked, leftover>>

PC == {"out", "find", "construct", "register", "construct alone", "in"}

Alive(o) == \E c \in Clients : held[c] = o
InCreateShared(c) == pc[c] \in {"find", "construct", "register"}
Constructing(c) == pc[c] \in {"construct", "construct alone"}

Goto(c, to) == pc' = [pc EXCEPT ![c] = to]

\* A process that had this one's id before left a temp file and is gone.
Init ==
  /\ config \in Configs
  /\ registry = None
  /\ pc = [c \in Clients |-> "out"]
  /\ held = [c \in Clients |-> None]
  /\ view = [o \in Objects |-> None]
  /\ disk = 0
  /\ raced = FALSE
  /\ writer = [w \in Writers |-> IF config.pid[w] = OwnPid /\ w \notin config.remote
                                 THEN "dead" ELSE "unborn"]
  /\ temps = {w \in Writers : writer[w] = "dead"}
  /\ looked = [c \in Clients |-> {}]
  /\ leftover = [c \in Clients |-> {}]

-----------------------------------------------------------------------------
(* Temp files.                                                             *)

\* isProcessAlive() asks this machine for the process id.
IsProcessAlive(pid) ==
  \E w \in Writers : /\ config.pid[w] = pid
                     /\ writer[w] \in {"running", "renaming"}
                     /\ w \notin config.remote \cup config.hidden

\* Mutant: every file of another process is swept.
IsStale_AnyOther(w) == config.pid[w] # OwnPid

\* Mutant: a temp file counts as in use while any writer runs.
IsStale_NobodyRuns(w) ==
  config.pid[w] # OwnPid /\ \A v \in Writers : writer[v] \in {"unborn", "dead"}

IsStale(w) == config.pid[w] # OwnPid /\ ~IsProcessAlive(config.pid[w])

\* The constructor of an instance begins to read the directory.
StartSweep(c) ==
  /\ looked' = [looked EXCEPT ![c] = {}]
  /\ leftover' = [leftover EXCEPT ![c] = {w \in temps : IsStale(w)}]

\* One round of the loop.  A dead writer does not come back to its file, whose
\* name is unique, so the check and the removal may be one step.
SweepFile(c) ==
  /\ Constructing(c)
  /\ \E w \in temps \ looked[c] :
       /\ looked' = [looked EXCEPT ![c] = @ \cup {w}]
       /\ \/ temps' = IF IsStale(w) THEN temps \ {w} ELSE temps
          \/ config.stuck /\ temps' = temps
  /\ UNCHANGED <<registryVars, writer, leftover>>

\* The iterator has met every file that was there all along.
Swept(c) == leftover[c] \cap temps \subseteq looked[c]

\* The loop ends behind the last entry, and without a word at the first error of
\* the iterator, which may be that of its construction.
EndSweep(c) ==
  /\ Swept(c) \/ config.unlisted
  /\ looked' = [looked EXCEPT ![c] = {}]
  /\ UNCHANGED leftover

\* A process gets an id that no process of its machine has.
StartWriter(w) ==
  /\ writer[w] = "unborn"
  /\ \A v \in Writers \ {w} :
       config.pid[v] = config.pid[w] => writer[v] \in {"unborn", "dead"}
  /\ writer' = [writer EXCEPT ![w] = "running"]
  /\ UNCHANGED <<registryVars, temps, looked, leftover>>

\* writeFileAtomic() of another process: a temp file with a name of its own, then
\* the rename.  Without its temp file the rename fails, and the data file is
\* written in place.
WriterCreatesTemp(w) ==
  /\ writer[w] = "running"
  /\ writer' = [writer EXCEPT ![w] = "renaming"]
  /\ temps' = temps \cup {w}
  /\ looked' = [c \in Clients |-> looked[c] \ {w}]
  /\ leftover' = [c \in Clients |-> leftover[c] \ {w}]
  /\ UNCHANGED registryVars

WriterRenames(w) ==
  /\ writer[w] = "renaming"
  /\ writer' = [writer EXCEPT ![w] = "running"]
  /\ temps' = temps \ {w}
  /\ UNCHANGED <<registryVars, looked, leftover>>

WriterDies(w) ==
  /\ writer[w] \in {"running", "renaming"}
  /\ writer' = [writer EXCEPT ![w] = "dead"]
  /\ UNCHANGED <<registryVars, temps, looked, leftover>>

-----------------------------------------------------------------------------
(* createShared(), under s_mutex_ from Enter to the return.                *)

\* Mutant: expired entries stay.
Enter_NoPurge(c) ==
  /\ pc[c] = "out"
  /\ \A d \in Clients : ~InCreateShared(d)
  /\ Goto(c, "find")
  /\ UNCHANGED <<registry, held, view, disk, raced, tempVars>>

\* Takes the mutex and purges the entry if it has expired.
Enter(c) ==
  /\ pc[c] = "out"
  /\ \A d \in Clients : ~InCreateShared(d)
  /\ registry' = IF Alive(registry) THEN registry ELSE None
  /\ Goto(c, "find")
  /\ UNCHANGED <<held, view, disk, raced, tempVars>>

\* weak_ptr::lock() gives a pointer to an instance that is still alive.
FindInstance(c) ==
  /\ pc[c] = "find"
  /\ registry # None /\ Alive(registry)
  /\ held' = [held EXCEPT ![c] = registry]
  /\ Goto(c, "in")
  /\ UNCHANGED <<registry, view, disk, raced, tempVars>>

FindNone(c) ==
  /\ pc[c] = "find"
  /\ registry = None \/ ~Alive(registry)
  /\ Goto(c, "construct")
  /\ StartSweep(c)
  /\ UNCHANGED <<registry, held, view, disk, raced, writer, temps>>

\* make_shared: an instance that nobody holds and no weak pointer keeps.
Construct(c) ==
  /\ pc[c] = "construct"
  /\ EndSweep(c)
  /\ \E o \in Objects \ {registry} :
       /\ ~Alive(o)
       /\ held' = [held EXCEPT ![c] = o]
       /\ view' = [view EXCEPT ![o] = None]
  /\ Goto(c, "register")
  /\ UNCHANGED <<registry, disk, raced, writer, temps>>

\* emplace() adds no entry when the key has one, expired or not.
Register(c) ==
  /\ pc[c] = "register"
  /\ registry' = IF registry = None THEN held[c] ELSE registry
  /\ Goto(c, "in")
  /\ UNCHANGED <<held, view, disk, raced, tempVars>>

-----------------------------------------------------------------------------
(* DbBase: "new JsonFileDb", without the registry and its mutex.           *)

StartAlone(c) ==
  /\ config.direct
  /\ pc[c] = "out"
  /\ Goto(c, "construct alone")
  /\ StartSweep(c)
  /\ UNCHANGED <<registry, held, view, disk, raced, writer, temps>>

ConstructAlone(c) ==
  /\ pc[c] = "construct alone"
  /\ EndSweep(c)
  /\ \E o \in Objects \ {registry} :
       /\ ~Alive(o)
       /\ held' = [held EXCEPT ![c] = o]
       /\ view' = [view EXCEPT ![o] = None]
  /\ Goto(c, "in")
  /\ UNCHANGED <<registry, disk, raced, writer, temps>>

-----------------------------------------------------------------------------
(* The pointers at work.                                                   *)

\* A read loads the file once; afterwards it answers from the mirror.
Read(c) ==
  /\ pc[c] = "in"
  /\ view[held[c]] = None
  /\ view' = [view EXCEPT ![held[c]] = disk]
  /\ UNCHANGED <<registry, pc, held, disk, raced, tempVars>>

\* Mutant: the mirror keeps what it held.
Write_KeepsMirror(c) ==
  /\ pc[c] = "in"
  /\ disk < MaxWrites
  /\ disk' = disk + 1
  /\ UNCHANGED <<registry, pc, held, view, raced, tempVars>>

\* A write reloads the file, changes it and replaces it.
Write(c) ==
  /\ pc[c] = "in"
  /\ disk < MaxWrites
  /\ disk' = disk + 1
  /\ view' = [view EXCEPT ![held[c]] = disk + 1]
  /\ UNCHANGED <<registry, pc, held, raced, tempVars>>

\* The instance dies with its last pointer; its registry entry expires.
Release(c) ==
  /\ pc[c] = "in"
  /\ held' = [held EXCEPT ![c] = None]
  /\ Goto(c, "out")
  /\ raced' = (raced \/ /\ held[c] = registry
                        /\ \A d \in Clients \ {c} : held[d] # registry
                        /\ \E d \in Clients : pc[d] = "find")
  /\ leftover' = [leftover EXCEPT ![c] = {}]
  /\ UNCHANGED <<registry, view, disk, writer, temps, looked>>

Next ==
  /\ UNCHANGED config
  /\ \/ \E c \in Clients :
          \/ Enter(c) \/ FindInstance(c) \/ FindNone(c) \/ SweepFile(c) \/ Construct(c)
          \/ Register(c) \/ StartAlone(c) \/ ConstructAlone(c)
          \/ Read(c) \/ Write(c) \/ Release(c)
     \/ \E w \in Writers :
          StartWriter(w) \/ WriterCreatesTemp(w) \/ WriterRenames(w) \/ WriterDies(w)

Spec == Init /\ [][Next]_<<config, registryVars, tempVars>>

-----------------------------------------------------------------------------
\* No instance has died under a createShared() that still saw its entry, and
\* every pointer came from createShared().
Orderly == ~raced /\ ~config.direct

\* "One shared instance per resolved file path" (JsonFileDb.h:32), whichever
\* threads open and release it, as long as every pointer comes from
\* createShared() and no last pointer goes between its purge and its lookup.
OneInstance ==
  Orderly => \A c, d \in Clients : held[c] # None /\ held[d] # None => held[c] = held[d]

\* What the one instance is for: reads answer from a mirror that is never loaded
\* again, so a read through any pointer sees every acknowledged write of this
\* process only if they all share one mirror.
ReadsAreCurrent ==
  Orderly => \A c \in Clients :
               held[c] # None /\ view[held[c]] # None => view[held[c]] = disk

\* "A temp file whose writer is still running is left alone, because it may be
\* an in-flight atomic replace of another process" (JsonFileDb.cpp:2153-2155): so
\* it is when the writer is one that this machine lets this process see, also
\* while process ids are given out again.
LiveTempsKept ==
  \A w \in Writers : writer[w] = "renaming" /\ w \notin config.remote \cup config.hidden
                     /\ config.pid[w] # OwnPid => w \in temps

\* A constructed instance has left no file beside the data file that was stale when
\* its sweep began, unless the id of the file's writer has been given to another
\* process.  It is so where files can be removed and the directory can be read to
\* its end: the sweep ignores both errors (JsonFileDb.cpp:2164-2165 and 2180-2181),
\* and what it has not met stays for the next instance.
SweepIsThorough ==
  ~config.stuck /\ ~config.unlisted =>
    \A c \in Clients : ~Constructing(c) =>
      \A w \in leftover[c] \cap temps :
        \E v \in Writers \ {w} : config.pid[v] = config.pid[w] /\ writer[v] # "unborn"
=============================================================================
