------------------------ MODULE SharedRegistry_proofs ------------------------
(***************************************************************************)
(* What createShared() and the sweep guarantee, for any number of clients, *)
(* instances and other processes.                                          *)
(***************************************************************************)
EXTENDS SharedRegistry, TLAPS

WriterState == {"unborn", "running", "renaming", "dead"}

\* The states a client is in while it owns a pointer.
Owning(c) == pc[c] \in {"register", "in"}

RegistryTypes ==
  /\ config \in Configs
  /\ registry \in Objects \cup {None}
  /\ pc \in [Clients -> PC]
  /\ held \in [Clients -> Objects \cup {None}]
  /\ view \in [Objects -> Nat \cup {None}]
  /\ disk \in Nat
  /\ \A c \in Clients : held[c] # None <=> Owning(c)

(***************************************************************************)
(* OneInstance is not inductive alone.  That Construct makes no second     *)
(* instance rests on the empty registry that FindNone saw, and on every    *)
(* pointer in use being to the instance the registry names; nobody else    *)
(* can put one there, because one client at a time is in createShared().   *)
(***************************************************************************)
OneInv ==
  /\ \A c, d \in Clients : InCreateShared(c) /\ InCreateShared(d) => c = d
  /\ \A c \in Clients : pc[c] # "construct alone"
  /\ \A c \in Clients : pc[c] = "find" => registry = None \/ Alive(registry)
  /\ \A c \in Clients : pc[c] = "in" => held[c] = registry
  /\ \A c \in Clients : pc[c] \in {"construct", "register"} =>
       registry = None /\ \A d \in Clients : pc[d] # "in"
  /\ \A c \in Clients : held[c] # None /\ view[held[c]] # None => view[held[c]] = disk

RegistryInv == RegistryTypes /\ (Orderly => OneInv)

LEMMA InitRegistryInv == Init => RegistryInv
  BY RegistryAssumption DEF Init, RegistryInv, RegistryTypes, OneInv, Owning, PC, InCreateShared

LEMMA TypesKept ==
  ASSUME RegistryTypes, [Next]_<<config, registryVars, tempVars>>
  PROVE  RegistryTypes' /\ config' = config /\ (raced => raced')
<1> USE DEF RegistryTypes, Owning, PC, Goto
<1>0. config' = config
  BY DEF Next
<1>1. ASSUME NEW c \in Clients, Enter(c)
      PROVE  RegistryTypes' /\ (raced => raced')
  BY <1>0, <1>1 DEF Enter
<1>2. ASSUME NEW c \in Clients, FindInstance(c)
      PROVE  RegistryTypes' /\ (raced => raced')
  BY <1>0, <1>2 DEF FindInstance
<1>3. ASSUME NEW c \in Clients, FindNone(c)
      PROVE  RegistryTypes' /\ (raced => raced')
  BY <1>0, <1>3 DEF FindNone
<1>4. ASSUME NEW c \in Clients, Construct(c) \/ ConstructAlone(c)
      PROVE  RegistryTypes' /\ (raced => raced')
  <2>1. PICK o \in Objects : /\ held' = [held EXCEPT ![c] = o]
                             /\ view' = [view EXCEPT ![o] = None]
    BY <1>4 DEF Construct, ConstructAlone
  <2>2. o # None
    BY RegistryAssumption
  <2>3. UNCHANGED <<registry, disk, raced>> /\ pc' \in [Clients -> PC]
        /\ pc'[c] \in {"register", "in"} /\ \A d \in Clients \ {c} : pc'[d] = pc[d]
    BY <1>4 DEF Construct, ConstructAlone
  <2> QED
    BY <1>0, <2>1, <2>2, <2>3
<1>5. ASSUME NEW c \in Clients, Register(c)
      PROVE  RegistryTypes' /\ (raced => raced')
  BY <1>0, <1>5 DEF Register
<1>6. ASSUME NEW c \in Clients, StartAlone(c)
      PROVE  RegistryTypes' /\ (raced => raced')
  BY <1>0, <1>6 DEF StartAlone
<1>7. ASSUME NEW c \in Clients, Read(c) \/ Write(c)
      PROVE  RegistryTypes' /\ (raced => raced')
  <2>1. CASE Read(c)
    BY <1>0, <2>1 DEF Read
  <2>2. CASE Write(c)
    <3>1. held[c] \in Objects
      BY <2>2 DEF Write
    <3>2. disk \in Nat
      OBVIOUS
    <3>3. disk + 1 \in Nat
      BY ONLY <3>2
    <3> QED
      BY <1>0, <2>2, <3>1, <3>3 DEF Write
  <2> QED
    BY <1>7, <2>1, <2>2
<1>8. ASSUME NEW c \in Clients, Release(c)
      PROVE  RegistryTypes' /\ (raced => raced')
  BY <1>0, <1>8 DEF Release
<1>9. CASE UNCHANGED registryVars
  BY <1>0, <1>9 DEF registryVars
<1> QED
  BY <1>0, <1>1, <1>2, <1>3, <1>4, <1>5, <1>6, <1>7, <1>8, <1>9
     DEF Next, SweepFile, StartWriter, WriterCreatesTemp, WriterRenames, WriterDies

LEMMA OneInvKept ==
  ASSUME RegistryTypes, RegistryTypes', Orderly, Orderly', OneInv,
         [Next]_<<config, registryVars, tempVars>>
  PROVE  OneInv'
<1> USE RegistryAssumption
    DEF RegistryTypes, OneInv, Owning, PC, Goto, InCreateShared, Alive
<1>1. ASSUME NEW c \in Clients, Enter(c)
      PROVE  OneInv'
  BY ZenonT(40), <1>1 DEF Enter
<1>2. ASSUME NEW c \in Clients, FindInstance(c)
      PROVE  OneInv'
  BY ZenonT(40), <1>2 DEF FindInstance
<1>3. ASSUME NEW c \in Clients, FindNone(c)
      PROVE  OneInv'
  BY ZenonT(40), <1>3 DEF FindNone
<1>4. ASSUME NEW c \in Clients, Construct(c)
      PROVE  OneInv'
  <2>1. PICK o \in Objects : /\ held' = [held EXCEPT ![c] = o]
                             /\ view' = [view EXCEPT ![o] = None]
    BY <1>4 DEF Construct
  <2>2. registry = None /\ \A d \in Clients : held[d] = None
    BY <1>4 DEF Construct
  <2>3. UNCHANGED <<registry, disk>> /\ pc' = [pc EXCEPT ![c] = "register"]
    BY <1>4 DEF Construct
  <2>4. \A d \in Clients : held'[d] # None => d = c /\ view'[held'[d]] = None
    BY <2>1, <2>2
  <2>5. \A d \in Clients \ {c} : ~InCreateShared(d) /\ pc[d] # "in"
    BY <1>4 DEF Construct
  <2> QED
    BY ZenonT(40), <1>4, <2>2, <2>3, <2>4, <2>5
<1>5. ASSUME NEW c \in Clients, Register(c)
      PROVE  OneInv'
  BY ZenonT(40), <1>5 DEF Register
<1>6. ASSUME NEW c \in Clients, StartAlone(c) \/ ConstructAlone(c)
      PROVE  FALSE
  BY <1>6 DEF StartAlone, ConstructAlone, Orderly
<1>7. ASSUME NEW c \in Clients, Read(c)
      PROVE  OneInv'
  BY <1>7 DEF Read
<1>8. ASSUME NEW c \in Clients, Write(c)
      PROVE  OneInv'
  BY ZenonT(40), <1>8 DEF Write
<1>9. ASSUME NEW c \in Clients, Release(c)
      PROVE  OneInv'
  BY ZenonT(40), <1>9 DEF Release, Orderly
<1>10. CASE UNCHANGED registryVars
  BY <1>10 DEF registryVars
<1> QED
  BY <1>1, <1>2, <1>3, <1>4, <1>5, <1>6, <1>7, <1>8, <1>9, <1>10
     DEF Next, SweepFile, StartWriter, WriterCreatesTemp, WriterRenames, WriterDies, registryVars

LEMMA RegistryInvariant == Spec => []RegistryInv
<1>1. RegistryInv /\ [Next]_<<config, registryVars, tempVars>> => RegistryInv'
  BY TypesKept, OneInvKept DEF RegistryInv, Orderly
<1> QED
  BY InitRegistryInv, <1>1, PTL DEF Spec

\* "One shared instance per resolved file path": for any number of threads,
\* unless a last pointer goes between the purge and the lookup of a
\* createShared() or DbBase makes an instance of its own.
THEOREM OneInstancePerPath == Spec => []OneInstance
<1>1. RegistryInv => OneInstance
  <2> SUFFICES ASSUME RegistryInv, Orderly, NEW c \in Clients, NEW d \in Clients,
                      held[c] # None, held[d] # None
               PROVE  held[c] = held[d]
    BY DEF OneInstance
  <2>1. Owning(c) /\ Owning(d)
    BY DEF RegistryInv, RegistryTypes
  <2> QED
    BY <2>1 DEF RegistryInv, OneInv, Owning, InCreateShared
<1> QED
  BY RegistryInvariant, <1>1, PTL

\* Then a read through any pointer sees every write this process was told of.
THEOREM ReadsSeeOwnWrites == Spec => []ReadsAreCurrent
<1>1. RegistryInv => ReadsAreCurrent
  BY DEF RegistryInv, OneInv, ReadsAreCurrent
<1> QED
  BY RegistryInvariant, <1>1, PTL

\* No constructor sweeps the temp file of a running process that kill() can see,
\* whatever ids are given out again meanwhile.
THEOREM RunningWritersKeepTemps == Spec => []LiveTempsKept
<1> DEFINE Inv == writer \in [Writers -> WriterState] /\ LiveTempsKept
<1>1. Init => Inv
  BY DEF Init, LiveTempsKept, WriterState
<1>2. Inv /\ [Next]_<<config, registryVars, tempVars>> => Inv'
  <2> SUFFICES ASSUME Inv, [Next]_<<config, registryVars, tempVars>>
               PROVE  Inv'
    OBVIOUS
  <2> USE DEF LiveTempsKept, WriterState
  <2>0. config' = config
    BY DEF Next
  <2>1. ASSUME NEW c \in Clients, SweepFile(c)
        PROVE  Inv'
    BY <2>0, <2>1 DEF SweepFile, IsStale, IsProcessAlive
  <2>2. ASSUME NEW w \in Writers, StartWriter(w) \/ WriterDies(w)
        PROVE  Inv'
    BY <2>0, <2>2 DEF StartWriter, WriterDies
  <2>3. ASSUME NEW w \in Writers, WriterCreatesTemp(w) \/ WriterRenames(w)
        PROVE  Inv'
    BY <2>0, <2>3 DEF WriterCreatesTemp, WriterRenames
  <2>4. CASE UNCHANGED <<writer, temps>>
    BY <2>0, <2>4
  <2> QED
    BY <2>1, <2>2, <2>3, <2>4
       DEF Next, tempVars, Enter, FindInstance, FindNone, Construct, Register, StartAlone,
           ConstructAlone, Read, Write, Release
<1> QED
  BY <1>1, <1>2, PTL DEF Spec

-----------------------------------------------------------------------------
(***************************************************************************)
(* A file that was stale when a sweep began can only be passed over when   *)
(* its writer's id is in use again.  That takes two facts about it while   *)
(* it lasts: its own writer is dead or out of kill()'s sight, so whoever   *)
(* answers for the id is somebody else; and no writer in whose name a file *)
(* exists is still to be born, so none can come to life under the sweep.   *)
(***************************************************************************)
OutOfSight(w) == writer[w] = "dead" \/ w \in config.remote \cup config.hidden

SuccessorOf(w, v) == config.pid[v] = config.pid[w] /\ writer[v] # "unborn"

Passed(c, w) == w \in looked[c] \/ (~config.unlisted /\ ~Constructing(c))

SweepInv ==
  /\ pc \in [Clients -> PC]
  /\ writer \in [Writers -> WriterState]
  /\ temps \subseteq Writers
  /\ looked \in [Clients -> SUBSET Writers]
  /\ leftover \in [Clients -> SUBSET Writers]
  /\ \A w \in temps : writer[w] # "unborn"
  /\ \A c \in Clients : \A w \in leftover[c] \cap temps :
       /\ config.pid[w] # OwnPid
       /\ OutOfSight(w)
       /\ ~config.stuck /\ Passed(c, w) => \E v \in Writers \ {w} : SuccessorOf(w, v)

LEMMA InitSweepInv == Init => SweepInv
  BY DEF Init, SweepInv, WriterState, PC

LEMMA SweepInvKept ==
  SweepInv /\ [Next]_<<config, registryVars, tempVars>> => SweepInv'
<1> SUFFICES ASSUME SweepInv, [Next]_<<config, registryVars, tempVars>>
             PROVE  SweepInv'
  OBVIOUS
<1> USE DEF SweepInv, WriterState, OutOfSight, SuccessorOf, Passed
<1>0. config' = config
  BY DEF Next
<1>1. ASSUME NEW c \in Clients, StartSweep(c), UNCHANGED <<writer, temps>>,
             pc' \in [Clients -> PC], Constructing(c)',
             \A d \in Clients \ {c} : pc'[d] = pc[d]
      PROVE  SweepInv'
  <2>0. \A d \in Clients : Constructing(d) => Constructing(d)'
    BY <1>1 DEF Constructing
  <2>1. \A w \in temps : IsStale(w) => config.pid[w] # OwnPid /\ OutOfSight(w)
    BY DEF IsStale, IsProcessAlive
  <2>2. /\ looked' = [looked EXCEPT ![c] = {}]
        /\ leftover' = [leftover EXCEPT ![c] = {w \in temps : IsStale(w)}]
    BY <1>1 DEF StartSweep
  <2>3. \A d \in Clients : \A w \in leftover'[d] \cap temps :
          config.pid[w] # OwnPid /\ OutOfSight(w)
    BY <2>1, <2>2
  <2>4. \A d \in Clients : \A w \in leftover'[d] \cap temps : Passed(d, w)' =>
          w \in leftover[d] /\ Passed(d, w)
    BY <1>0, <1>1, <2>0, <2>2
  <2> QED
    BY <1>0, <1>1, <2>2, <2>3, <2>4
<1>2. ASSUME NEW c \in Clients, SweepFile(c)
      PROVE  SweepInv'
  <2>1. PICK w \in temps \ looked[c] :
          /\ looked' = [looked EXCEPT ![c] = @ \cup {w}]
          /\ \/ temps' = IF IsStale(w) THEN temps \ {w} ELSE temps
             \/ config.stuck /\ temps' = temps
    BY <1>2 DEF SweepFile
  <2>2. UNCHANGED <<pc, writer, leftover>> /\ temps' \subseteq temps
    BY <1>2, <2>1 DEF SweepFile, registryVars
  <2>3. ASSUME ~config.stuck, w \in leftover[c] \cap temps'
        PROVE  \E v \in Writers \ {w} : SuccessorOf(w, v)
    <3>1. config.pid[w] # OwnPid /\ OutOfSight(w) /\ ~IsStale(w)
      BY <2>1, <2>3
    <3>2. PICK v \in Writers : /\ config.pid[v] = config.pid[w]
                               /\ writer[v] \in {"running", "renaming"}
                               /\ v \notin config.remote \cup config.hidden
      BY <3>1 DEF IsStale, IsProcessAlive
    <3> QED
      BY <3>1, <3>2
  <2>4. \A d \in Clients : \A v \in temps' :
          Passed(d, v)' => Passed(d, v) \/ (d = c /\ v = w)
    BY <1>0, <2>1, <2>2 DEF Constructing
  <2> QED
    BY <1>0, <2>1, <2>2, <2>3, <2>4
<1>3. ASSUME NEW c \in Clients, EndSweep(c), UNCHANGED <<writer, temps>>,
             pc' \in [Clients -> PC], \A d \in Clients \ {c} : pc'[d] = pc[d]
      PROVE  SweepInv'
  <2>1. /\ Swept(c) \/ config.unlisted
        /\ looked' = [looked EXCEPT ![c] = {}]
        /\ leftover' = leftover
    BY <1>3 DEF EndSweep
  <2>2. \A d \in Clients : \A w \in leftover[d] \cap temps :
          Passed(d, w)' => Passed(d, w)
    BY <1>0, <1>3, <2>1 DEF Constructing, Swept
  <2> QED
    BY <1>0, <1>3, <2>1, <2>2
<1>4. ASSUME NEW w \in Writers, StartWriter(w) \/ WriterDies(w)
      PROVE  SweepInv'
  <2>1. UNCHANGED <<pc, temps, looked, leftover>>
    BY <1>4 DEF StartWriter, WriterDies, registryVars
  <2>2. /\ writer' \in [Writers -> WriterState]
        /\ \A v \in Writers : writer[v] # "unborn" => writer'[v] # "unborn"
        /\ \A v \in Writers : writer[v] = "dead" => writer'[v] = "dead"
    BY <1>4 DEF StartWriter, WriterDies
  <2>3. \A c \in Clients : \A v \in temps : Passed(c, v)' <=> Passed(c, v)
    BY <1>0, <2>1 DEF Constructing
  <2> QED
    BY <1>0, <2>1, <2>2, <2>3
<1>5. ASSUME NEW w \in Writers, WriterCreatesTemp(w)
      PROVE  SweepInv'
  <2>1. /\ writer[w] = "running" /\ writer' = [writer EXCEPT ![w] = "renaming"]
        /\ temps' = temps \cup {w}
        /\ looked' = [c \in Clients |-> looked[c] \ {w}]
        /\ leftover' = [c \in Clients |-> leftover[c] \ {w}]
        /\ pc' = pc
    BY <1>5 DEF WriterCreatesTemp, registryVars
  <2>2. \A c \in Clients : \A v \in leftover'[c] \cap temps' :
          v \in leftover[c] \cap temps /\ (Passed(c, v)' => Passed(c, v))
    BY <1>0, <2>1 DEF Constructing
  <2> QED
    BY <1>0, <2>1, <2>2
<1>6. ASSUME NEW w \in Writers, WriterRenames(w)
      PROVE  SweepInv'
  <2>1. /\ writer' = [writer EXCEPT ![w] = "running"]
        /\ temps' = temps \ {w}
        /\ UNCHANGED <<pc, looked, leftover>>
    BY <1>6 DEF WriterRenames, registryVars
  <2>2. \A c \in Clients : \A v \in temps' : Passed(c, v)' <=> Passed(c, v)
    BY <1>0, <2>1 DEF Constructing
  <2> QED
    BY <1>0, <1>6, <2>1, <2>2 DEF WriterRenames
<1>7. ASSUME UNCHANGED tempVars, pc' \in [Clients -> PC],
             \A c \in Clients : Constructing(c)' <=> Constructing(c)
      PROVE  SweepInv'
  <2>1. \A c \in Clients : \A w \in temps : Passed(c, w)' <=> Passed(c, w)
    BY <1>0, <1>7 DEF tempVars
  <2> QED
    BY <1>0, <1>7, <2>1 DEF tempVars
<1>8. ASSUME NEW c \in Clients, FindNone(c) \/ StartAlone(c)
      PROVE  SweepInv'
  <2>1. /\ StartSweep(c) /\ UNCHANGED <<writer, temps>>
        /\ \/ pc' = [pc EXCEPT ![c] = "construct"]
           \/ pc' = [pc EXCEPT ![c] = "construct alone"]
    BY <1>8 DEF FindNone, StartAlone, Goto
  <2>2. /\ pc' \in [Clients -> PC] /\ pc'[c] \in {"construct", "construct alone"}
        /\ \A d \in Clients \ {c} : pc'[d] = pc[d]
    BY <2>1 DEF PC
  <2> QED
    BY <1>1, <2>1, <2>2 DEF Constructing
<1>9. ASSUME NEW c \in Clients, Construct(c) \/ ConstructAlone(c)
      PROVE  SweepInv'
  <2>1. /\ EndSweep(c) /\ UNCHANGED <<writer, temps>>
        /\ \/ pc' = [pc EXCEPT ![c] = "register"]
           \/ pc' = [pc EXCEPT ![c] = "in"]
    BY <1>9 DEF Construct, ConstructAlone, Goto
  <2>2. pc' \in [Clients -> PC] /\ \A d \in Clients \ {c} : pc'[d] = pc[d]
    BY <2>1 DEF PC
  <2> QED
    BY <1>3, <2>1, <2>2
<1>10. ASSUME NEW c \in Clients,
              Enter(c) \/ FindInstance(c) \/ Register(c) \/ Read(c) \/ Write(c)
       PROVE  SweepInv'
  BY <1>7, <1>10
     DEF Enter, FindInstance, Register, Read, Write, Goto, Constructing, PC
<1>11. ASSUME NEW c \in Clients, Release(c)
       PROVE  SweepInv'
  <2>1. /\ pc[c] = "in" /\ pc' = [pc EXCEPT ![c] = "out"]
        /\ leftover' = [leftover EXCEPT ![c] = {}]
        /\ UNCHANGED <<writer, temps, looked>>
    BY <1>11 DEF Release, Goto
  <2>2. /\ pc' \in [Clients -> PC]
        /\ \A d \in Clients : Constructing(d)' <=> Constructing(d)
    BY <2>1 DEF PC, Constructing
  <2>3. \A d \in Clients : \A w \in temps : Passed(d, w)' <=> Passed(d, w)
    BY <1>0, <2>1, <2>2
  <2>4. /\ leftover' \in [Clients -> SUBSET Writers]
        /\ \A d \in Clients : leftover'[d] \subseteq leftover[d]
    BY <2>1
  <2> QED
    BY <1>0, <2>1, <2>2, <2>3, <2>4
<1>12. CASE UNCHANGED <<config, registryVars, tempVars>>
  BY <1>7, <1>12 DEF registryVars, Constructing
<1> QED
  BY <1>2, <1>4, <1>5, <1>6, <1>8, <1>9, <1>10, <1>11, <1>12 DEF Next

\* For any number of sweeps and writers at once, a constructed instance has left no
\* file that was stale when its sweep began, unless the writer's id is in use again,
\* files resist removal or the directory could not be read to its end.
THEOREM SweepsAreThorough == Spec => []SweepIsThorough
<1>1. SweepInv => SweepIsThorough
  BY DEF SweepInv, SweepIsThorough, Passed, SuccessorOf
<1> QED
  BY <1>1, InitSweepInv, SweepInvKept, PTL DEF Spec
=============================================================================
