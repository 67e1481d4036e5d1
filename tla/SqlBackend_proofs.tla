-------------------------- MODULE SqlBackend_proofs --------------------------
(***************************************************************************)
(* The calls on a shared SQL backend object take effect whole or not at    *)
(* all, say which, and leave no transaction behind, for any number of      *)
(* threads, connections and rows and any calls.                            *)
(***************************************************************************)
EXTENDS SqlBackend, FiniteSetTheorems, SequenceTheorems, TLAPS

Fields ==
  {"pc", "call", "part", "numbers", "ptr", "kind", "page", "records", "result", "applied", "calls"}

Building == {"build", "number", "advance", "drop", "escape"}
Leasing == {"begin", "exec", "heal", "commit", "rollback", "check", "read", "count"}
Pcs == {"idle", "acquire", "return"} \cup Building \cup Leasing

ThisPart(c) == st[c].call.parts[st[c].part]
HasRows(c) == IF st[c].call.op = "rows" THEN st[c].part - 1 ELSE 0

(***************************************************************************)
(* The locals of one thread: which steps belong to which call, and what    *)
(* its answer will say.                                                    *)
(***************************************************************************)
InCall(c) ==
  /\ c \in config.clients
  /\ st[c].call \in config.calls
  /\ st[c].part \in DOMAIN st[c].call.parts

RightStep(c) ==
  /\ st[c].pc \in {"read", "count"} => st[c].call.op = "select"
  /\ st[c].pc \in {"begin", "commit", "rollback"} => IsTrans(c)
  /\ At(c, "check") => IsCreate(c) /\ st[c].kind = Nil
  /\ At(c, "exec") => st[c].call.op # "select"
  /\ At(c, "heal") => st[c].call.op \notin {"select", "trans"} /\ ~IsCreate(c)
  /\ IsCreate(c) /\ (At(c, "exec") \/ st[c].pc \in Building) => st[c].kind # Nil
  /\ IsTrans(c) /\ st[c].pc \in {"acquire", "begin"} => st[c].part = 1
  /\ At(c, "commit") => st[c].part = Len(st[c].call.parts)
  /\ st[c].pc \in {"number", "advance"} => config.mode = "numbered"
  /\ st[c].pc \in {"drop", "escape"} => config.mode = "escaped"

RightAnswer(c) ==
  IF At(c, "return") /\ st[c].call.op # "select"
  THEN \/ st[c].result = "success" /\ st[c].applied = HasRows(c) + 1
       \/ st[c].result = "failed" /\ st[c].applied = HasRows(c)
  ELSE /\ st[c].applied = HasRows(c)
       /\ st[c].result \in IF At(c, "return") THEN {"success", "failed"} ELSE {Nil}

Locals(c) ==
  /\ DOMAIN st[c] = Fields
  /\ st[c].pc \in Pcs
  /\ st[c].kind \in {Nil, "insert", "update"}
  /\ IF At(c, "idle") THEN st[c].call = NoCall /\ st[c].kind = Nil /\ st[c].part = 1 ELSE InCall(c)
  /\ RightStep(c)
  /\ RightAnswer(c)

LocalsInv ==
  /\ config \in Uses /\ (config.heals => \A call \in config.calls : call.op \notin Dm8Ops)
  /\ st = [c \in Clients |-> st[c]]
  /\ \A c \in Clients : Locals(c)

(***************************************************************************)
(* The leases: who holds one is said by where it is.                       *)
(***************************************************************************)
Holding(c) == st[c].pc \in Leasing \/ (IsTrans(c) /\ st[c].pc \in Building)
Has(c, h) == <<<<c, "own">>, h>> \in held

Grants ==
  /\ held \subseteq Leases \X config.conns
  /\ \A g1, g2 \in held : g1[1] = g2[1] \/ g1[2] = g2[2] => g1 = g2

LeaseInv ==
  /\ Grants
  /\ \A c \in Clients :
       /\ Holding(c) => Leased(c)
       /\ Leased(c) => Holding(c) \/ At(c, "return")

(***************************************************************************)
(* The sessions: a transaction has its call, and holds the statements that *)
(* the call has run.                                                       *)
(***************************************************************************)
InTrans(c) == IsTrans(c) /\ st[c].pc \in Building \cup {"exec", "commit", "rollback"}

Clean ==
  ~RawTransactions =>
    \A h \in Conns : tx[h] # NoTx => \E c \in Clients : Has(c, h) /\ InTrans(c)

Tracked ==
  config.nested = "refused" \/ ~RawTransactions =>
    \A c \in Clients, h \in Conns : Has(c, h) /\ InTransaction(c) => tx[h] = SoFar(c)

Sessions == [Conns -> Seq(Statements) \cup {NoTx}]

SessionInv ==
  /\ tx \in Sessions
  /\ Clean
  /\ Tracked

(***************************************************************************)
(* A connection that has broken is owed one failed write, until the call   *)
(* that this has happened to is about to heal the pool.                    *)
(***************************************************************************)
Healing(h) == \E c \in Clients : Has(c, h) /\ At(c, "heal")
Owed == IF \E h \in broken : ~Healing(h) THEN 1 ELSE 0

HealInv ==
  /\ toll \in [breaks : Nat, lost : Nat]
  /\ broken \subseteq config.conns
  /\ config.heals => Cardinality(config.conns) = 1 /\ toll.lost + Owed <= toll.breaks

(***************************************************************************)
(* What one thread alone can rely on.                                      *)
(***************************************************************************)
UpTo(n) == [i \in 1..n |-> i]
IsNumbered(c) ==
  \/ At(c, "exec")
  \/ At(c, "acquire") /\ ~IsTrans(c) /\ (IsCreate(c) => st[c].kind # Nil)

NumberInv ==
  \A c \in Clients : config.clients = {c} /\ config.mode = "numbered" =>
    /\ At(c, "number") =>
         \E n \in 0..(Values - 1) : st[c].numbers = UpTo(n) /\ counter = n + 1
    /\ At(c, "advance") => \E n \in 1..Values : st[c].numbers = UpTo(n)
    /\ IsNumbered(c) /\ ThisPart(c).built => st[c].numbers = UpTo(Values)

CreateInv ==
  \A c \in Clients : config.clients = {c} /\ config.faults = {} /\ ~RawTransactions =>
    /\ broken = {}
    /\ IsCreate(c) => st[c].result # "failed"
    /\ IsCreate(c) /\ st[c].kind = "insert" /\ ~At(c, "return") =>
         \A k \in ThisPart(c).keys : table[k] = NoRow

RowsOn(h) == Cardinality({k \in Keys : Session(h)[k] # NoRow})
PageOf(n) == IF n = 0 THEN 0 ELSE 1

SnapshotInv ==
  Cardinality(config.conns) = 1 =>
    \A c \in Clients :
      /\ \A h \in Conns : Has(c, h) /\ At(c, "count") => st[c].page = PageOf(RowsOn(h))
      /\ st[c].call.op = "select" /\ st[c].result = "success" => (st[c].page = 0 <=> st[c].records = 0)

CallsInv == LocalsInv /\ LeaseInv /\ SessionInv
BackendInv == CallsInv /\ HealInv /\ NumberInv /\ CreateInv /\ SnapshotInv

-----------------------------------------------------------------------------
(* The calls and the surroundings.                                         *)

LEMMA UseTypes ==
  ASSUME LocalsInv
  PROVE  /\ config.clients \subseteq Clients /\ config.conns \subseteq Conns
         /\ \A call \in config.calls :
              /\ call.op \in Ops /\ call.op # "none"
              /\ call.parts \in Seq(Statements) /\ Len(call.parts) \in Nat \ {0}
              /\ DOMAIN call.parts = 1..Len(call.parts)
              /\ call.op \in Dm8Ops =>
                   \A i \in DOMAIN call.parts : \E k \in Keys : call.parts[i].keys = {k}
<1>1. config.clients \subseteq Clients /\ config.conns \subseteq Conns /\ config.calls \subseteq Calls
  BY DEF LocalsInv, Uses
<1>2. ASSUME NEW call \in config.calls
      PROVE  /\ call.op \in Ops /\ call.parts \in Seq(Statements) /\ call.parts # <<>>
             /\ call.op \in Dm8Ops =>
                  \A i \in DOMAIN call.parts : \E k \in Keys : call.parts[i].keys = {k}
  BY <1>1, CallAssumption
<1>3. ASSUME NEW call \in config.calls
      PROVE  Len(call.parts) \in Nat \ {0} /\ DOMAIN call.parts = 1..Len(call.parts)
  BY <1>2, EmptySeq, LenProperties
<1>4. "none" \notin Ops
  BY DEF Ops, Dm8Ops
<1> QED
  BY <1>1, <1>2, <1>3, <1>4

LEMMA Framed ==
  ASSUME LocalsInv, UNCHANGED config, NEW c \in Clients, st' = [st EXCEPT ![c] = st'[c]], Locals(c)'
  PROVE  LocalsInv' /\ \A d \in Clients \ {c} : st'[d] = st[d]
BY DEF LocalsInv, Locals, InCall, RightStep, RightAnswer, At, IsTrans, IsCreate, HasRows

LEMMA Updated ==
  ASSUME LocalsInv, NEW c \in Clients, NEW fields, Update(c, fields)
  PROVE  st' = [st EXCEPT ![c] = st'[c]]
BY DEF LocalsInv, Update

\* A step moves the thread that makes it.
LEMMA OneMoves ==
  ASSUME LocalsInv, NEW c \in config.clients,
         Step(c) \/ \E call \in config.calls : Start(c, call)
  PROVE  c \in Clients /\ st' = [st EXCEPT ![c] = st'[c]]
<1>1. c \in Clients
  BY UseTypes
<1>2. PICK fields : Update(c, fields)
  BY DEF Step, Start, BuildPlain, ElementRejected, ResetPlaceholders, ReadPlaceholder, WritePlaceholder,
         EscapeLease, EscapeRefused, EscapeDrop, EscapeUse, Acquire, Refused, NextRow, Return, Leave,
         Exec, Done, ExecFails, Heal, Check, Begin, BeginFails, TxExec, TxExecFails, Commit, CommitFails,
         Rollback, ReadPage, ReadFails, CountRecords, Goto
<1> QED
  BY <1>1, <1>2, Updated

-----------------------------------------------------------------------------
(* The locals of a thread.                                                 *)

SameLocals(c) == \A f \in {"call", "part", "kind", "applied", "result"} : st'[c][f] = st[c][f]

\* From the building of a statement to its next step.
LEMMA BuildingGoesOn ==
  ASSUME LocalsInv, UNCHANGED config, NEW c \in Clients, st[c].pc \in Building,
         DOMAIN st'[c] = Fields, SameLocals(c),
         \/ st'[c].pc = Built(c)
         \/ st'[c].pc \in {"number", "advance"} /\ config.mode = "numbered"
         \/ st'[c].pc \in {"drop", "escape"} /\ config.mode = "escaped"
         \/ st'[c].pc = "rollback" /\ IsTrans(c)
  PROVE  Locals(c)'
<1>1. Locals(c) /\ ~At(c, "idle") /\ InCall(c) /\ RightStep(c) /\ RightAnswer(c)
  BY DEF LocalsInv, Locals, At, Building
<1>2. \/ st'[c].pc = "exec" /\ IsTrans(c)
      \/ st'[c].pc = "acquire" /\ ~IsTrans(c)
      \/ st'[c].pc \in {"number", "advance"} /\ config.mode = "numbered"
      \/ st'[c].pc \in {"drop", "escape"} /\ config.mode = "escaped"
      \/ st'[c].pc = "rollback" /\ IsTrans(c)
  BY DEF Built
<1>3. InCall(c)' /\ st'[c].kind \in {Nil, "insert", "update"}
  BY <1>1 DEF InCall, SameLocals, Locals
<1>4. RightStep(c)'
  BY <1>1, <1>2 DEF RightStep, SameLocals, At, IsTrans, IsCreate, Building, Dm8Ops
<1>5. RightAnswer(c)'
  BY <1>1, <1>2 DEF RightAnswer, SameLocals, At, HasRows, Building
<1> QED
  BY <1>2, <1>3, <1>4, <1>5 DEF Locals, At, Pcs, Building, Leasing

\* To the answer of a call that has done its statement ...
LEMMA DoneLocals ==
  ASSUME LocalsInv, UNCHANGED config, NEW c \in Clients, st[c].pc \notin {"idle", "return"},
         st[c].call.op # "select", Done(c)
  PROVE  Locals(c)'
<1>1. /\ DOMAIN st[c] = Fields /\ st = [d \in Clients |-> st[d]] /\ InCall(c) /\ RightStep(c)
      /\ st[c].applied = HasRows(c) /\ st[c].kind \in {Nil, "insert", "update"}
  BY DEF LocalsInv, Locals, RightAnswer, At
<1> DEFINE n == st[c].applied + 1
<1>2. Update(c, [pc |-> "return", result |-> "success", applied |-> n])
  BY DEF Done
<1> HIDE DEF n
<1>3. /\ DOMAIN st'[c] = Fields /\ st'[c].pc = "return" /\ st'[c].result = "success" /\ st'[c].applied = n
      /\ \A f \in {"call", "part", "kind"} : st'[c][f] = st[c][f]
  BY <1>1, <1>2 DEF Update, Fields
<1>4. RightAnswer(c)'
  <2>1. n = HasRows(c) + 1
    BY <1>1 DEF n
  <2> QED
    BY <1>3, <2>1 DEF RightAnswer, HasRows, At
<1>5. RightStep(c)' /\ InCall(c)'
  BY <1>1, <1>3 DEF RightStep, InCall, At, IsTrans, IsCreate, Building
<1> QED
  BY <1>1, <1>3, <1>4, <1>5 DEF Locals, At, Pcs

\* ... and of one that has failed.
LEMMA FailedLocals ==
  ASSUME LocalsInv, UNCHANGED config, NEW c \in Clients, st[c].pc \notin {"idle", "return"},
         Update(c, [pc |-> "return", result |-> "failed"])
  PROVE  Locals(c)'
<1>1. /\ DOMAIN st[c] = Fields /\ st = [d \in Clients |-> st[d]] /\ InCall(c) /\ RightStep(c)
      /\ st[c].applied = HasRows(c) /\ st[c].kind \in {Nil, "insert", "update"}
  BY DEF LocalsInv, Locals, RightAnswer, At
<1>2. /\ DOMAIN st'[c] = Fields /\ st'[c].pc = "return" /\ st'[c].result = "failed"
      /\ \A f \in {"call", "part", "kind", "applied"} : st'[c][f] = st[c][f]
  BY <1>1 DEF Update, Fields
<1>3. RightAnswer(c)'
  BY <1>1, <1>2 DEF RightAnswer, HasRows, At
<1>4. RightStep(c)' /\ InCall(c)'
  BY <1>1, <1>2 DEF RightStep, InCall, At, IsTrans, IsCreate, Building
<1> QED
  BY <1>1, <1>2, <1>3, <1>4 DEF Locals, At, Pcs

LEMMA LocalsStep ==
  ASSUME LocalsInv, UNCHANGED config, NEW c \in config.clients,
         Step(c) \/ \E call \in config.calls : Start(c, call)
  PROVE  Locals(c)'
<1> c \in Clients
  BY UseTypes
<1>1. CASE \E call \in config.calls : Start(c, call)
  <2>1. PICK call \in config.calls : Start(c, call)
    BY <1>1
  <2>2. /\ At(c, "idle") /\ DOMAIN st'[c] = Fields /\ st'[c].call = call
        /\ st'[c].pc = IF call.op \in {"trans", "create", "rows"} THEN "acquire" ELSE "build"
        /\ \A f \in {"part", "kind", "applied", "result"} : st'[c][f] = st[c][f]
    BY <2>1 DEF LocalsInv, Locals, Update, Start, At, Fields
  <2>3. st[c].part = 1 /\ st[c].kind = Nil /\ st[c].applied = 0 /\ st[c].result = Nil
    BY <2>2 DEF LocalsInv, Locals, RightAnswer, HasRows, At, NoCall
  <2>4. InCall(c)' /\ RightStep(c)'
    BY <2>2, <2>3, UseTypes
       DEF InCall, RightStep, At, IsTrans, IsCreate, Building, Dm8Ops
  <2> QED
    BY <2>2, <2>3, <2>4
       DEF LocalsInv, Locals, InCall, RightStep, RightAnswer, At, IsTrans, IsCreate, HasRows, Fields,
           Pcs, Building, Leasing, Dm8Ops
<1>2. CASE BuildPlain(c)
  <2>1. /\ st[c].pc \in Building /\ DOMAIN st'[c] = Fields
        /\ SameLocals(c) /\ st'[c].pc = Built(c)
    BY <1>2 DEF LocalsInv, Locals, BuildPlain, Goto, Update, At, SameLocals, Fields, Building
  <2> QED
    BY <2>1, BuildingGoesOn
<1>3. CASE ElementRejected(c)
  <2>1. /\ st[c].pc \in Building /\ DOMAIN st'[c] = Fields
        /\ SameLocals(c) /\ st'[c].pc = "rollback" /\ IsTrans(c)
    BY <1>3 DEF LocalsInv, Locals, ElementRejected, Goto, Update, At, SameLocals, Fields, Building
  <2> QED
    BY <2>1, BuildingGoesOn
<1>4. CASE ResetPlaceholders(c)
  <2>1. /\ st[c].pc \in Building /\ DOMAIN st'[c] = Fields
        /\ SameLocals(c) /\ st'[c].pc = "number" /\ config.mode = "numbered"
    BY <1>4 DEF LocalsInv, Locals, ResetPlaceholders, Update, At, SameLocals, Fields, Building
  <2> QED
    BY <2>1, BuildingGoesOn
<1>5. CASE ReadPlaceholder(c)
  <2>1. /\ st[c].pc \in Building /\ DOMAIN st'[c] = Fields
        /\ SameLocals(c) /\ st'[c].pc = "advance" /\ config.mode = "numbered"
    BY <1>5 DEF LocalsInv, Locals, ReadPlaceholder, RightStep, Update, At, SameLocals, Fields, Building
  <2> QED
    BY <2>1, BuildingGoesOn
<1>6. CASE WritePlaceholder(c)
  <2>1. /\ st[c].pc \in Building /\ DOMAIN st'[c] = Fields /\ SameLocals(c)
        /\ st'[c].pc \in {"number", Built(c)} /\ config.mode = "numbered"
    BY <1>6 DEF LocalsInv, Locals, RightStep, WritePlaceholder, Goto, Update, At, SameLocals, Fields, Building
  <2> QED
    BY <2>1, BuildingGoesOn
<1>7. CASE EscapeLease(c)
  <2>1. /\ st[c].pc \in Building /\ DOMAIN st'[c] = Fields
        /\ SameLocals(c) /\ st'[c].pc = "drop" /\ config.mode = "escaped"
    BY <1>7 DEF LocalsInv, Locals, EscapeLease, Update, At, SameLocals, Fields, Building
  <2> QED
    BY <2>1, BuildingGoesOn
<1>8. CASE EscapeRefused(c)
  <2>1. /\ st[c].pc \in Building /\ DOMAIN st'[c] = Fields
        /\ SameLocals(c) /\ st'[c].pc = Built(c)
    BY <1>8 DEF LocalsInv, Locals, EscapeRefused, Goto, Update, At, SameLocals, Fields, Building
  <2> QED
    BY <2>1, BuildingGoesOn
<1>9. CASE EscapeDrop(c)
  <2>1. /\ st[c].pc \in Building /\ DOMAIN st'[c] = Fields
        /\ SameLocals(c) /\ st'[c].pc = "escape" /\ config.mode = "escaped"
    BY <1>9 DEF LocalsInv, Locals, EscapeDrop, RightStep, Goto, Update, At, SameLocals, Fields, Building
  <2> QED
    BY <2>1, BuildingGoesOn
<1>10. CASE EscapeUse(c)
  <2>1. /\ st[c].pc \in Building /\ DOMAIN st'[c] = Fields
        /\ SameLocals(c) /\ st'[c].pc = Built(c)
    BY <1>10 DEF LocalsInv, Locals, EscapeUse, Update, At, SameLocals, Fields, Building
  <2> QED
    BY <2>1, BuildingGoesOn
<1>11. CASE Acquire(c)
  <2>1. At(c, "acquire")
    BY <1>11 DEF Acquire
  <2>2. PICK to : /\ Goto(c, to)
                  /\ to = CASE IsTrans(c) -> "begin"
                            [] IsCreate(c) /\ st[c].kind = Nil -> "check"
                            [] st[c].call.op = "select" -> "read"
                            [] OTHER -> "exec"
    BY <1>11 DEF Acquire
  <2>3. \/ to = "begin" /\ IsTrans(c)
        \/ to = "check" /\ IsCreate(c) /\ st[c].kind = Nil
        \/ to = "read" /\ st[c].call.op = "select"
        \/ to = "exec" /\ ~IsTrans(c) /\ st[c].call.op # "select" /\ ~(IsCreate(c) /\ st[c].kind = Nil)
    BY <2>2
  <2>4. /\ DOMAIN st'[c] = Fields /\ st'[c].pc = to
        /\ \A f \in Fields \ {"pc"} : st'[c][f] = st[c][f]
    BY <2>2 DEF LocalsInv, Locals, Update, Goto, Fields
  <2> QED
    BY <2>1, <2>3, <2>4
       DEF LocalsInv, Locals, InCall, RightStep, RightAnswer, At, IsTrans, IsCreate,
           HasRows, Fields, Pcs, Building, Leasing, Dm8Ops
<1>12. CASE Refused(c)
  <2>1. At(c, "acquire")
    BY <1>12 DEF Refused
  <2>2. \/ IsCreate(c) /\ Update(c, [pc |-> "build", kind |-> "insert"])
        \/ Update(c, [pc |-> "return", result |-> "failed"])
    BY <1>12 DEF Refused
  <2>3. Nil # "insert"
    BY BackendAssumption
  <2> QED
    BY <2>1, <2>2, <2>3
       DEF LocalsInv, Locals, InCall, RightStep, RightAnswer, Update, Goto, At, IsTrans, IsCreate,
           HasRows, Fields, Pcs, Building, Leasing, Dm8Ops
<1>13. CASE NextRow(c)
  <2> DEFINE n == st[c].part + 1
  <2>1. /\ At(c, "return") /\ st[c].call.op = "rows" /\ st[c].result = "success"
        /\ InCall(c) /\ RightAnswer(c) /\ st[c].part < Len(st[c].call.parts)
    BY <1>13 DEF NextRow, RowsLeft, LocalsInv, Locals, At
  <2>2. n \in DOMAIN st[c].call.parts /\ st[c].applied = n - 1
    BY <2>1, UseTypes DEF InCall, RightAnswer, HasRows
  <2>3. Update(c, [pc |-> "acquire", part |-> n, kind |-> Nil, result |-> Nil])
    BY <1>13 DEF NextRow
  <2> HIDE DEF n
  <2>4. /\ DOMAIN st'[c] = Fields /\ st'[c].pc = "acquire" /\ st'[c].part = n
        /\ st'[c].kind = Nil /\ st'[c].result = Nil
        /\ st'[c].call = st[c].call /\ st'[c].applied = st[c].applied
    BY <2>3 DEF LocalsInv, Locals, Update, Fields
  <2>5. RightStep(c)' /\ InCall(c)'
    BY <2>1, <2>2, <2>4 DEF RightStep, InCall, At, IsTrans, IsCreate, Building
  <2>6. RightAnswer(c)'
    BY <2>1, <2>2, <2>4 DEF RightAnswer, HasRows, At
  <2> QED
    BY <2>4, <2>5, <2>6 DEF Locals, At, Pcs
<1>14. CASE Return(c)
  BY <1>14, UseTypes
     DEF LocalsInv, Locals, InCall, RightStep, RightAnswer, Update, Goto, At, IsTrans, IsCreate,
        HasRows, Fields, Pcs, Building, Leasing, Dm8Ops, Return, Leave, NoLocals, NoCall
<1>15. CASE Exec(c)
  <2>1. At(c, "exec") /\ st[c].call.op # "select"
    BY <1>15 DEF Exec, LocalsInv, Locals, RightStep
  <2> QED
    BY <1>15, <2>1, DoneLocals DEF Exec, At
<1>16. CASE ExecFails(c)
  <2>1. CASE config.heals /\ ~IsCreate(c)
    <3>1. At(c, "exec") /\ Goto(c, "heal") /\ ~IsTrans(c) /\ st[c].call.op # "select"
      BY <1>16, <2>1 DEF ExecFails, LocalsInv, Locals, RightStep
    <3>2. /\ DOMAIN st'[c] = Fields /\ st'[c].pc = "heal"
          /\ \A f \in Fields \ {"pc"} : st'[c][f] = st[c][f]
      BY <3>1 DEF LocalsInv, Locals, Update, Goto, Fields
    <3> QED
      BY <2>1, <3>1, <3>2
         DEF LocalsInv, Locals, InCall, RightStep, RightAnswer, At, IsTrans, IsCreate, HasRows, Fields,
             Pcs, Building, Leasing
  <2>2. CASE ~(config.heals /\ ~IsCreate(c))
    BY <1>16, <2>2, FailedLocals DEF ExecFails, At
  <2> QED
    BY <2>1, <2>2
<1>28. CASE Heal(c)
  BY <1>28, FailedLocals DEF Heal, At
<1>17. CASE Check(c)
  <2>1. At(c, "check")
    BY <1>17 DEF Check
  <2>2. PICK kind \in {"insert", "update"} : Update(c, [pc |-> "build", kind |-> kind])
    BY <1>17 DEF Check
  <2>3. kind # Nil
    BY BackendAssumption
  <2> QED
    BY <2>1, <2>2, <2>3
       DEF LocalsInv, Locals, InCall, RightStep, RightAnswer, Update, Goto, At, IsTrans, IsCreate,
           HasRows, Fields, Pcs, Building, Leasing, Dm8Ops
<1>18. CASE Begin(c)
  BY <1>18, UseTypes
     DEF LocalsInv, Locals, InCall, RightStep, RightAnswer, Update, Goto, At, IsTrans, IsCreate,
        HasRows, Fields, Pcs, Building, Leasing, Dm8Ops, Begin
<1>19. CASE BeginFails(c)
  BY <1>19, UseTypes
     DEF LocalsInv, Locals, InCall, RightStep, RightAnswer, Update, Goto, At, IsTrans, IsCreate,
        HasRows, Fields, Pcs, Building, Leasing, Dm8Ops, BeginFails
<1>20. CASE TxExec(c)
  <2>1. /\ At(c, "exec") /\ IsTrans(c) /\ ~IsCreate(c)
    BY <1>20 DEF TxExec, IsTrans, IsCreate, Dm8Ops
  <2>2. /\ InCall(c)
        /\ st[c].part \in 1..Len(st[c].call.parts) /\ Len(st[c].call.parts) \in Nat
        /\ DOMAIN st[c].call.parts = 1..Len(st[c].call.parts)
    BY <2>1, UseTypes DEF LocalsInv, Locals, InCall, At
  <2>3. /\ DOMAIN st'[c] = Fields
        /\ \A f \in {"call", "kind", "applied", "result"} : st'[c][f] = st[c][f]
        /\ IF st[c].part = Len(st[c].call.parts) THEN st'[c].pc = "commit" /\ st'[c].part = st[c].part
           ELSE st'[c].pc = "build" /\ st'[c].part = st[c].part + 1
    BY <1>20 DEF LocalsInv, Locals, Update, TxExec, Fields
  <2>4. st'[c].call = st[c].call
    BY <2>3
  <2>5. st'[c].part \in DOMAIN st[c].call.parts
    BY <2>2, <2>3
  <2>6. InCall(c)' /\ RightStep(c)'
    BY <2>1, <2>2, <2>3, <2>4, <2>5 DEF InCall, RightStep, At, IsTrans, IsCreate, Building, Dm8Ops
  <2> QED
    BY <2>1, <2>2, <2>3, <2>4, <2>6
       DEF LocalsInv, Locals, InCall, RightStep, RightAnswer, At, IsTrans, IsCreate, HasRows, Fields,
           Pcs, Building, Leasing, Dm8Ops
<1>21. CASE TxExecFails(c)
  BY <1>21, UseTypes
     DEF LocalsInv, Locals, InCall, RightStep, RightAnswer, Update, Goto, At, IsTrans, IsCreate,
        HasRows, Fields, Pcs, Building, Leasing, Dm8Ops, TxExecFails
<1>22. CASE Commit(c)
  <2>1. At(c, "commit") /\ st[c].call.op # "select"
    BY <1>22 DEF Commit, LocalsInv, Locals, RightStep, IsTrans, At
  <2> QED
    BY <1>22, <2>1, DoneLocals DEF Commit, At
<1>23. CASE CommitFails(c)
  BY <1>23, UseTypes
     DEF LocalsInv, Locals, InCall, RightStep, RightAnswer, Update, Goto, At, IsTrans, IsCreate,
        HasRows, Fields, Pcs, Building, Leasing, Dm8Ops, CommitFails
<1>24. CASE Rollback(c)
  BY <1>24, FailedLocals DEF Rollback, At
<1>25. CASE ReadPage(c)
  BY <1>25, UseTypes
     DEF LocalsInv, Locals, InCall, RightStep, RightAnswer, Update, Goto, At, IsTrans, IsCreate,
        HasRows, Fields, Pcs, Building, Leasing, Dm8Ops, ReadPage
<1>26. CASE ReadFails(c)
  BY <1>26, FailedLocals DEF ReadFails, At
<1>27. CASE CountRecords(c)
  <2>1. PICK n : Update(c, [pc |-> "return", result |-> "success", records |-> n])
    BY <1>27 DEF CountRecords
  <2>2. At(c, "count") /\ st[c].call.op = "select"
    BY <1>27 DEF CountRecords, LocalsInv, Locals, RightStep, At
  <2>3. /\ DOMAIN st'[c] = Fields /\ st'[c].pc = "return" /\ st'[c].result = "success"
        /\ \A f \in {"call", "part", "kind", "applied"} : st'[c][f] = st[c][f]
    BY <2>1 DEF LocalsInv, Locals, Update, Fields
  <2> QED
    BY <2>2, <2>3
       DEF LocalsInv, Locals, InCall, RightStep, RightAnswer, At, IsTrans, IsCreate, HasRows, Fields,
           Pcs, Building, Leasing, Dm8Ops
<1> QED
  BY <1>1, <1>2, <1>3, <1>4, <1>5, <1>6, <1>7, <1>8, <1>9, <1>10, <1>11, <1>12, <1>13, <1>14, <1>15, <1>16, <1>17, <1>18, <1>19, <1>20, <1>21, <1>22, <1>23, <1>24, <1>25, <1>26, <1>27, <1>28 DEF Step

-----------------------------------------------------------------------------
(* The leases.  A step leaves the owners of connections as they are, or    *)
(* its thread takes a free one or frees its own.                           *)

SameOwners == \A d \in Clients, h \in Conns : Has(d, h)' <=> Has(d, h)
Takes(c, h) ==
  /\ \A d \in Clients : ~Has(d, h)
  /\ \A k \in Conns : ~Has(c, k)
  /\ \A d \in Clients, k \in Conns : Has(d, k)' <=> Has(d, k) \/ (d = c /\ k = h)
Frees(c) == \A d \in Clients, h \in Conns : Has(d, h)' <=> Has(d, h) /\ d # c

LEMMA OwnIs ==
  ASSUME Grants, NEW c \in Clients, NEW h \in Conns, Has(c, h)
  PROVE  Own(c) = h
<1>1. \A k \in Conns : <<<<c, "own">>, k>> \in held => k = h
  <2> SUFFICES ASSUME NEW k \in Conns, <<<<c, "own">>, k>> \in held
               PROVE  k = h
    OBVIOUS
  <2>1. <<<<c, "own">>, k>> = <<<<c, "own">>, h>>
    BY DEF Grants, Has
  <2> QED
    BY <2>1
<1> QED
  BY <1>1 DEF Own, Has

LEMMA OwnHas ==
  ASSUME Grants, NEW c \in Clients, Leased(c)
  PROVE  Own(c) \in Conns /\ Has(c, Own(c))
BY OwnIs DEF Leased, Has

LEMMA OneOwner ==
  ASSUME Grants, NEW c \in Clients, NEW d \in Clients, NEW h \in Conns, Has(c, h), Has(d, h)
  PROVE  c = d
<1>1. <<<<c, "own">>, h>> = <<<<d, "own">>, h>>
  BY DEF Grants, Has
<1> QED
  BY <1>1

LEMMA Granted ==
  ASSUME Grants, UNCHANGED config, NEW u \in Leases, NEW h \in config.conns, Pool!Grant(u, h)
  PROVE  Grants' /\ held' = held \cup {<<u, h>>} /\ \A g \in held : g[1] # u /\ g[2] # h
<1>1. held' = held \cup {<<u, h>>} /\ \A g \in held : g[1] # u /\ g[2] # h
  BY DEF Pool!Grant
<1>2. ASSUME NEW g1 \in held', NEW g2 \in held', g1[1] = g2[1] \/ g1[2] = g2[2]
      PROVE  g1 = g2
  BY <1>1, <1>2 DEF Grants
<1> QED
  BY <1>1, <1>2 DEF Grants

LEMMA Returned ==
  ASSUME Grants, UNCHANGED config, NEW g, Pool!Return(g)
  PROVE  Grants' /\ held' = held \ {g}
BY DEF Grants, Pool!Return

LEMMA OwnTaken ==
  ASSUME LocalsInv, Grants, UNCHANGED config, NEW c \in Clients,
         NEW h \in config.conns, Pool!Grant(<<c, "own">>, h)
  PROVE  Grants' /\ Takes(c, h)
<1>1. <<c, "own">> \in Leases
  BY DEF Leases
<1>2. Grants' /\ held' = held \cup {<<<<c, "own">>, h>>} /\ \A g \in held : g[1] # <<c, "own">> /\ g[2] # h
  BY <1>1, Granted
<1>3. \A d \in Clients, k \in Conns : <<<<d, "own">>, k>> = <<<<c, "own">>, h>> <=> d = c /\ k = h
  OBVIOUS
<1>4. \A d \in Clients : ~Has(d, h)
  BY <1>2 DEF Has
<1>5. \A k \in Conns : ~Has(c, k)
  BY <1>2 DEF Has
<1> QED
  BY <1>2, <1>3, <1>4, <1>5 DEF Takes, Has

LEMMA OwnFreed ==
  ASSUME LocalsInv, Grants, UNCHANGED config, NEW c \in Clients, ReleaseOwn(c)
  PROVE  Grants' /\ Frees(c)
<1>1. Grants' /\ held' = held \ {<<<<c, "own">>, Own(c)>>}
  BY Returned DEF ReleaseOwn
<1>2. \A d \in Clients, k \in Conns :
        <<<<d, "own">>, k>> = <<<<c, "own">>, Own(c)>> <=> d = c /\ k = Own(c)
  OBVIOUS
<1>3. \A k \in Conns : Has(c, k) => k = Own(c)
  BY OwnIs
<1> QED
  BY <1>1, <1>2, <1>3 DEF Frees, Has

LEMMA EscapeMoves ==
  ASSUME LocalsInv, Grants, UNCHANGED config, NEW c \in config.clients, EscapeLease(c) \/ EscapeDrop(c)
  PROVE  Grants' /\ SameOwners
<1>1. <<c, "escape">> \in Leases
  BY UseTypes DEF Leases
<1>2. \A d \in Clients, k \in Conns : \A h : <<<<d, "own">>, k>> # <<<<c, "escape">>, h>>
  OBVIOUS
<1>3. CASE EscapeLease(c)
  <2>1. PICK h \in config.conns : Pool!Grant(<<c, "escape">>, h)
    BY <1>3 DEF EscapeLease
  <2> QED
    BY <1>1, <1>2, <2>1, Granted DEF SameOwners, Has
<1>4. CASE EscapeDrop(c)
  <2>1. Pool!Return(<<<<c, "escape">>, st[c].ptr>>)
    BY <1>4 DEF EscapeDrop
  <2> QED
    BY <1>2, <2>1, Returned DEF SameOwners, Has
<1> QED
  BY <1>3, <1>4

(***************************************************************************)
(* What a step does to the leases goes with where its thread is next.      *)
(***************************************************************************)
Moves(c) ==
  \/ SameOwners /\ ~At(c, "return") /\ (Holding(c)' <=> Holding(c))
  \/ SameOwners /\ Holding(c) /\ At(c, "return")'
  \/ At(c, "acquire") /\ Holding(c)' /\ \E h \in config.conns : Takes(c, h)
  \/ (At(c, "check") \/ At(c, "return")) /\ ~Holding(c)' /\ Frees(c)

LEMMA HeldStep ==
  ASSUME LocalsInv, Grants, UNCHANGED config, NEW c \in config.clients,
         Step(c) \/ \E call \in config.calls : Start(c, call)
  PROVE  Grants' /\ Moves(c)
<1> c \in Clients
  BY UseTypes
<1>1. ASSUME UNCHANGED held
      PROVE  Grants' /\ SameOwners
  BY <1>1 DEF Grants, SameOwners, Has
<1>2. CASE \E call \in config.calls : Start(c, call)
  <2>1. UNCHANGED held
    BY <1>2 DEF Start, shared
  <2>2. ~At(c, "return") /\ ((Holding(c)' <=> Holding(c)) \/ (Holding(c) /\ At(c, "return")'))
    BY <1>2, UseTypes
       DEF LocalsInv, Locals, RightStep, Update, Goto, At, IsTrans, IsCreate, Holding, Building,
           Leasing, Fields, Dm8Ops, Start, NoCall, InCall
  <2> QED
    BY <2>1, <2>2, <1>1 DEF Moves
<1>3. CASE BuildPlain(c)
  <2>1. UNCHANGED held
    BY <1>3 DEF BuildPlain, shared
  <2>2. ~At(c, "return") /\ ((Holding(c)' <=> Holding(c)) \/ (Holding(c) /\ At(c, "return")'))
    BY <1>3, UseTypes
       DEF LocalsInv, Locals, RightStep, Update, Goto, At, IsTrans, IsCreate, Holding, Building,
           Leasing, Fields, Dm8Ops, BuildPlain, Built
  <2> QED
    BY <2>1, <2>2, <1>1 DEF Moves
<1>4. CASE ElementRejected(c)
  <2>1. UNCHANGED held
    BY <1>4 DEF ElementRejected, shared
  <2>2. ~At(c, "return") /\ ((Holding(c)' <=> Holding(c)) \/ (Holding(c) /\ At(c, "return")'))
    BY <1>4, UseTypes
       DEF LocalsInv, Locals, RightStep, Update, Goto, At, IsTrans, IsCreate, Holding, Building,
           Leasing, Fields, Dm8Ops, ElementRejected
  <2> QED
    BY <2>1, <2>2, <1>1 DEF Moves
<1>5. CASE ResetPlaceholders(c)
  <2>1. UNCHANGED held
    BY <1>5 DEF ResetPlaceholders
  <2>2. ~At(c, "return") /\ ((Holding(c)' <=> Holding(c)) \/ (Holding(c) /\ At(c, "return")'))
    BY <1>5, UseTypes
       DEF LocalsInv, Locals, RightStep, Update, Goto, At, IsTrans, IsCreate, Holding, Building,
           Leasing, Fields, Dm8Ops, ResetPlaceholders
  <2> QED
    BY <2>1, <2>2, <1>1 DEF Moves
<1>6. CASE ReadPlaceholder(c)
  <2>1. UNCHANGED held
    BY <1>6 DEF ReadPlaceholder, shared
  <2>2. ~At(c, "return") /\ ((Holding(c)' <=> Holding(c)) \/ (Holding(c) /\ At(c, "return")'))
    BY <1>6, UseTypes
       DEF LocalsInv, Locals, RightStep, Update, Goto, At, IsTrans, IsCreate, Holding, Building,
           Leasing, Fields, Dm8Ops, ReadPlaceholder
  <2> QED
    BY <2>1, <2>2, <1>1 DEF Moves
<1>7. CASE WritePlaceholder(c)
  <2>1. UNCHANGED held
    BY <1>7 DEF WritePlaceholder
  <2>2. ~At(c, "return") /\ ((Holding(c)' <=> Holding(c)) \/ (Holding(c) /\ At(c, "return")'))
    BY <1>7, UseTypes
       DEF LocalsInv, Locals, RightStep, Update, Goto, At, IsTrans, IsCreate, Holding, Building,
           Leasing, Fields, Dm8Ops, WritePlaceholder, Built
  <2> QED
    BY <2>1, <2>2, <1>1 DEF Moves
<1>8. CASE EscapeRefused(c)
  <2>1. UNCHANGED held
    BY <1>8 DEF EscapeRefused, shared
  <2>2. ~At(c, "return") /\ ((Holding(c)' <=> Holding(c)) \/ (Holding(c) /\ At(c, "return")'))
    BY <1>8, UseTypes
       DEF LocalsInv, Locals, RightStep, Update, Goto, At, IsTrans, IsCreate, Holding, Building,
           Leasing, Fields, Dm8Ops, EscapeRefused, Built
  <2> QED
    BY <2>1, <2>2, <1>1 DEF Moves
<1>9. CASE EscapeUse(c)
  <2>1. UNCHANGED held
    BY <1>9 DEF EscapeUse, shared
  <2>2. ~At(c, "return") /\ ((Holding(c)' <=> Holding(c)) \/ (Holding(c) /\ At(c, "return")'))
    BY <1>9, UseTypes
       DEF LocalsInv, Locals, RightStep, Update, Goto, At, IsTrans, IsCreate, Holding, Building,
           Leasing, Fields, Dm8Ops, EscapeUse, Built
  <2> QED
    BY <2>1, <2>2, <1>1 DEF Moves
<1>10. CASE Refused(c)
  <2>1. UNCHANGED held
    BY <1>10 DEF Refused, shared
  <2>2. ~At(c, "return") /\ ((Holding(c)' <=> Holding(c)) \/ (Holding(c) /\ At(c, "return")'))
    BY <1>10, UseTypes
       DEF LocalsInv, Locals, RightStep, Update, Goto, At, IsTrans, IsCreate, Holding, Building,
           Leasing, Fields, Dm8Ops, Refused
  <2> QED
    BY <2>1, <2>2, <1>1 DEF Moves
<1>11. CASE Exec(c)
  <2>1. UNCHANGED held
    BY <1>11 DEF Exec, Done
  <2>2. ~At(c, "return") /\ ((Holding(c)' <=> Holding(c)) \/ (Holding(c) /\ At(c, "return")'))
    BY <1>11, UseTypes
       DEF LocalsInv, Locals, RightStep, Update, Goto, At, IsTrans, IsCreate, Holding, Building,
           Leasing, Fields, Dm8Ops, Exec, Done
  <2> QED
    BY <2>1, <2>2, <1>1 DEF Moves
<1>12. CASE ExecFails(c)
  <2>1. UNCHANGED held
    BY <1>12 DEF ExecFails
  <2>2. ~At(c, "return") /\ ((Holding(c)' <=> Holding(c)) \/ (Holding(c) /\ At(c, "return")'))
    BY <1>12, UseTypes
       DEF LocalsInv, Locals, RightStep, Update, Goto, At, IsTrans, IsCreate, Holding, Building,
           Leasing, Fields, Dm8Ops, ExecFails
  <2> QED
    BY <2>1, <2>2, <1>1 DEF Moves
<1>27. CASE Heal(c)
  <2>1. UNCHANGED held
    BY <1>27 DEF Heal
  <2>2. ~At(c, "return") /\ ((Holding(c)' <=> Holding(c)) \/ (Holding(c) /\ At(c, "return")'))
    BY <1>27, UseTypes
       DEF LocalsInv, Locals, RightStep, Update, Goto, At, IsTrans, IsCreate, Holding, Building,
           Leasing, Fields, Dm8Ops, Heal
  <2> QED
    BY <2>1, <2>2, <1>1 DEF Moves
<1>13. CASE Begin(c)
  <2>1. UNCHANGED held
    BY <1>13 DEF Begin
  <2>2. ~At(c, "return") /\ ((Holding(c)' <=> Holding(c)) \/ (Holding(c) /\ At(c, "return")'))
    BY <1>13, UseTypes
       DEF LocalsInv, Locals, RightStep, Update, Goto, At, IsTrans, IsCreate, Holding, Building,
           Leasing, Fields, Dm8Ops, Begin
  <2> QED
    BY <2>1, <2>2, <1>1 DEF Moves
<1>14. CASE BeginFails(c)
  <2>1. UNCHANGED held
    BY <1>14 DEF BeginFails, shared
  <2>2. ~At(c, "return") /\ ((Holding(c)' <=> Holding(c)) \/ (Holding(c) /\ At(c, "return")'))
    BY <1>14, UseTypes
       DEF LocalsInv, Locals, RightStep, Update, Goto, At, IsTrans, IsCreate, Holding, Building,
           Leasing, Fields, Dm8Ops, BeginFails
  <2> QED
    BY <2>1, <2>2, <1>1 DEF Moves
<1>15. CASE TxExec(c)
  <2>1. UNCHANGED held
    BY <1>15 DEF TxExec
  <2>2. ~At(c, "return") /\ ((Holding(c)' <=> Holding(c)) \/ (Holding(c) /\ At(c, "return")'))
    BY <1>15, UseTypes
       DEF LocalsInv, Locals, RightStep, Update, Goto, At, IsTrans, IsCreate, Holding, Building,
           Leasing, Fields, Dm8Ops, TxExec
  <2> QED
    BY <2>1, <2>2, <1>1 DEF Moves
<1>16. CASE TxExecFails(c)
  <2>1. UNCHANGED held
    BY <1>16 DEF TxExecFails
  <2>2. ~At(c, "return") /\ ((Holding(c)' <=> Holding(c)) \/ (Holding(c) /\ At(c, "return")'))
    BY <1>16, UseTypes
       DEF LocalsInv, Locals, RightStep, Update, Goto, At, IsTrans, IsCreate, Holding, Building,
           Leasing, Fields, Dm8Ops, TxExecFails
  <2> QED
    BY <2>1, <2>2, <1>1 DEF Moves
<1>17. CASE Commit(c)
  <2>1. UNCHANGED held
    BY <1>17 DEF Commit, Done
  <2>2. ~At(c, "return") /\ ((Holding(c)' <=> Holding(c)) \/ (Holding(c) /\ At(c, "return")'))
    BY <1>17, UseTypes
       DEF LocalsInv, Locals, RightStep, Update, Goto, At, IsTrans, IsCreate, Holding, Building,
           Leasing, Fields, Dm8Ops, Commit, Done
  <2> QED
    BY <2>1, <2>2, <1>1 DEF Moves
<1>18. CASE CommitFails(c)
  <2>1. UNCHANGED held
    BY <1>18 DEF CommitFails, shared
  <2>2. ~At(c, "return") /\ ((Holding(c)' <=> Holding(c)) \/ (Holding(c) /\ At(c, "return")'))
    BY <1>18, UseTypes
       DEF LocalsInv, Locals, RightStep, Update, Goto, At, IsTrans, IsCreate, Holding, Building,
           Leasing, Fields, Dm8Ops, CommitFails
  <2> QED
    BY <2>1, <2>2, <1>1 DEF Moves
<1>19. CASE Rollback(c)
  <2>1. UNCHANGED held
    BY <1>19 DEF Rollback
  <2>2. ~At(c, "return") /\ ((Holding(c)' <=> Holding(c)) \/ (Holding(c) /\ At(c, "return")'))
    BY <1>19, UseTypes
       DEF LocalsInv, Locals, RightStep, Update, Goto, At, IsTrans, IsCreate, Holding, Building,
           Leasing, Fields, Dm8Ops, Rollback
  <2> QED
    BY <2>1, <2>2, <1>1 DEF Moves
<1>20. CASE ReadPage(c)
  <2>1. UNCHANGED held
    BY <1>20 DEF ReadPage, shared
  <2>2. ~At(c, "return") /\ ((Holding(c)' <=> Holding(c)) \/ (Holding(c) /\ At(c, "return")'))
    BY <1>20, UseTypes
       DEF LocalsInv, Locals, RightStep, Update, Goto, At, IsTrans, IsCreate, Holding, Building,
           Leasing, Fields, Dm8Ops, ReadPage
  <2> QED
    BY <2>1, <2>2, <1>1 DEF Moves
<1>21. CASE ReadFails(c)
  <2>1. UNCHANGED held
    BY <1>21 DEF ReadFails, shared
  <2>2. ~At(c, "return") /\ ((Holding(c)' <=> Holding(c)) \/ (Holding(c) /\ At(c, "return")'))
    BY <1>21, UseTypes
       DEF LocalsInv, Locals, RightStep, Update, Goto, At, IsTrans, IsCreate, Holding, Building,
           Leasing, Fields, Dm8Ops, ReadFails
  <2> QED
    BY <2>1, <2>2, <1>1 DEF Moves
<1>22. CASE CountRecords(c)
  <2>1. UNCHANGED held
    BY <1>22 DEF CountRecords, shared
  <2>2. ~At(c, "return") /\ ((Holding(c)' <=> Holding(c)) \/ (Holding(c) /\ At(c, "return")'))
    BY <1>22, UseTypes
       DEF LocalsInv, Locals, RightStep, Update, Goto, At, IsTrans, IsCreate, Holding, Building,
           Leasing, Fields, Dm8Ops, CountRecords
  <2> QED
    BY <2>1, <2>2, <1>1 DEF Moves
<1>23. CASE EscapeLease(c) \/ EscapeDrop(c)
  <2>1. ASSUME NEW to \in {"drop", "escape"}, NEW h, At(c, "build") \/ At(c, "drop"),
               Update(c, [pc |-> to, ptr |-> h]) \/ Goto(c, to)
        PROVE  ~At(c, "return") /\ (Holding(c)' <=> Holding(c))
    BY <2>1 DEF LocalsInv, Locals, Update, Goto, At, IsTrans, Holding, Building, Leasing, Fields
  <2>2. ~At(c, "return") /\ (Holding(c)' <=> Holding(c))
    BY <1>23, <2>1 DEF EscapeLease, EscapeDrop
  <2> QED
    BY <1>23, <2>2, EscapeMoves DEF Moves
<1>24. CASE Acquire(c)
  <2>1. PICK h \in config.conns : Pool!Grant(<<c, "own">>, h)
    BY <1>24 DEF Acquire
  <2>2. At(c, "acquire") /\ Holding(c)'
    BY <1>24
       DEF LocalsInv, Locals, Update, Goto, At, IsTrans, Holding, Leasing, Fields, Acquire
  <2> QED
    BY <2>1, <2>2, OwnTaken DEF Moves
<1>25. CASE Check(c)
  <2>1. PICK kind : At(c, "check") /\ Update(c, [pc |-> "build", kind |-> kind])
    BY <1>25 DEF Check
  <2>2. ~Holding(c)'
    BY <2>1
       DEF LocalsInv, Locals, RightStep, Update, At, IsTrans, IsCreate, Holding, Building, Leasing,
           Fields, Dm8Ops
  <2> QED
    BY <1>25, <2>1, <2>2, OwnFreed DEF Moves, Check
<1>26. CASE NextRow(c) \/ Return(c)
  <2>1. At(c, "return") /\ ~Holding(c)'
    BY <1>26
       DEF LocalsInv, Locals, Update, At, IsTrans, Holding, Building, Leasing, Fields, NextRow, Return,
           Leave, NoLocals
  <2>2. CASE Leased(c)
    BY <1>26, <2>1, <2>2, OwnFreed DEF Moves, NextRow, Return
  <2>3. CASE ~Leased(c)
    <3>1. UNCHANGED held /\ \A h \in Conns : ~Has(c, h)
      BY <1>26, <2>3 DEF NextRow, Return, Leased, Has
    <3> QED
      BY <2>1, <3>1, <1>1 DEF Moves, SameOwners, Frees
  <2> QED
    BY <2>2, <2>3
<1> QED
  BY <1>2, <1>3, <1>4, <1>5, <1>6, <1>7, <1>8, <1>9, <1>10, <1>11, <1>12, <1>13, <1>14, <1>15, <1>16, <1>17, <1>18, <1>19, <1>20, <1>21, <1>22, <1>23, <1>24, <1>25, <1>26, <1>27 DEF Step

LEMMA LeaseStep ==
  ASSUME LocalsInv, LeaseInv, UNCHANGED config, NEW c \in config.clients,
         Step(c) \/ \E call \in config.calls : Start(c, call)
  PROVE  LeaseInv'
<1>1. c \in Clients /\ \A d \in Clients \ {c} : st'[d] = st[d]
  BY OneMoves, LocalsStep, Framed
<1>2. Grants' /\ Moves(c)
  BY HeldStep DEF LeaseInv
<1>3. \A d \in Clients : Leased(d) <=> \E h \in Conns : Has(d, h)
  BY DEF Leased, Has
<1>4. \A d \in Clients : Leased(d)' <=> \E h \in Conns : Has(d, h)'
  BY DEF Leased, Has
<1>5. ASSUME NEW d \in Clients \ {c}
      PROVE  /\ (Leased(d)' <=> Leased(d)) /\ (Holding(d)' <=> Holding(d))
             /\ (At(d, "return")' <=> At(d, "return"))
  BY <1>1, <1>2, <1>3, <1>4 DEF Moves, SameOwners, Takes, Frees, Holding, IsTrans, At
<1>6. (Holding(c)' => Leased(c)') /\ (Leased(c)' => Holding(c)' \/ At(c, "return")')
  BY <1>1, <1>2, <1>3, <1>4, UseTypes DEF Moves, SameOwners, Takes, Frees, LeaseInv
<1> QED
  BY <1>2, <1>5, <1>6 DEF LeaseInv

-----------------------------------------------------------------------------
(* The sessions.                                                           *)

LEMMA Extended ==
  ASSUME NEW S, NEW p \in Seq(S), NEW n \in 1..Len(p)
  PROVE  /\ Append(SubSeq(p, 1, n - 1), p[n]) = SubSeq(p, 1, n)
         /\ SubSeq(p, 1, n) \in Seq(S) /\ SubSeq(p, 1, n - 1) \in Seq(S)
<1>1. Len(p) \in Nat /\ DOMAIN p = 1..Len(p)
  BY LenProperties
<1>2. SubSeq(p, 1, n - 1) = [i \in 1..(n - 1) |-> p[i]] /\ SubSeq(p, 1, n) = [i \in 1..n |-> p[i]]
  BY <1>1
<1>3. /\ SubSeq(p, 1, n - 1) \in Seq(S) /\ Len(SubSeq(p, 1, n - 1)) = n - 1
      /\ SubSeq(p, 1, n) \in Seq(S) /\ Len(SubSeq(p, 1, n)) = n
  BY <1>1, <1>2
<1> QED
  BY <1>1, <1>2, <1>3

LEMMA WholeSequence ==
  ASSUME NEW S, NEW p \in Seq(S)
  PROVE  SubSeq(p, 1, Len(p)) = p /\ SubSeq(p, 1, 0) = <<>>
OBVIOUS

LEMMA StatementIs ==
  ASSUME LocalsInv, NEW c \in Clients, ~At(c, "idle")
  PROVE  /\ ThisPart(c) \in Statements /\ Statement(c) \in Statements
         /\ Statement(c).keys = ThisPart(c).keys /\ Statement(c).built = ThisPart(c).built
         /\ ~IsCreate(c) => Statement(c) = ThisPart(c)
         /\ Statement(c).kind \in {ThisPart(c).kind, "insert", "update"}
         /\ IsCreate(c) /\ st[c].kind # Nil => Statement(c).kind = st[c].kind
<1>1. InCall(c) /\ st[c].kind \in {Nil, "insert", "update"}
  BY DEF LocalsInv, Locals
<1>2. ThisPart(c) \in Statements
  BY <1>1, UseTypes DEF InCall, ThisPart
<1> QED
  BY <1>1, <1>2 DEF Statement, ThisPart, Statements

\* Only these steps make a statement on a connection of the pool.
LEMMA Writers ==
  ASSUME NEW c, Step(c) \/ \E call \in config.calls : Start(c, call)
  PROVE  \/ UNCHANGED <<table, tx>>
         \/ Exec(c) \/ Heal(c) \/ Begin(c) \/ TxExec(c) \/ Commit(c) \/ Rollback(c)
BY DEF Step, Start, BuildPlain, ElementRejected, ResetPlaceholders, ReadPlaceholder, WritePlaceholder,
       EscapeLease, EscapeRefused, EscapeDrop, EscapeUse, Acquire, Refused, NextRow, Return, ExecFails,
       Check, BeginFails, TxExecFails, CommitFails, ReadPage, ReadFails, CountRecords, shared

\* They hold a lease before and after, and leave the leases alone.
LEMMA WritersHold ==
  ASSUME LocalsInv, LeaseInv, NEW c \in Clients,
         Exec(c) \/ Heal(c) \/ Begin(c) \/ TxExec(c) \/ Commit(c) \/ Rollback(c)
  PROVE  /\ Own(c) \in Conns /\ Has(c, Own(c)) /\ SameOwners
         /\ ~At(c, "idle") /\ InCall(c)
<1>1. At(c, "exec") \/ At(c, "heal") \/ At(c, "begin") \/ At(c, "commit") \/ At(c, "rollback")
  BY DEF Exec, Heal, Begin, TxExec, Commit, Rollback
<1>2. Leased(c) /\ ~At(c, "idle")
  BY <1>1 DEF LeaseInv, Holding, Leasing, At
<1>3. UNCHANGED held
  BY DEF Exec, Heal, Begin, TxExec, Commit, Rollback
<1> QED
  BY <1>2, <1>3, OwnHas DEF LeaseInv, LocalsInv, Locals, SameOwners, Has

LEMMA TxStep ==
  ASSUME LocalsInv, LeaseInv, tx \in Sessions, UNCHANGED config, NEW c \in config.clients,
         Step(c) \/ \E call \in config.calls : Start(c, call)
  PROVE  /\ tx' \in Sessions
         /\ \A h \in Conns : ~Has(c, h) => tx'[h] = tx[h]
<1> c \in Clients
  BY UseTypes
<1>1. CASE UNCHANGED <<table, tx>>
  BY <1>1
<1>2. CASE Exec(c) \/ Heal(c) \/ Begin(c) \/ TxExec(c) \/ Commit(c) \/ Rollback(c)
  <2>1. Own(c) \in Conns /\ Has(c, Own(c)) /\ Statement(c) \in Statements
    BY <1>2, WritersHold, StatementIs
  <2>2. \/ UNCHANGED tx
        \/ tx' = [tx EXCEPT ![Own(c)] = <<>>]
        \/ tx' = [tx EXCEPT ![Own(c)] = NoTx]
        \/ tx[Own(c)] # NoTx /\ tx' = [tx EXCEPT ![Own(c)] = Append(@, Statement(c))]
        \/ tx' = [tx EXCEPT ![Own(c)] = @]
    BY <1>2 DEF Exec, Heal, Begin, TxExec, Commit, Rollback, Run, BeginOn, CommitOn
  <2>3. tx[Own(c)] # NoTx => Append(tx[Own(c)], Statement(c)) \in Seq(Statements)
    BY <2>1 DEF Sessions
  <2>4. tx[Own(c)] \in Seq(Statements) \cup {NoTx} /\ tx = [tx EXCEPT ![Own(c)] = @] /\ <<>> \in Seq(Statements)
    BY <2>1 DEF Sessions
  <2>5. PICK v \in Seq(Statements) \cup {NoTx} : tx' = [tx EXCEPT ![Own(c)] = v]
    BY <2>2, <2>3, <2>4
  <2> QED
    BY <2>1, <2>5 DEF Sessions
<1> QED
  BY <1>1, <1>2, Writers

-----------------------------------------------------------------------------
(* A transaction lasts from the begin of its call to its end.              *)

LEMMA TransSteps ==
  ASSUME NEW c, InTrans(c), Step(c) \/ \E call \in config.calls : Start(c, call)
  PROVE  \/ BuildPlain(c) \/ ElementRejected(c) \/ ResetPlaceholders(c) \/ ReadPlaceholder(c)
         \/ WritePlaceholder(c) \/ EscapeLease(c) \/ EscapeRefused(c) \/ EscapeDrop(c) \/ EscapeUse(c)
         \/ TxExec(c) \/ TxExecFails(c) \/ Commit(c) \/ CommitFails(c) \/ Rollback(c)
BY DEF InTrans, Building, Step, Start, At, Acquire, Refused, NextRow, Return, Exec, ExecFails, Heal,
       Check, Begin, BeginFails, ReadPage, ReadFails, CountRecords

\* Until then it goes from statement to statement or to the rollback.
LEMMA TransGoesOn ==
  ASSUME LocalsInv, NEW c \in Clients, InTrans(c),
         Step(c) \/ \E call \in config.calls : Start(c, call)
  PROVE  \/ TxExec(c) \/ Commit(c) \/ Rollback(c)
         \/ /\ st'[c].part = st[c].part /\ st'[c].call = st[c].call
            /\ \/ st'[c].pc = "rollback"
               \/ InTransaction(c) /\ ~At(c, "commit") /\ st'[c].pc \in Building \cup {"exec"}
<1>1. DOMAIN st[c] = Fields /\ st = [d \in Clients |-> st[d]]
  BY DEF LocalsInv, Locals
<1>2. CASE BuildPlain(c) \/ ElementRejected(c) \/ ResetPlaceholders(c) \/ ReadPlaceholder(c)
  BY <1>1, <1>2
     DEF InTrans, InTransaction, IsTrans, At, Building, Fields, Update, Goto, BuildPlain, Built,
         ElementRejected, ResetPlaceholders, ReadPlaceholder
<1>3. CASE WritePlaceholder(c) \/ EscapeRefused(c) \/ EscapeDrop(c) \/ EscapeUse(c)
  BY <1>1, <1>3
     DEF InTrans, InTransaction, IsTrans, At, Building, Fields, Update, Goto, WritePlaceholder, Built,
         EscapeRefused, EscapeDrop, EscapeUse
<1>4. CASE EscapeLease(c)
  BY <1>1, <1>4 DEF InTrans, InTransaction, IsTrans, At, Building, Fields, Update, EscapeLease
<1>5. CASE TxExecFails(c) \/ CommitFails(c)
  BY <1>1, <1>5 DEF Fields, Update, Goto, TxExecFails, CommitFails
<1> QED
  BY <1>2, <1>3, <1>4, <1>5, TransSteps

LEMMA TransStays ==
  ASSUME LocalsInv, NEW c \in Clients, InTrans(c),
         Step(c) \/ \E call \in config.calls : Start(c, call)
  PROVE  InTrans(c)' \/ Commit(c) \/ Rollback(c)
<1>1. DOMAIN st[c] = Fields /\ st = [d \in Clients |-> st[d]]
  BY DEF LocalsInv, Locals
<1>2. CASE TxExec(c)
  BY <1>1, <1>2 DEF InTrans, IsTrans, Building, Fields, Update, TxExec
<1> QED
  BY <1>2, TransGoesOn DEF InTrans, IsTrans, Building

LEMMA TransEnters ==
  ASSUME LocalsInv, NEW c \in Clients, InTrans(c)',
         Step(c) \/ \E call \in config.calls : Start(c, call)
  PROVE  InTrans(c) \/ Begin(c) \/ BeginFails(c)
<1> USE DEF Update, Goto, At
<1>1. DOMAIN st[c] = Fields /\ st = [d \in Clients |-> st[d]] /\ RightStep(c)
  BY DEF LocalsInv, Locals
<1>2. CASE \E call \in config.calls : Start(c, call)
  BY <1>1, <1>2 DEF InTrans, IsTrans, Building, Fields, Start
<1>3. CASE Acquire(c)
  BY <1>1, <1>3 DEF InTrans, IsTrans, Building, Fields, Acquire
<1>4. CASE Refused(c) \/ Check(c)
  <2>1. CASE IsTrans(c)
    BY <1>1, <1>4, <2>1 DEF InTrans, IsTrans, Building, Fields, Refused, Check, RightStep, IsCreate, Dm8Ops
  <2>2. CASE ~IsTrans(c)
    BY <1>1, <1>4, <2>2 DEF InTrans, IsTrans, Building, Fields, Refused, Check
  <2> QED
    BY <2>1, <2>2
<1>5. CASE NextRow(c) \/ Return(c)
  BY <1>1, <1>5 DEF InTrans, Building, Fields, NextRow, Return, Leave, NoLocals
<1>6. CASE Exec(c) \/ ExecFails(c) \/ Heal(c) \/ ReadPage(c) \/ ReadFails(c) \/ CountRecords(c)
  BY <1>1, <1>6 DEF InTrans, Building, Fields, Exec, Done, ExecFails, Heal, ReadPage, ReadFails, CountRecords
<1>7. CASE BuildPlain(c) \/ ElementRejected(c) \/ ResetPlaceholders(c) \/ ReadPlaceholder(c)
  BY <1>1, <1>7
     DEF InTrans, IsTrans, Building, Fields, BuildPlain, ElementRejected, ResetPlaceholders, ReadPlaceholder
<1>8. CASE WritePlaceholder(c) \/ EscapeRefused(c) \/ EscapeDrop(c) \/ EscapeUse(c)
  BY <1>1, <1>8
     DEF InTrans, IsTrans, Building, Fields, WritePlaceholder, EscapeRefused, EscapeDrop, EscapeUse
<1>9. CASE TxExec(c) \/ TxExecFails(c) \/ Commit(c) \/ CommitFails(c) \/ Rollback(c)
  BY <1>1, <1>9 DEF InTrans, IsTrans, RightStep, TxExec, TxExecFails, Commit, CommitFails, Rollback
<1>10. CASE EscapeLease(c)
  BY <1>1, <1>10 DEF InTrans, IsTrans, Building, Fields, EscapeLease
<1> QED
  BY <1>2, <1>3, <1>4, <1>5, <1>6, <1>7, <1>8, <1>9, <1>10 DEF Step

LEMMA CleanStep ==
  ASSUME LocalsInv, LeaseInv, SessionInv, UNCHANGED config, NEW c \in config.clients,
         Step(c) \/ \E call \in config.calls : Start(c, call)
  PROVE  Clean'
<1> c \in Clients
  BY UseTypes
<1>1. ASSUME NEW d \in Clients \ {c}
      PROVE  InTrans(d)' <=> InTrans(d)
  BY OneMoves, LocalsStep, Framed DEF InTrans, IsTrans
<1>2. Moves(c)
  BY HeldStep DEF LeaseInv
<1>3. SUFFICES ASSUME ~RawTransactions, NEW h \in Conns, tx'[h] # NoTx
               PROVE  \E d \in Clients : Has(d, h)' /\ InTrans(d)'
  BY DEF Clean, RawTransactions
<1>4. tx[h] # NoTx => \E d \in Clients : Has(d, h) /\ InTrans(d)
  BY <1>3 DEF SessionInv, Clean
<1>5. CASE \E d \in Clients \ {c} : Has(d, h) /\ InTrans(d)
  BY <1>1, <1>2, <1>5 DEF Moves, SameOwners, Takes, Frees
<1>6. CASE ~\E d \in Clients \ {c} : Has(d, h) /\ InTrans(d)
  <2>1. tx[h] # NoTx => InTrans(c)
    BY <1>4, <1>6
  <2>2. Has(c, h)
    BY <1>3, <1>4, <1>6, TxStep DEF SessionInv, Sessions
  <2>3. Own(c) = h
    BY <2>2, OwnIs DEF LeaseInv
  <2>4. InTrans(c)'
    <3>1. CASE UNCHANGED <<table, tx>>
      <4>1. InTrans(c)
        BY <1>3, <2>1, <3>1
      <4>2. ~Commit(c) /\ ~Rollback(c)
        BY <1>3, <2>3, <3>1 DEF Commit, CommitOn, Rollback, SessionInv, Sessions
      <4> QED
        BY <4>1, <4>2, TransStays
    <3>2. CASE Exec(c)
      <4>1. ~IsTrans(c) /\ ~At(c, "idle")
        BY <3>2 DEF Exec, At
      <4>2. tx[h] = NoTx
        BY <2>1, <4>1 DEF InTrans
      <4>3. Statement(c).kind # "begin"
        BY <1>3, <4>1, StatementIs DEF RawTransactions, LocalsInv, Locals, InCall, ThisPart
      <4>4. tx'[h] = NoTx
        BY <2>3, <3>2, <4>2, <4>3 DEF Exec, Run, CommitOn, SessionInv, Sessions
      <4> QED
        BY <1>3, <4>4
    <3>3. CASE Begin(c)
      BY <3>3 DEF Begin, Goto, Update, InTrans, IsTrans, Building, Fields, LocalsInv, Locals, RightStep, At
    <3>4. CASE TxExec(c)
      <4>1. InTrans(c)
        BY <3>4 DEF TxExec, InTrans, At
      <4>2. ~Commit(c) /\ ~Rollback(c)
        BY <3>4 DEF TxExec, Commit, Rollback, At
      <4> QED
        BY <4>1, <4>2, TransStays
    <3>5. CASE Commit(c) \/ Rollback(c) \/ Heal(c)
      BY <1>3, <2>3, <3>5 DEF Commit, CommitOn, Rollback, Heal, SessionInv, Sessions
    <3> QED
      BY <3>1, <3>2, <3>3, <3>4, <3>5, Writers
  <2>5. Has(c, h)'
    <3>1. CASE SameOwners \/ \E k \in Conns : Takes(c, k)
      BY <2>2, <3>1 DEF SameOwners, Takes
    <3>2. CASE ~Holding(c)'
      BY <2>4, <3>2, LocalsStep DEF InTrans, Holding, Leasing, IsTrans
    <3> QED
      BY <1>2, <3>1, <3>2, UseTypes DEF Moves
  <2> QED
    BY <2>4, <2>5
<1> QED
  BY <1>5, <1>6

\* At a begin the session is outside any transaction, if the server refuses a
\* second begin or no begin is given as text.
LEMMA BeginIsFirst ==
  ASSUME LocalsInv, LeaseInv, SessionInv, NEW c \in Clients, Begin(c),
         config.nested = "refused" \/ ~RawTransactions
  PROVE  tx[Own(c)] = NoTx /\ tx' = [tx EXCEPT ![Own(c)] = <<>>] /\ UNCHANGED table
<1>1. Own(c) \in Conns /\ Has(c, Own(c))
  BY WritersHold
<1>2. config.nested = "refused" => tx[Own(c)] = NoTx
  BY DEF Begin, CanBegin
<1>3. ASSUME ~RawTransactions
      PROVE  tx[Own(c)] = NoTx
  <2>1. SUFFICES ASSUME tx[Own(c)] # NoTx
                 PROVE  FALSE
    OBVIOUS
  <2>2. PICK d \in Clients : Has(d, Own(c)) /\ InTrans(d)
    BY <1>1, <1>3, <2>1 DEF SessionInv, Clean
  <2>3. d = c
    BY <1>1, <2>2, OneOwner DEF LeaseInv
  <2> QED
    BY <2>2, <2>3 DEF Begin, At, InTrans, Building
<1>4. tx[Own(c)] = NoTx
  BY <1>2, <1>3
<1> QED
  BY <1>4 DEF Begin, BeginOn, Session

LEMMA TrackedStep ==
  ASSUME LocalsInv, LeaseInv, SessionInv, UNCHANGED config, NEW c \in config.clients,
         Step(c) \/ \E call \in config.calls : Start(c, call)
  PROVE  Tracked'
<1> c \in Clients
  BY UseTypes
<1>1. SUFFICES ASSUME config.nested = "refused" \/ ~RawTransactions,
                      NEW d \in Clients, NEW h \in Conns, Has(d, h)', InTransaction(d)'
               PROVE  tx'[h] = SoFar(d)'
  BY DEF Tracked, RawTransactions
<1>2. Has(d, h) /\ InTransaction(d) => tx[h] = SoFar(d)
  BY <1>1 DEF SessionInv, Tracked
<1>3. Moves(c)
  BY HeldStep DEF LeaseInv
<1>4. CASE d # c
  <2>1. st'[d] = st[d]
    BY <1>4, OneMoves, LocalsStep, Framed
  <2>2. Has(d, h)
    BY <1>1, <1>3, <1>4 DEF Moves, SameOwners, Takes, Frees
  <2>3. ~Has(c, h)
    BY <1>4, <2>2, OneOwner DEF LeaseInv
  <2>4. tx'[h] = tx[h]
    BY <2>3, TxStep DEF SessionInv, Sessions
  <2> QED
    BY <1>1, <1>2, <2>1, <2>2, <2>4 DEF InTransaction, SoFar, IsTrans, At
<1>5. CASE d = c
  <2>1. st = [e \in Clients |-> st[e]] /\ DOMAIN st[c] = Fields /\ Locals(c) /\ Locals(c)'
    BY LocalsStep DEF LocalsInv, Locals
  <2>2. InTrans(c)' /\ Holding(c)'
    BY <1>1, <1>5 DEF InTransaction, InTrans, Building, Holding, Leasing, IsTrans
  <2>3. InTrans(c) \/ Begin(c)
    <3>1. ~BeginFails(c)
      BY <1>1, <1>5, <2>1 DEF BeginFails, Goto, Update, Fields, InTransaction
    <3> QED
      BY <2>2, <3>1, TransEnters
  <2>4. Has(c, h)
    <3>1. ~At(c, "acquire")
      BY <2>3 DEF InTrans, Building, Begin, At
    <3> QED
      BY <1>1, <1>3, <1>5, <2>2, <3>1 DEF Moves, SameOwners
  <2>5. CASE Begin(c)
    <3>1. Own(c) = h
      BY <2>4, OwnIs DEF LeaseInv
    <3>2. st'[c].part = 1 /\ st'[c].pc = "build" /\ st'[c].call = st[c].call /\ InCall(c)
      BY <2>1, <2>5 DEF Begin, Goto, Update, Fields, Locals, RightStep, At
    <3>3. SoFar(c)' = <<>>
      BY <3>2, UseTypes, WholeSequence DEF SoFar, At, InCall
    <3>4. tx'[h] = <<>>
      BY <1>1, <2>5, <3>1, BeginIsFirst DEF SessionInv, Sessions
    <3> QED
      BY <1>5, <3>3, <3>4
  <2>6. CASE InTrans(c) /\ ~TxExec(c)
    <3>1. ~Commit(c) /\ ~Rollback(c)
      BY <1>1, <1>5, <2>1 DEF Commit, Rollback, Done, Update, Fields, InTransaction
    <3>2. ~Begin(c) /\ ~Exec(c) /\ ~Heal(c)
      BY <2>6 DEF Begin, Exec, Heal, InTrans, Building, At
    <3>3. UNCHANGED tx
      BY <2>6, <3>1, <3>2, Writers
    <3>4. /\ st'[c].part = st[c].part /\ st'[c].call = st[c].call /\ st'[c].pc # "commit"
          /\ ~At(c, "commit") /\ InTransaction(c)
      BY <1>1, <1>5, <2>6, <3>1, TransGoesOn DEF InTransaction, Building
    <3> QED
      BY <1>2, <1>5, <2>4, <3>3, <3>4 DEF SoFar, At
  <2>7. CASE TxExec(c)
    <3>1. Own(c) = h
      BY <2>4, OwnIs DEF LeaseInv
    <3>2. /\ At(c, "exec") /\ IsTrans(c) /\ InTransaction(c) /\ InCall(c)
          /\ ~IsCreate(c) /\ Statement(c) = ThisPart(c)
      BY <2>7, StatementIs, WritersHold DEF TxExec, InTransaction, IsTrans, IsCreate, Dm8Ops, At
    <3> DEFINE p == st[c].call.parts
               n == st[c].part
    <3>3. p \in Seq(Statements) /\ n \in 1..Len(p) /\ Len(p) \in Nat
      BY <3>2, UseTypes DEF InCall
    <3>4. tx[h] = SubSeq(p, 1, n - 1) /\ tx[h] \in Seq(Statements)
      <4>1. tx[h] = SubSeq(p, 1, n - 1)
        BY <1>2, <1>5, <2>4, <3>2 DEF SoFar, At
      <4> QED
        BY <3>3, <4>1, Extended
    <3>5. tx'[h] = Append(tx[h], p[n])
      <4>1. tx[h] # NoTx /\ Statement(c) = p[n]
        BY <3>2, <3>4, BackendAssumption DEF ThisPart
      <4>2. tx' = [tx EXCEPT ![h] = Append(@, p[n])]
        BY <2>7, <3>1, <4>1 DEF TxExec, Run
      <4> QED
        BY <4>2 DEF SessionInv, Sessions
    <3>6. /\ st'[c].call = st[c].call
          /\ IF n = Len(p) THEN st'[c].pc = "commit" /\ st'[c].part = n
             ELSE st'[c].pc = "build" /\ st'[c].part = n + 1
      BY <2>1, <2>7 DEF TxExec, Update, Fields
    <3>7. SoFar(c)' = SubSeq(p, 1, n)
      BY <3>3, <3>6 DEF SoFar, At
    <3> HIDE DEF p, n
    <3> QED
      BY <1>5, <3>3, <3>4, <3>5, <3>7, Extended
  <2> QED
    BY <2>3, <2>5, <2>6, <2>7
<1> QED
  BY <1>4, <1>5

\* A transaction under way is open and holds what its call has run.
LEMMA OpenSession ==
  ASSUME LocalsInv, LeaseInv, SessionInv, ~RawTransactions, NEW c \in Clients, Has(c, Own(c)),
         Own(c) \in Conns, InTransaction(c), InCall(c)
  PROVE  tx[Own(c)] = SoFar(c) /\ tx[Own(c)] # NoTx
<1>1. tx[Own(c)] = SoFar(c)
  BY DEF SessionInv, Tracked
<1> DEFINE p == st[c].call.parts
           n == st[c].part
<1>2. p \in Seq(Statements) /\ n \in 1..Len(p)
  BY UseTypes DEF InCall
<1>3. SubSeq(p, 1, n) \in Seq(Statements) /\ SubSeq(p, 1, n - 1) \in Seq(Statements)
  BY <1>2, Extended
<1>4. SoFar(c) \in Seq(Statements)
  BY <1>3 DEF SoFar
<1> QED
  BY <1>1, <1>4, BackendAssumption

-----------------------------------------------------------------------------
(* Healing.                                                                *)

\* A backend that heals has one connection.
LEMMA OnlyConnection ==
  ASSUME LocalsInv, HealInv, config.heals, NEW h \in config.conns
  PROVE  config.conns = {h}
<1>1. PICK k : config.conns = {k}
  <2>1. IsFiniteSet(config.conns)
    BY BackendAssumption, FS_Subset DEF LocalsInv, Uses
  <2> QED
    BY <2>1, FS_Singleton DEF HealInv
<1> QED
  BY <1>1

LEMMA HealStep ==
  ASSUME LocalsInv, LeaseInv, HealInv, UNCHANGED config, NEW c \in config.clients,
         Step(c) \/ \E call \in config.calls : Start(c, call)
  PROVE  HealInv'
<1> c \in Clients
  BY UseTypes
<1>1. st = [d \in Clients |-> st[d]] /\ DOMAIN st[c] = Fields /\ Locals(c)
  BY DEF LocalsInv, Locals
\* Another call's connection stays with it.
<1>2. ASSUME NEW h \in Conns, NEW d \in Clients \ {c}, Has(d, h), At(d, "heal")
      PROVE  Has(d, h)' /\ At(d, "heal")'
  <2>1. st'[d] = st[d]
    BY OneMoves, LocalsStep, Framed
  <2>2. Moves(c)
    BY HeldStep DEF LeaseInv
  <2>3. Has(d, h)'
    BY <1>2, <2>2, UseTypes DEF Moves, SameOwners, Takes, Frees
  <2> QED
    BY <1>2, <2>1, <2>3 DEF At
<1>3. broken \subseteq Conns
  BY UseTypes DEF HealInv
<1>4. CASE ExecFails(c)
  <2>1. At(c, "exec") /\ UNCHANGED <<broken, held>> /\ toll' = [toll EXCEPT !.lost = IF Own(c) \in broken THEN @ + 1 ELSE @]
    BY <1>4 DEF ExecFails
  <2>2. toll' \in [breaks : Nat, lost : Nat] /\ broken' \subseteq config'.conns
    BY <2>1 DEF HealInv
  <2>3. ASSUME config.heals PROVE toll'.lost + Owed' <= toll'.breaks
    <3>1. ~IsCreate(c) /\ At(c, "heal")'
      <4>1. ~IsCreate(c)
        BY <1>1, <2>1, <2>3 DEF LocalsInv, Locals, InCall, At, IsCreate
      <4> QED
        BY <1>1, <1>4, <2>3, <4>1 DEF ExecFails, Goto, Update, Fields, At
    <3>2. PICK h \in Conns : h = Own(c) /\ Has(c, h)
      BY <2>1, OwnHas DEF LeaseInv, Holding, Leasing, At
    <3>3. \A k \in broken : Healing(k) => Healing(k)'
      BY <1>2, <1>3, <2>1 DEF Healing, At
    <3>4. CASE h \in broken
      <4>1. ~Healing(h)
        BY <2>1, <3>2, OneOwner DEF Healing, LeaseInv, At
      <4>2. Healing(h)'
        BY <2>1, <3>1, <3>2 DEF Healing, Has
      <4>3. broken = {h} /\ broken' = {h}
        BY <2>1, <2>3, <3>4, OnlyConnection DEF HealInv
      <4>4. Owed = 1
        BY <4>1, <4>3 DEF Owed
      <4>5. Owed' = 0
        BY <4>2, <4>3 DEF Owed
      <4> QED
        BY <2>1, <2>3, <3>2, <3>4, <4>4, <4>5 DEF HealInv
    <3>5. CASE h \notin broken
      <4>1. Owed' = 0 \/ Owed = 1
        BY <2>1, <3>3 DEF Owed
      <4> QED
        BY <2>1, <2>3, <3>2, <3>5, <4>1 DEF HealInv, Owed
    <3> QED
      BY <3>4, <3>5
  <2> QED
    BY <2>2, <2>3 DEF HealInv
<1>5. CASE Heal(c)
  <2>1. At(c, "heal") /\ UNCHANGED <<held, toll>> /\ broken' = broken \ {Own(c)}
    BY <1>5 DEF Heal
  <2>2. Leased(c)
    BY <2>1 DEF LeaseInv, Holding, Leasing, At
  <2>3. ASSUME NEW h \in broken', Healing(h) PROVE Healing(h)'
    <3>1. PICK d \in Clients : Has(d, h) /\ At(d, "heal")
      BY <2>3 DEF Healing
    <3>2. d # c
      BY <1>3, <2>1, <2>3, <3>1, OwnIs DEF LeaseInv
    <3> QED
      BY <1>2, <1>3, <2>1, <3>1, <3>2 DEF Healing
  <2>4. Owed' = 0 \/ Owed = 1
    BY <2>1, <2>3 DEF Owed
  <2> QED
    BY <2>1, <2>4 DEF HealInv, Owed
<1>6. CASE ~ExecFails(c) /\ ~Heal(c)
  <2>1. UNCHANGED <<broken, toll>>
    BY <1>6
       DEF Step, Start, BuildPlain, ElementRejected, ResetPlaceholders, ReadPlaceholder,
           WritePlaceholder, EscapeLease, EscapeRefused, EscapeDrop, EscapeUse, Acquire, Refused, NextRow,
           Return, Exec, Check, Begin, BeginFails, TxExec, TxExecFails, Commit, CommitFails, Rollback,
           ReadPage, ReadFails, CountRecords, shared
  <2>2. ~At(c, "heal")
    BY <1>6
       DEF Step, Start, BuildPlain, ElementRejected, ResetPlaceholders, ReadPlaceholder,
           WritePlaceholder, EscapeLease, EscapeRefused, EscapeDrop, EscapeUse, Acquire, Refused, NextRow,
           Return, Exec, Check, Begin, BeginFails, TxExec, TxExecFails, Commit, CommitFails, Rollback,
           ReadPage, ReadFails, CountRecords, At
  <2>3. \A h \in broken : Healing(h) => Healing(h)'
    BY <1>2, <1>3, <2>2 DEF Healing
  <2>4. Owed' = 0 \/ Owed = 1
    BY <2>1, <2>3 DEF Owed
  <2> QED
    BY <2>1, <2>4 DEF HealInv, Owed
<1> QED
  BY <1>4, <1>5, <1>6

-----------------------------------------------------------------------------
(* The placeholders of one thread alone.                                   *)

LEMMA Counted ==
  ASSUME NEW n \in Nat
  PROVE  /\ UpTo(0) = <<>> /\ Len(UpTo(n)) = n
         /\ Append(UpTo(n), n + 1) = UpTo(n + 1)
         /\ n > 0 => Last(UpTo(n)) = n
<1>1. UpTo(n) \in Seq(Nat) /\ Len(UpTo(n)) = n
  BY DEF UpTo
<1>2. UpTo(n + 1) \in Seq(Nat) /\ Len(UpTo(n + 1)) = n + 1
  BY DEF UpTo
<1>3. Append(UpTo(n), n + 1) = UpTo(n + 1)
  BY <1>1, <1>2 DEF UpTo
<1>4. n > 0 => Last(UpTo(n)) = n
  BY <1>1 DEF Last, UpTo
<1>5. UpTo(0) = <<>>
  BY DEF UpTo
<1> QED
  BY <1>1, <1>3, <1>4, <1>5

LEMMA NumberStep ==
  ASSUME LocalsInv, NumberInv, UNCHANGED config, NEW c \in config.clients,
         Step(c) \/ \E call \in config.calls : Start(c, call)
  PROVE  NumberInv'
<1> c \in Clients
  BY UseTypes
<1>1. SUFFICES ASSUME config.clients = {c}, config.mode = "numbered"
               PROVE  /\ At(c, "number")' =>
                           \E n \in 0..(Values - 1) : st'[c].numbers = UpTo(n) /\ counter' = n + 1
                      /\ At(c, "advance")' => \E n \in 1..Values : st'[c].numbers = UpTo(n)
                      /\ IsNumbered(c)' /\ ThisPart(c)'.built => st'[c].numbers = UpTo(Values)
  BY DEF NumberInv
<1>2. DOMAIN st[c] = Fields /\ st = [d \in Clients |-> st[d]] /\ Locals(c)
  BY DEF LocalsInv, Locals
<1>3. /\ At(c, "number") =>
           \E n \in 0..(Values - 1) : st[c].numbers = UpTo(n) /\ counter = n + 1
      /\ At(c, "advance") => \E n \in 1..Values : st[c].numbers = UpTo(n)
      /\ IsNumbered(c) /\ ThisPart(c).built => st[c].numbers = UpTo(Values)
  BY <1>1 DEF NumberInv
<1>4. Values \in Nat \ {0}
  BY BackendAssumption
<1>5. ASSUME st'[c].pc \notin {"number", "advance", "exec", "acquire"}
      PROVE  ~At(c, "number")' /\ ~At(c, "advance")' /\ ~IsNumbered(c)'
  BY <1>5 DEF IsNumbered, At
<1>6. CASE \E call \in config.calls : Start(c, call)
  <2>1. ~At(c, "number")' /\ ~At(c, "advance")' /\ ~IsNumbered(c)'
    BY <1>2, <1>6 DEF IsNumbered, At, Start, Update, Fields, IsTrans, IsCreate, Dm8Ops, Locals
  <2> QED
    BY <2>1
<1>7. CASE BuildPlain(c)
  <2>1. ~ThisPart(c).built
    BY <1>1, <1>7, StatementIs DEF BuildPlain, At
  <2>2. ~At(c, "number")' /\ ~At(c, "advance")' /\ ThisPart(c)' = ThisPart(c)
    BY <1>2, <1>7 DEF BuildPlain, Built, Goto, Update, Fields, At, ThisPart
  <2> QED
    BY <2>1, <2>2
<1>8. CASE ResetPlaceholders(c)
  <2>1. st'[c].pc = "number" /\ st'[c].numbers = <<>> /\ counter' = 1
    BY <1>2, <1>8 DEF ResetPlaceholders, Update, Fields
  <2>2. 0 \in 0..(Values - 1) /\ UpTo(0) = <<>>
    BY <1>4, Counted
  <2>3. st'[c].numbers = UpTo(0) /\ counter' = 0 + 1
    BY <2>1, <2>2
  <2> QED
    BY <2>1, <2>2, <2>3 DEF At, IsNumbered
<1>9. CASE ReadPlaceholder(c)
  <2>1. PICK n \in 0..(Values - 1) : st[c].numbers = UpTo(n) /\ counter = n + 1
    BY <1>3, <1>9 DEF ReadPlaceholder
  <2>2. n \in Nat /\ n + 1 \in 1..Values
    BY <1>4
  <2>3. st'[c].numbers = UpTo(n + 1) /\ st'[c].pc = "advance"
    BY <1>2, <1>9, <2>1, <2>2, Counted DEF ReadPlaceholder, Update, Fields
  <2> QED
    BY <2>2, <2>3 DEF At, IsNumbered
<1>10. CASE WritePlaceholder(c)
  <2>1. PICK n \in 1..Values : st[c].numbers = UpTo(n)
    BY <1>3, <1>10 DEF WritePlaceholder
  <2>2. n \in Nat /\ Len(UpTo(n)) = n /\ Last(UpTo(n)) = n
    BY <1>4, Counted
  <2>3. st'[c].numbers = UpTo(n) /\ counter' = n + 1
    BY <1>2, <1>10, <2>1, <2>2 DEF WritePlaceholder, Goto, Update, Fields
  <2>4. CASE n < Values
    <3>1. st'[c].pc = "number" /\ n \in 0..(Values - 1)
      BY <1>2, <1>4, <1>10, <2>1, <2>2, <2>4 DEF WritePlaceholder, Goto, Update, Fields
    <3> QED
      BY <2>3, <3>1 DEF At, IsNumbered
  <2>5. CASE ~(n < Values)
    <3>1. n = Values
      BY <1>4, <2>5
    <3>2. st'[c].pc = Built(c)
      BY <1>2, <1>10, <2>1, <2>2, <2>5 DEF WritePlaceholder, Goto, Update, Fields
    <3> QED
      BY <2>3, <3>1, <3>2 DEF Built, At
  <2> QED
    BY <2>4, <2>5
<1>11. CASE EscapeLease(c) \/ EscapeRefused(c) \/ EscapeDrop(c) \/ EscapeUse(c)
  BY <1>1, <1>2, <1>11 DEF EscapeLease, EscapeRefused, EscapeDrop, EscapeUse, Locals, RightStep, At
<1>12. CASE Acquire(c)
  <2>1. /\ st'[c].pc \notin {"number", "advance", "acquire"} /\ ThisPart(c)' = ThisPart(c)
        /\ st'[c].numbers = st[c].numbers
    BY <1>2, <1>12 DEF Acquire, Goto, Update, Fields, ThisPart
  <2>2. st'[c].pc = "exec" => IsNumbered(c)
    BY <1>2, <1>12 DEF Acquire, Goto, Update, Fields, IsNumbered, At, IsTrans, IsCreate, Dm8Ops
  <2> QED
    BY <1>3, <2>1, <2>2 DEF IsNumbered, At
<1>13. CASE NextRow(c)
  BY <1>2, <1>13 DEF NextRow, RowsLeft, Update, Fields, At, IsNumbered, IsCreate, Dm8Ops
<1>14. CASE Refused(c) \/ Return(c) \/ Exec(c) \/ ExecFails(c) \/ Heal(c) \/ Check(c)
  <2>1. st'[c].pc \notin {"number", "advance", "exec", "acquire"}
    BY <1>2, <1>14
       DEF Refused, Return, Leave, NoLocals, Exec, Done, ExecFails, Heal, Check, Goto, Update, Fields
  <2> QED
    BY <1>5, <2>1
<1>15. CASE Begin(c) \/ BeginFails(c) \/ TxExec(c) \/ TxExecFails(c) \/ Commit(c) \/ CommitFails(c)
  <2>1. st'[c].pc \notin {"number", "advance", "exec", "acquire"}
    BY <1>2, <1>15
       DEF Begin, BeginFails, TxExec, TxExecFails, Commit, Done, CommitFails, Goto, Update, Fields
  <2> QED
    BY <1>5, <2>1
<1>16. CASE Rollback(c) \/ ReadPage(c) \/ ReadFails(c) \/ CountRecords(c) \/ ElementRejected(c)
  <2>1. st'[c].pc \notin {"number", "advance", "exec", "acquire"}
    BY <1>2, <1>16
       DEF Rollback, ReadPage, ReadFails, CountRecords, ElementRejected, Goto, Update, Fields
  <2> QED
    BY <1>5, <2>1
<1> QED
  BY <1>6, <1>7, <1>8, <1>9, <1>10, <1>11, <1>12, <1>13, <1>14, <1>15, <1>16 DEF Step

-----------------------------------------------------------------------------
(* The create() of one thread alone.                                       *)

\* A step keeps the thread's call, but for the return.
LEMMA CallStays ==
  ASSUME LocalsInv, NEW c \in Clients, Step(c)
  PROVE  st'[c].call = IF Return(c) THEN NoCall ELSE st[c].call
<1>1. DOMAIN st[c] = Fields /\ st = [d \in Clients |-> st[d]]
  BY DEF LocalsInv, Locals
<1> USE DEF Goto, Update, Fields
<1>2. CASE BuildPlain(c) \/ ElementRejected(c) \/ ResetPlaceholders(c) \/ ReadPlaceholder(c)
  BY <1>1, <1>2 DEF BuildPlain, ElementRejected, ResetPlaceholders, ReadPlaceholder, Return, At
<1>3. CASE WritePlaceholder(c) \/ EscapeRefused(c) \/ EscapeDrop(c) \/ EscapeUse(c)
  BY <1>1, <1>3 DEF WritePlaceholder, EscapeRefused, EscapeDrop, EscapeUse, Return, At
<1>4. CASE EscapeLease(c)
  BY <1>1, <1>4 DEF EscapeLease, Return, At
<1>5. CASE Acquire(c) \/ Refused(c)
  BY <1>1, <1>5 DEF Acquire, Refused, Return, At
<1>6. CASE NextRow(c)
  BY <1>1, <1>6 DEF NextRow, Return
<1>7. CASE Return(c)
  BY <1>1, <1>7 DEF Return, Leave, NoLocals
<1>8. CASE Exec(c) \/ ExecFails(c) \/ Heal(c) \/ Check(c) \/ Begin(c) \/ BeginFails(c)
  BY <1>1, <1>8 DEF Exec, Done, ExecFails, Heal, Check, Begin, BeginFails, Return, At
<1>9. CASE TxExec(c) \/ TxExecFails(c) \/ Commit(c) \/ CommitFails(c) \/ Rollback(c)
  BY <1>1, <1>9 DEF TxExec, TxExecFails, Commit, Done, CommitFails, Rollback, Return, At
<1>10. CASE ReadPage(c) \/ ReadFails(c) \/ CountRecords(c)
  BY <1>1, <1>10 DEF ReadPage, ReadFails, CountRecords, Return, At
<1> QED
  BY <1>2, <1>3, <1>4, <1>5, <1>6, <1>7, <1>8, <1>9, <1>10 DEF Step

LEMMA NobodyElse ==
  ASSUME LocalsInv, LeaseInv, SessionInv, NEW c \in Clients,
         config.clients = {c}, ~RawTransactions, IsCreate(c)
  PROVE  \A h \in Conns : tx[h] = NoTx /\ Session(h) = table
<1> SUFFICES ASSUME NEW h \in Conns, tx[h] # NoTx
             PROVE  FALSE
  BY DEF Session
<1>1. PICK d \in Clients : Has(d, h) /\ InTrans(d)
  BY DEF SessionInv, Clean
<1>2. d = c
  BY <1>1 DEF LocalsInv, Locals, InCall, InTrans, At, Building
<1> QED
  BY <1>1, <1>2 DEF InTrans, IsTrans, IsCreate, Dm8Ops

LEMMA CreateStep ==
  ASSUME LocalsInv, LeaseInv, SessionInv, CreateInv, UNCHANGED config, NEW c \in config.clients,
         Step(c) \/ \E call \in config.calls : Start(c, call)
  PROVE  CreateInv'
<1> c \in Clients
  BY UseTypes
<1>1. SUFFICES ASSUME config.clients = {c}, config.faults = {}, ~RawTransactions
               PROVE  /\ broken' = {}
                      /\ IsCreate(c)' => st'[c].result # "failed"
                      /\ IsCreate(c)' /\ st'[c].kind = "insert" /\ ~At(c, "return")' =>
                           \A k \in ThisPart(c)'.keys : table'[k] = NoRow
  BY DEF CreateInv, RawTransactions
<1>2. DOMAIN st[c] = Fields /\ st = [d \in Clients |-> st[d]] /\ Locals(c)
  BY DEF LocalsInv, Locals
<1>3. /\ broken = {}
      /\ IsCreate(c) => st[c].result # "failed"
      /\ IsCreate(c) /\ st[c].kind = "insert" /\ ~At(c, "return") =>
           \A k \in ThisPart(c).keys : table[k] = NoRow
  BY <1>1 DEF CreateInv
<1>4. broken' = {}
  BY <1>3
     DEF Step, Start, BuildPlain, ElementRejected, ResetPlaceholders, ReadPlaceholder,
         WritePlaceholder, EscapeLease, EscapeRefused, EscapeDrop, EscapeUse, Acquire, Refused, NextRow,
         Return, Exec, ExecFails, Heal, Check, Begin, BeginFails, TxExec, TxExecFails, Commit,
         CommitFails, Rollback, ReadPage, ReadFails, CountRecords, shared
<1>5. Nil \notin {"insert", "update", "success", "failed"}
  BY BackendAssumption
<1>6. CASE ~IsCreate(c)'
  BY <1>4, <1>6
<1>7. CASE \E call \in config.calls : Start(c, call)
  <2>1. st'[c].kind = Nil /\ st'[c].result = Nil
    BY <1>2, <1>7 DEF Start, Update, Fields, Locals, RightAnswer, At
  <2> QED
    BY <1>4, <1>5, <2>1
<1>8. CASE IsCreate(c) /\ ExecFails(c)
  <2>1. Own(c) \in Conns /\ At(c, "exec")
    BY <1>8, OwnHas DEF ExecFails, LeaseInv, Holding, Leasing, At
  <2>2. \A h \in Conns : tx[h] = NoTx /\ Session(h) = table
    BY <1>1, <1>8, NobodyElse
  <2>3. st[c].kind \in {"insert", "update"} /\ ~At(c, "return") /\ ~At(c, "idle")
    BY <1>2, <1>8, <2>1 DEF Locals, RightStep, At
  <2>4. Statement(c).kind = st[c].kind /\ Statement(c).keys = ThisPart(c).keys
    BY <1>5, <1>8, <2>3, StatementIs
  <2>5. Accepts(table, Statement(c))
    BY <1>3, <1>8, <2>3, <2>4 DEF Accepts
  <2>6. CanRun(c, Statement(c))
    BY <1>3, <2>1, <2>2, <2>5 DEF CanRun, LockedByOther
  <2>7. ~CanFail(c, Statement(c))
    BY <1>1, <2>3, <2>4, <2>6 DEF CanFail
  <2> QED
    BY <1>8, <2>7 DEF ExecFails
<1>9. CASE IsCreate(c) /\ Check(c)
  <2>1. Own(c) \in Conns /\ At(c, "check")
    BY <1>9, OwnHas DEF Check, LeaseInv, Holding, Leasing, At
  <2>2. Session(Own(c)) = table
    BY <1>1, <1>9, <2>1, NobodyElse
  <2>3. PICK k \in Keys : ThisPart(c).keys = {k}
    BY <1>2, <1>9, <2>1, UseTypes DEF Locals, InCall, IsCreate, ThisPart, At
  <2>4. Statement(c).keys = {k}
    BY <2>1, <2>3, StatementIs DEF At
  <2>5. Update(c, [pc |-> "build", kind |-> IF table[k] = NoRow THEN "insert" ELSE "update"])
    BY <1>1, <1>3, <1>9, <2>2, <2>4 DEF Check
  <2>6. /\ st'[c].kind = IF table[k] = NoRow THEN "insert" ELSE "update"
        /\ st'[c].result = st[c].result /\ ThisPart(c)' = ThisPart(c)
    BY <1>2, <2>5 DEF Update, Fields, ThisPart
  <2>7. UNCHANGED table
    BY <1>9 DEF Check
  <2> QED
    BY <1>3, <1>4, <1>9, <2>3, <2>6, <2>7
<1>10. CASE IsCreate(c) /\ NextRow(c)
  BY <1>2, <1>4, <1>5, <1>10 DEF NextRow, Update, Fields
<1>11. CASE IsCreate(c) /\ Return(c)
  BY <1>2, <1>6, <1>11 DEF Return, Leave, Update, Fields, NoLocals, NoCall, IsCreate, Dm8Ops
<1>12. CASE IsCreate(c) /\ Exec(c)
  BY <1>2, <1>4, <1>12 DEF Exec, Done, Update, Fields, At
<1>13. CASE IsCreate(c) /\ (Refused(c) \/ ReadPage(c) \/ ReadFails(c) \/ CountRecords(c) \/ EscapeRefused(c))
  BY <1>1, <1>2, <1>13
     DEF Refused, ReadPage, ReadFails, CountRecords, EscapeRefused, Locals, RightStep, At, IsCreate, Dm8Ops
<1>14. CASE IsCreate(c) /\ (ElementRejected(c) \/ Heal(c) \/ Begin(c) \/ BeginFails(c) \/ TxExec(c) \/ TxExecFails(c)
                          \/ Commit(c) \/ CommitFails(c) \/ Rollback(c))
  BY <1>2, <1>14
     DEF ElementRejected, Heal, Begin, BeginFails, TxExec, TxExecFails, Commit, CommitFails, Rollback,
         Locals, RightStep, At, IsCreate, IsTrans, Dm8Ops
<1>15. CASE IsCreate(c) /\ (BuildPlain(c) \/ ResetPlaceholders(c) \/ ReadPlaceholder(c) \/ WritePlaceholder(c)
                          \/ EscapeLease(c) \/ EscapeDrop(c) \/ EscapeUse(c) \/ Acquire(c))
  <2>1. /\ \A f \in {"call", "part", "kind", "result"} : st'[c][f] = st[c][f]
        /\ UNCHANGED table
    <3>1. CASE BuildPlain(c) \/ ResetPlaceholders(c) \/ ReadPlaceholder(c) \/ WritePlaceholder(c)
      BY <1>2, <3>1
         DEF BuildPlain, ResetPlaceholders, ReadPlaceholder, WritePlaceholder, Goto, Update, Fields, shared
    <3>2. CASE EscapeDrop(c) \/ EscapeUse(c) \/ Acquire(c)
      BY <1>2, <3>2 DEF EscapeDrop, EscapeUse, Acquire, Goto, Update, Fields, shared
    <3>3. CASE EscapeLease(c)
      BY <1>2, <3>3 DEF EscapeLease, Update, Fields
    <3> QED
      BY <1>15, <3>1, <3>2, <3>3
  <2>2. ~At(c, "return")
    BY <1>15
       DEF BuildPlain, ResetPlaceholders, ReadPlaceholder, WritePlaceholder, EscapeLease, EscapeDrop,
           EscapeUse, Acquire, At
  <2>3. ThisPart(c)' = ThisPart(c) /\ (IsCreate(c)' <=> IsCreate(c))
    BY <2>1 DEF ThisPart, IsCreate
  <2> QED
    BY <1>3, <1>4, <2>1, <2>2, <2>3
<1>16. CASE ~IsCreate(c) /\ Step(c) /\ IsCreate(c)'
  <2>1. st'[c].call = st[c].call \/ st'[c].call = NoCall
    BY <1>2, <1>16, CallStays
  <2> QED
    BY <1>16, <2>1 DEF IsCreate, NoCall, Dm8Ops
<1> QED
  BY <1>6, <1>7, <1>8, <1>9, <1>10, <1>11, <1>12, <1>13, <1>14, <1>15, <1>16 DEF Step

-----------------------------------------------------------------------------
(* The rows and the count of select() on the only connection.              *)

LEMMA OneConnection ==
  ASSUME LocalsInv, Grants, Cardinality(config.conns) = 1,
         NEW c \in Clients, NEW d \in Clients, NEW h \in Conns, NEW k \in Conns, Has(c, h), Has(d, k)
  PROVE  c = d
<1>1. IsFiniteSet(config.conns)
  BY BackendAssumption, UseTypes, FS_Subset
<1>2. PICK x : config.conns = {x}
  BY <1>1, FS_Singleton
<1>3. <<<<c, "own">>, h>> \in Leases \X config.conns /\ <<<<d, "own">>, k>> \in Leases \X config.conns
  BY DEF Grants, Has
<1>4. h = k
  BY <1>2, <1>3
<1> QED
  BY <1>4, OneOwner

LEMMA CountFollows ==
  ASSUME LocalsInv, NEW c \in Clients, st'[c].pc = "count",
         Step(c) \/ \E call \in config.calls : Start(c, call)
  PROVE  ReadPage(c)
<1>1. DOMAIN st[c] = Fields /\ st = [d \in Clients |-> st[d]]
  BY DEF LocalsInv, Locals
<1> USE DEF Goto, Update, Fields, Built
<1>2. ASSUME NEW call \in config.calls
      PROVE  ~Start(c, call)
  BY <1>1 DEF Start
<1>3. ~BuildPlain(c) /\ ~ElementRejected(c) /\ ~ResetPlaceholders(c) /\ ~ReadPlaceholder(c)
  BY <1>1 DEF BuildPlain, ElementRejected, ResetPlaceholders, ReadPlaceholder
<1>4. ~WritePlaceholder(c) /\ ~EscapeRefused(c) /\ ~EscapeDrop(c) /\ ~EscapeUse(c)
  BY <1>1 DEF WritePlaceholder, EscapeRefused, EscapeDrop, EscapeUse
<1>5. ~NextRow(c) /\ ~Return(c) /\ ~Refused(c)
  BY <1>1 DEF NextRow, Return, Leave, NoLocals, Refused
<1>6. ~EscapeLease(c) /\ ~Acquire(c)
  <2>1. ~EscapeLease(c)
    <3>1. ASSUME NEW h, Update(c, [pc |-> "drop", ptr |-> h])
          PROVE  FALSE
      BY <1>1, <3>1
    <3> QED
      BY <3>1 DEF EscapeLease
  <2>2. ~Acquire(c)
    BY <1>1 DEF Acquire
  <2> QED
    BY <2>1, <2>2
<1>7. ~Exec(c) /\ ~ExecFails(c) /\ ~Heal(c) /\ ~Check(c) /\ ~Begin(c) /\ ~BeginFails(c)
  BY <1>1 DEF Exec, Done, ExecFails, Heal, Check, Begin, BeginFails
<1>8. ~TxExec(c) /\ ~TxExecFails(c) /\ ~Commit(c) /\ ~CommitFails(c) /\ ~Rollback(c)
  BY <1>1 DEF TxExec, TxExecFails, Commit, Done, CommitFails, Rollback
<1>9. ~ReadFails(c) /\ ~CountRecords(c)
  BY <1>1 DEF ReadFails, CountRecords
<1> QED
  BY <1>2, <1>3, <1>4, <1>5, <1>6, <1>7, <1>8, <1>9 DEF Step

\* The success of a select() comes from its count, and stays until it returns.
LEMMA AnswerFollows ==
  ASSUME LocalsInv, NEW c \in Clients, st'[c].call.op = "select", st'[c].result = "success",
         Step(c) \/ \E call \in config.calls : Start(c, call), ~CountRecords(c)
  PROVE  st[c].call.op = "select" /\ st[c].result = "success" /\ At(c, "return")
<1>1. DOMAIN st[c] = Fields /\ st = [d \in Clients |-> st[d]] /\ Locals(c)
  BY DEF LocalsInv, Locals
<1>2. Nil # "success"
  BY BackendAssumption
<1>3. ~At(c, "return") => st[c].result = Nil
  BY <1>1 DEF Locals, RightAnswer
<1>4. CASE \E call \in config.calls : Start(c, call)
  BY <1>1, <1>2, <1>3, <1>4 DEF Start, Update, Fields, At
<1>5. CASE Step(c)
  <2>1. ~Return(c)
    BY <1>1 DEF Return, Leave, NoLocals, NoCall, Update, Fields
  <2>2. st[c].call.op = "select"
    BY <1>5, <2>1, CallStays
  <2>3. ~Exec(c) /\ ~Commit(c)
    BY <1>1, <2>2 DEF Exec, Commit, Locals, RightStep, At, IsTrans
  <2>4. st'[c].result = st[c].result \/ st'[c].result # "success"
    <3> USE DEF Goto, Update, Fields
    <3>1. CASE BuildPlain(c) \/ ElementRejected(c) \/ ResetPlaceholders(c) \/ ReadPlaceholder(c)
      BY <1>1, <3>1 DEF BuildPlain, ElementRejected, ResetPlaceholders, ReadPlaceholder
    <3>2. CASE WritePlaceholder(c) \/ EscapeRefused(c) \/ EscapeDrop(c) \/ EscapeUse(c)
      BY <1>1, <3>2 DEF WritePlaceholder, EscapeRefused, EscapeDrop, EscapeUse
    <3>3. CASE NextRow(c) \/ Refused(c)
      BY <1>1, <1>2, <3>3 DEF NextRow, Refused
    <3>6. CASE Acquire(c)
      BY <1>1, <3>6 DEF Acquire
    <3>7. CASE EscapeLease(c)
      BY <1>1, <3>7 DEF EscapeLease
    <3>4. CASE ExecFails(c) \/ Heal(c) \/ Check(c) \/ Begin(c) \/ BeginFails(c) \/ TxExec(c) \/ TxExecFails(c)
      BY <1>1, <3>4 DEF ExecFails, Heal, Check, Begin, BeginFails, TxExec, TxExecFails
    <3>5. CASE CommitFails(c) \/ Rollback(c) \/ ReadPage(c) \/ ReadFails(c)
      BY <1>1, <3>5 DEF CommitFails, Rollback, ReadPage, ReadFails
    <3> QED
      BY <1>5, <2>1, <2>3, <3>1, <3>2, <3>3, <3>4, <3>5, <3>6, <3>7 DEF Step
  <2> QED
    BY <1>2, <1>3, <2>2, <2>4
<1> QED
  BY <1>4, <1>5

LEMMA SnapshotStep ==
  ASSUME LocalsInv, LeaseInv, SnapshotInv, UNCHANGED config, NEW c \in config.clients,
         Step(c) \/ \E call \in config.calls : Start(c, call)
  PROVE  SnapshotInv'
<1> c \in Clients
  BY UseTypes
<1>1. DOMAIN st[c] = Fields /\ st = [d \in Clients |-> st[d]] /\ Locals(c)
  BY DEF LocalsInv, Locals
<1>2. Nil # "success"
  BY BackendAssumption
<1>3. SUFFICES ASSUME Cardinality(config.conns) = 1
               PROVE  \A d \in Clients :
                        /\ \A h \in Conns : Has(d, h)' /\ At(d, "count")' => st'[d].page = PageOf(RowsOn(h)')
                        /\ st'[d].call.op = "select" /\ st'[d].result = "success" =>
                             (st'[d].page = 0 <=> st'[d].records = 0)
  BY DEF SnapshotInv
<1>4. \A d \in Clients :
        /\ \A h \in Conns : Has(d, h) /\ At(d, "count") => st[d].page = PageOf(RowsOn(h))
        /\ st[d].call.op = "select" /\ st[d].result = "success" => (st[d].page = 0 <=> st[d].records = 0)
  BY <1>3 DEF SnapshotInv
<1>5. Grants' /\ Moves(c)
  BY HeldStep DEF LeaseInv
<1>6. ASSUME NEW d \in Clients \ {c}
      PROVE  /\ \A h \in Conns : Has(d, h)' /\ At(d, "count")' => st'[d].page = PageOf(RowsOn(h)')
             /\ st'[d].call.op = "select" /\ st'[d].result = "success" =>
                  (st'[d].page = 0 <=> st'[d].records = 0)
  <2>1. st'[d] = st[d]
    BY OneMoves, LocalsStep, Framed
  <2>2. ASSUME NEW h \in Conns, Has(d, h)', At(d, "count")'
        PROVE  st'[d].page = PageOf(RowsOn(h)')
    <3>1. Has(d, h)
      BY <1>5, <2>2 DEF Moves, SameOwners, Takes, Frees
    <3>2. \A k \in Conns : ~Has(c, k)
      BY <1>3, <3>1, OneConnection DEF LeaseInv
    <3>3. UNCHANGED <<table, tx>>
      BY <3>2, Writers, WritersHold
    <3>4. RowsOn(h)' = RowsOn(h)
      BY <3>3 DEF RowsOn, Session
    <3> QED
      BY <1>4, <2>1, <2>2, <3>1, <3>4 DEF At
  <2> QED
    BY <1>4, <2>1, <2>2
<1>7. ASSUME NEW h \in Conns, Has(c, h)', At(c, "count")'
      PROVE  st'[c].page = PageOf(RowsOn(h)')
  <2>1. ReadPage(c)
    BY <1>1, <1>7, CountFollows DEF At
  <2>2. SameOwners
    BY <1>1, <1>5, <1>7, <2>1 DEF Moves, ReadPage, At, Holding, Leasing
  <2>3. Has(c, h)
    BY <1>7, <2>2 DEF SameOwners
  <2>4. RowCount(c) = RowsOn(h)
    BY <2>3, OwnIs DEF LeaseInv, RowCount, RowsOn
  <2>5. RowsOn(h)' = RowsOn(h)
    BY <2>1 DEF ReadPage, shared, RowsOn, Session
  <2>6. st'[c].page = PageOf(RowCount(c))
    BY <1>1, <2>1 DEF ReadPage, Update, Fields, PageOf
  <2> QED
    BY <2>4, <2>5, <2>6
<1>8. ASSUME st'[c].call.op = "select", st'[c].result = "success"
      PROVE  st'[c].page = 0 <=> st'[c].records = 0
  <2>1. CASE CountRecords(c)
    <3>1. Own(c) \in Conns /\ Has(c, Own(c)) /\ At(c, "count")
      BY <2>1, OwnHas DEF CountRecords, LeaseInv, Holding, Leasing, At
    <3>2. st[c].page = PageOf(RowCount(c))
      BY <1>4, <3>1 DEF RowCount, RowsOn
    <3>3. st'[c].page = st[c].page /\ st'[c].records \in {RowCount(c), st[c].page}
      BY <1>1, <2>1 DEF CountRecords, Update, Fields
    <3> QED
      BY <3>2, <3>3 DEF PageOf
  <2>2. CASE ~CountRecords(c)
    <3>1. st[c].call.op = "select" /\ st[c].result = "success" /\ At(c, "return")
      BY <1>1, <1>2, <1>8, <2>2, AnswerFollows
    <3>2. ~NextRow(c) /\ ~Return(c)
      BY <1>1, <1>8, <3>1
         DEF NextRow, RowsLeft, Return, Leave, NoLocals, NoCall, Update, Fields
    <3> QED
      BY <3>1, <3>2
         DEF Step, Start, BuildPlain, ElementRejected, ResetPlaceholders, ReadPlaceholder,
             WritePlaceholder, EscapeLease, EscapeRefused, EscapeDrop, EscapeUse, Acquire, Refused, Exec,
             ExecFails, Heal, Check, Begin, BeginFails, TxExec, TxExecFails, Commit, CommitFails, Rollback,
             ReadPage, ReadFails, CountRecords, At
  <2> QED
    BY <2>1, <2>2
<1> QED
  BY <1>6, <1>7, <1>8

-----------------------------------------------------------------------------
(* The invariant.                                                          *)

LEMMA BackendStarts ==
  Init => BackendInv
<1> SUFFICES ASSUME Init
             PROVE  BackendInv
  OBVIOUS
<1>1. \A c \in Clients : st[c] = NoLocals
  BY DEF Init
<1>2. LocalsInv
  <2>1. config \in Uses /\ (config.heals => \A call \in config.calls : call.op \notin Dm8Ops)
    BY BackendAssumption, HealAssumption DEF Init
  <2>2. \A c \in Clients : Locals(c)
    BY <1>1
       DEF NoLocals, NoCall, Locals, RightStep, RightAnswer, HasRows, At, IsTrans, IsCreate, Fields, Pcs,
           Building, Dm8Ops
  <2> QED
    BY <2>1, <2>2 DEF Init, LocalsInv
<1>3. LeaseInv
  BY <1>1 DEF Init, NoLocals, NoCall, LeaseInv, Grants, Holding, Leased, At, IsTrans, Leasing, Building
<1>4. SessionInv
  BY <1>1
     DEF Init, NoLocals, NoCall, SessionInv, Sessions, Clean, Tracked, InTransaction, IsTrans, Has
<1>5. HealInv
  BY BackendAssumption, HealAssumption DEF Init, HealInv, Owed
<1>6. NumberInv /\ CreateInv /\ SnapshotInv
  BY <1>1
     DEF Init, NoLocals, NoCall, NumberInv, IsNumbered, CreateInv, SnapshotInv, At, IsCreate,
         Dm8Ops, Has
<1> QED
  BY <1>2, <1>3, <1>4, <1>5, <1>6 DEF BackendInv, CallsInv

\* The invariant is about what these variables hold.
LEMMA CallsFramed ==
  ASSUME CallsInv, UNCHANGED <<config, tx, held, st>>
  PROVE  CallsInv'
<1>1. LocalsInv'
  BY DEF CallsInv, LocalsInv, Locals, InCall, RightStep, RightAnswer, HasRows, At, IsTrans, IsCreate
<1>2. LeaseInv'
  BY DEF CallsInv, LeaseInv, Grants, Holding, Leased, At, IsTrans
<1>3. Clean'
  BY DEF CallsInv, SessionInv, Clean, RawTransactions, Has, InTrans, IsTrans
<1>4. Tracked'
  BY DEF CallsInv, SessionInv, Tracked, RawTransactions, Has, InTransaction, SoFar, At, IsTrans
<1> QED
  BY <1>1, <1>2, <1>3, <1>4 DEF CallsInv, SessionInv

LEMMA AnswersFramed ==
  ASSUME BackendInv, UNCHANGED <<config, table, tx, held, counter, st>>
  PROVE  /\ UNCHANGED <<broken, toll>> => HealInv'
         /\ NumberInv' /\ SnapshotInv'
         /\ UNCHANGED broken \/ config.faults # {} => CreateInv'
<1>1. UNCHANGED <<broken, toll>> => HealInv'
  BY DEF BackendInv, HealInv, Owed, Healing, Has, At
<1>2. NumberInv'
  BY DEF BackendInv, NumberInv, IsNumbered, ThisPart, At, IsTrans, IsCreate
<1>3. SnapshotInv'
  BY DEF BackendInv, SnapshotInv, Has, At, RowsOn, Session
<1>4. UNCHANGED broken \/ config.faults # {} => CreateInv'
  BY DEF BackendInv, CreateInv, RawTransactions, ThisPart, At, IsCreate
<1> QED
  BY <1>1, <1>2, <1>3, <1>4

LEMMA BreakKeeps ==
  ASSUME BackendInv, UNCHANGED config, NEW h \in config.conns, Break(h)
  PROVE  BackendInv'
<1>1. UNCHANGED <<table, tx, held, counter, st>> /\ config.faults # {}
  BY DEF Break
<1>2. toll' = [toll EXCEPT !.breaks = @ + 1] /\ broken' = broken \cup {h} /\ h \notin broken
  BY DEF Break
<1>3. HealInv'
  <2>1. toll' \in [breaks : Nat, lost : Nat] /\ broken' \subseteq config'.conns
    BY <1>2 DEF BackendInv, HealInv
  <2>2. ASSUME config.heals PROVE toll'.lost + Owed' <= toll'.breaks
    <3>1. broken = {}
      BY <1>2, <2>2, OnlyConnection DEF BackendInv, CallsInv, HealInv
    <3>2. Owed = 0 /\ Owed' \in {0, 1}
      BY <3>1 DEF Owed
    <3> QED
      BY <1>2, <2>2, <3>2 DEF BackendInv, HealInv
  <2> QED
    BY <2>1, <2>2 DEF BackendInv, HealInv
<1> QED
  BY <1>1, <1>3, CallsFramed, AnswersFramed DEF BackendInv

LEMMA BackendKept ==
  BackendInv /\ [Next]_<<config, vars>> => BackendInv'
<1> SUFFICES ASSUME BackendInv, [Next]_<<config, vars>>
             PROVE  BackendInv'
  OBVIOUS
<1>1. ASSUME NEW c \in config.clients, UNCHANGED config,
             Step(c) \/ \E call \in config.calls : Start(c, call)
      PROVE  BackendInv'
  <2>1. LocalsInv' /\ LeaseInv'
    BY <1>1, LocalsStep, OneMoves, Framed, LeaseStep DEF BackendInv, CallsInv
  <2>2. SessionInv'
    BY <1>1, TxStep, CleanStep, TrackedStep DEF BackendInv, CallsInv, SessionInv
  <2>3. HealInv' /\ NumberInv' /\ CreateInv' /\ SnapshotInv'
    BY <1>1, HealStep, NumberStep, CreateStep, SnapshotStep DEF BackendInv, CallsInv
  <2> QED
    BY <2>1, <2>2, <2>3 DEF BackendInv, CallsInv
<1>2. ASSUME NEW h \in config.conns, UNCHANGED config, Break(h)
      PROVE  BackendInv'
  BY <1>2, BreakKeeps
<1>3. CASE UNCHANGED <<config, vars>>
  BY <1>3, CallsFramed, AnswersFramed DEF vars, BackendInv
<1> QED
  BY <1>1, <1>2, <1>3 DEF Next

\* The invariant of the backend's calls, from which the theorems follow.
THEOREM BackendInvariant ==
  Spec => []BackendInv
<1> QED
  BY BackendStarts, BackendKept, PTL DEF Spec

-----------------------------------------------------------------------------
(* What it says.                                                           *)

\* A call's answer tells what it did (SqlBackendBase.cpp:13-267).
THEOREM AnswersTellEffects ==
  Spec => []AnswerTellsEffect
<1>1. ASSUME BackendInv
      PROVE  AnswerTellsEffect
  <2> SUFFICES ASSUME NEW c \in Clients, At(c, "return"),
                      st[c].call.op \in {"write", "trans", "create", "rows"}
               PROVE  st[c].applied = (IF st[c].result = "success"
                                       THEN IF st[c].call.op = "rows" THEN st[c].part ELSE 1
                                       ELSE (IF st[c].call.op = "rows" THEN st[c].part ELSE 1) - 1)
    BY DEF AnswerTellsEffect
  <2>1. InCall(c) /\ RightAnswer(c)
    BY <1>1 DEF BackendInv, CallsInv, LocalsInv, Locals, At
  <2>2. st[c].part \in Nat
    BY <1>1, <2>1, UseTypes DEF BackendInv, CallsInv, InCall
  <2> QED
    BY <2>1, <2>2 DEF RightAnswer, HasRows
<1> QED
  BY <1>1, BackendInvariant, PTL

\* No transaction survives its call, and an open one holds the statements its
\* call has run (SqlBackendBase.cpp:223-267, DbPool.h:9).
THEOREM TransactionsEnd ==
  Spec => []TransactionsAreTheirOwn
<1>1. ASSUME BackendInv
      PROVE  TransactionsAreTheirOwn
  <2>1. ASSUME ~RawTransactions, NEW h \in Conns, tx[h] # NoTx
        PROVE  \E c \in Clients : <<<<c, "own">>, h>> \in held /\ IsTrans(c) /\ ~At(c, "return")
    BY <1>1, <2>1 DEF BackendInv, CallsInv, SessionInv, Clean, Has, InTrans, At, Building
  <2>2. ASSUME config.nested = "refused", NEW c \in Clients, InTransaction(c)
        PROVE  tx[Own(c)] = SoFar(c)
    <3>1. Leased(c)
      BY <1>1, <2>2 DEF BackendInv, CallsInv, LeaseInv, Holding, Leasing, Building, InTransaction
    <3>2. Own(c) \in Conns /\ Has(c, Own(c))
      BY <1>1, <3>1, OwnHas DEF BackendInv, CallsInv, LeaseInv
    <3> QED
      BY <1>1, <2>2, <3>2 DEF BackendInv, CallsInv, SessionInv, Tracked
  <2> QED
    BY <2>1, <2>2 DEF TransactionsAreTheirOwn
<1> QED
  BY <1>1, BackendInvariant, PTL

\* What a thread alone gets is exact: its placeholders, its create() and, on
\* one connection, its count (PostgresDb.h:5, README.md:16).
THEOREM AloneIsExact ==
  Spec => []AloneCallsAreExact
<1>1. ASSUME BackendInv
      PROVE  AloneCallsAreExact
  <2>1. ASSUME NEW c \in Clients, config.clients = {c}, config.mode = "numbered", At(c, "exec"),
               Statement(c).built
        PROVE  st[c].numbers = [i \in 1..Values |-> i]
    BY <1>1, <2>1, StatementIs
       DEF BackendInv, CallsInv, NumberInv, IsNumbered, UpTo, At
  <2> QED
    BY <1>1, <2>1 DEF AloneCallsAreExact, BackendInv, CreateInv, SnapshotInv
<1> QED
  BY <1>1, BackendInvariant, PTL

\* A connection that breaks costs one write outside transactions at most, where
\* the backend heals its pool (SqlBackendBase.h:88-94, Sqlit3Db.h:44-46).
THEOREM OneWriteIsLost ==
  Spec => []BreakdownCostsOneWrite
<1>1. ASSUME BackendInv
      PROVE  BreakdownCostsOneWrite
  <2>1. Owed \in {0, 1}
    BY DEF Owed
  <2> QED
    BY <1>1, <2>1 DEF BackendInv, HealInv, BreakdownCostsOneWrite
<1> QED
  BY <1>1, BackendInvariant, PTL

LEMMA DoneAnswers ==
  ASSUME LocalsInv, NEW c \in Clients, Done(c)
  PROVE  st'[c].applied = st[c].applied + 1 /\ st'[c].result = "success"
<1> DEFINE n == st[c].applied + 1
<1>1. Update(c, [pc |-> "return", result |-> "success", applied |-> n])
  BY DEF Done
<1>2. DOMAIN st[c] = Fields /\ st = [d \in Clients |-> st[d]]
  BY DEF LocalsInv, Locals
<1> HIDE DEF n
<1>3. st'[c].applied = n /\ st'[c].result = "success"
  BY <1>1, <1>2 DEF Update, Fields
<1> QED
  BY <1>3 DEF n

\* Each change of the table is the whole effect of one call, or of one row of a
\* DM8 batch, which is on its way to the answer "success" (README.md:155).
THEOREM ChangesAreWhole ==
  Spec => ChangesAreWholeCalls
<1> DEFINE WholeChange ==
      table' # table /\ ~RawTransactions =>
        \E c \in Clients : /\ st'[c].applied = st[c].applied + 1
                            /\ table' = Whole(c) /\ st'[c].result = "success"
<1>1. ASSUME BackendInv, [Next]_<<config, vars>>
      PROVE  [WholeChange]_vars
  <2> SUFFICES ASSUME table' # table, ~RawTransactions
               PROVE  \E c \in Clients : /\ st'[c].applied = st[c].applied + 1
                                         /\ table' = Whole(c) /\ st'[c].result = "success"
    OBVIOUS
  <2>1. PICK c \in config.clients : Step(c) \/ \E call \in config.calls : Start(c, call)
    BY <1>1 DEF Next, Break, vars
  <2>2. LocalsInv /\ LeaseInv /\ SessionInv /\ c \in Clients
    BY <1>1, UseTypes DEF BackendInv, CallsInv
  <2>3. DOMAIN st[c] = Fields /\ st = [d \in Clients |-> st[d]]
    BY <2>2 DEF LocalsInv, Locals
  <2>4. CASE Exec(c)
    <3>1. Own(c) \in Conns /\ Has(c, Own(c)) /\ ~At(c, "idle") /\ InCall(c)
      BY <2>2, <2>4, WritersHold
    <3>2. ~IsTrans(c) /\ ThisPart(c).kind # "begin"
      BY <2>4, <3>1 DEF Exec, RawTransactions, InCall, ThisPart
    <3>3. tx[Own(c)] = NoTx
      BY <2>2, <3>1, <3>2, OneOwner DEF LeaseInv, SessionInv, Clean, InTrans
    <3>4. Statement(c).kind # "begin"
      BY <2>2, <3>1, <3>2, StatementIs
    <3>5. table' = Effect(table, Statement(c))
      BY <2>4, <3>3, <3>4 DEF Exec, Run, CommitOn, Session
    <3>6. st'[c].applied = st[c].applied + 1 /\ st'[c].result = "success"
      BY <2>2, <2>4, DoneAnswers DEF Exec
    <3> QED
      BY <2>2, <3>2, <3>5, <3>6 DEF Whole
  <2>5. CASE Begin(c)
    BY <2>2, <2>5, BeginIsFirst
  <2>6. CASE TxExec(c)
    <3>1. Own(c) \in Conns /\ Has(c, Own(c)) /\ ~At(c, "idle") /\ InCall(c)
      BY <2>2, <2>6, WritersHold
    <3>2. InTransaction(c)
      BY <2>6 DEF TxExec, InTransaction, At
    <3>3. tx[Own(c)] # NoTx
      BY <2>2, <3>1, <3>2, OpenSession
    <3> QED
      BY <2>6, <3>3 DEF TxExec, Run
  <2>7. CASE Commit(c)
    <3>1. Own(c) \in Conns /\ Has(c, Own(c)) /\ ~At(c, "idle") /\ InCall(c)
      BY <2>2, <2>7, WritersHold
    <3>2. InTransaction(c) /\ IsTrans(c) /\ At(c, "commit") /\ st[c].part = Len(st[c].call.parts)
      BY <2>2, <2>7 DEF Commit, InTransaction, LocalsInv, Locals, RightStep, At
    <3>3. tx[Own(c)] = st[c].call.parts /\ tx[Own(c)] # NoTx
      BY <2>2, <3>1, <3>2, OpenSession, UseTypes, WholeSequence DEF SoFar, InCall
    <3>4. table' = After(table, st[c].call.parts)
      BY <2>7, <3>3 DEF Commit, CommitOn, Session
    <3>5. st'[c].applied = st[c].applied + 1 /\ st'[c].result = "success"
      BY <2>2, <2>7, DoneAnswers DEF Commit
    <3> QED
      BY <2>2, <3>2, <3>4, <3>5 DEF Whole
  <2>8. CASE Rollback(c) \/ Heal(c)
    BY <2>8 DEF Rollback, Heal
  <2> QED
    BY <2>1, <2>4, <2>5, <2>6, <2>7, <2>8, Writers
<1> QED
  BY <1>1, BackendInvariant, PTL DEF Spec, ChangesAreWholeCalls

-----------------------------------------------------------------------------
(* The composition with the pool.                                          *)

LEMMA LeaseIsGrant ==
  ASSUME LocalsInv, UNCHANGED config, NEW c \in config.clients, NEW u \in {"own", "escape"},
         NEW h \in config.conns, Pool!Grant(<<c, u>>, h)
  PROVE  Pool!Next
<1>1. <<c, u>> \in Leases /\ h \in Conns
  BY UseTypes DEF Leases
<1> QED
  BY <1>1 DEF Pool!Next

\* What the calls do to the leases is what the pool does: each step takes one as
\* acquire() gives it, lets go of one as ~Lease() does, or leaves them all
\* alone.  DbPool refines the same specification, so the calls may be put on
\* that pool (SqlBackendBase.cpp:13-267, MysqlDb.cpp:421-455).
THEOREM CallsUseThePool ==
  Spec => Pool!Spec
<1> DEFINE pooled == <<held, Cardinality(config.conns)>>
<1>1. Init => Pool!Init
  <2> SUFFICES ASSUME Init
               PROVE  Pool!Init
    OBVIOUS
  <2>1. config.conns \subseteq Conns
    BY BackendAssumption DEF Init, Uses
  <2>2. Cardinality(config.conns) \in Nat
    BY <2>1, BackendAssumption, FS_Subset, FS_CardinalityType
  <2> QED
    BY <2>2 DEF Init, Pool!Init
<1>2. ASSUME LocalsInv, [Next]_<<config, vars>>
      PROVE  [Pool!Next]_pooled
  <2>1. UNCHANGED config
    BY <1>2 DEF Next
  <2>2. ASSUME UNCHANGED held
        PROVE  UNCHANGED pooled
    BY <2>1, <2>2
  <2>3. ASSUME NEW c \in config.clients, Step(c)
        PROVE  Pool!Next \/ UNCHANGED held
    <3>1. CASE EscapeLease(c) \/ Acquire(c)
      BY <1>2, <2>1, <3>1, LeaseIsGrant DEF EscapeLease, Acquire
    <3>2. CASE EscapeDrop(c) \/ NextRow(c) \/ Return(c) \/ Check(c)
      <4>1. (\E g : Pool!Return(g)) \/ UNCHANGED held
        BY <3>2 DEF EscapeDrop, NextRow, Return, Check, ReleaseOwn
      <4> QED
        BY <4>1 DEF Pool!Next, Pool!Return
    <3> QED
      BY <2>3, <3>1, <3>2
         DEF Step, BuildPlain, ElementRejected, ResetPlaceholders, ReadPlaceholder, WritePlaceholder,
             EscapeRefused, EscapeUse, Refused, Exec, ExecFails, Heal, Begin, BeginFails, TxExec,
             TxExecFails, Commit, CommitFails, Rollback, ReadPage, ReadFails, CountRecords, shared
  <2>4. ASSUME NEW c \in config.clients, NEW call \in config.calls, Start(c, call)
        PROVE  UNCHANGED held
    BY <2>4 DEF Start, shared
  <2>5. ASSUME NEW h \in config.conns, Break(h)
        PROVE  UNCHANGED held
    BY <2>5 DEF Break
  <2>6. CASE UNCHANGED <<config, vars>>
    BY <2>2, <2>6 DEF vars
  <2> QED
    BY <1>2, <2>2, <2>3, <2>4, <2>5, <2>6 DEF Next
<1> QED
  BY <1>1, <1>2, BackendInvariant, PTL DEF Spec, Pool!Spec, BackendInv, CallsInv

-----------------------------------------------------------------------------
(* Nobody waits for everybody.  That takes to know who holds a lease to    *)
(* escape on: a thread that is about to let go of it.                      *)

Escapes(c, h) == <<<<c, "escape">>, h>> \in held
EscapeInv == \A c \in Clients, h \in Conns : Escapes(c, h) => At(c, "drop")

LEMMA EscapeStep ==
  ASSUME LocalsInv, Grants, EscapeInv, UNCHANGED config, NEW c \in config.clients,
         Step(c) \/ \E call \in config.calls : Start(c, call)
  PROVE  EscapeInv'
<1>1. c \in Clients /\ \A d \in Clients \ {c} : st'[d] = st[d]
  BY OneMoves, LocalsStep, Framed
<1>2. DOMAIN st[c] = Fields /\ st = [d \in Clients |-> st[d]]
  BY <1>1 DEF LocalsInv, Locals
<1>3. CASE EscapeLease(c)
  <2>1. PICK h \in config.conns : Pool!Grant(<<c, "escape">>, h) /\ Update(c, [pc |-> "drop", ptr |-> h])
    BY <1>3 DEF EscapeLease
  <2>2. held' = held \cup {<<<<c, "escape">>, h>>}
    BY <2>1 DEF Pool!Grant
  <2>3. At(c, "drop")'
    BY <1>1, <1>2, <2>1 DEF Update, At, Fields
  <2>4. \A d \in Clients \ {c} : \A k : Escapes(d, k)' => Escapes(d, k)
    BY <2>2 DEF Escapes
  <2> QED
    BY <1>1, <2>3, <2>4 DEF EscapeInv, At
<1>4. CASE EscapeDrop(c)
  <2> DEFINE lease == <<<<c, "escape">>, st[c].ptr>>
  <2>1. lease \in held /\ held' = held \ {lease}
    BY <1>4 DEF EscapeDrop, Pool!Return
  <2>2. \A k : ~Escapes(c, k)'
    <3> SUFFICES ASSUME NEW k, Escapes(c, k)'
                 PROVE  FALSE
      OBVIOUS
    <3>1. <<<<c, "escape">>, k>> \in held /\ <<<<c, "escape">>, k>> # lease
      BY <2>1 DEF Escapes
    <3>2. <<<<c, "escape">>, k>>[1] = lease[1]
      OBVIOUS
    <3> QED
      BY <2>1, <3>1, <3>2 DEF Grants
  <2>3. \A d \in Clients : \A k : Escapes(d, k)' => Escapes(d, k)
    BY <2>1 DEF Escapes
  <2> QED
    BY <1>1, <2>2, <2>3 DEF EscapeInv, At
<1>5. CASE ~EscapeLease(c) /\ ~EscapeDrop(c)
  <2>1. ~At(c, "drop")
    BY <1>5
       DEF Step, Start, At, BuildPlain, ElementRejected, ResetPlaceholders, ReadPlaceholder,
           WritePlaceholder, EscapeRefused, EscapeUse, Acquire, Refused, NextRow, Return, Exec,
           ExecFails, Heal, Check, Begin, BeginFails, TxExec, TxExecFails, Commit, CommitFails,
           Rollback, ReadPage, ReadFails, CountRecords
  <2>2. held' \subseteq held \/ \E h : held' = held \cup {<<<<c, "own">>, h>>}
    <3>1. CASE Acquire(c)
      BY <3>1 DEF Acquire, Pool!Grant
    <3>2. CASE NextRow(c) \/ Return(c) \/ Check(c)
      BY <3>2 DEF NextRow, Return, Check, ReleaseOwn, Pool!Return
    <3>3. CASE ~Acquire(c) /\ ~NextRow(c) /\ ~Return(c) /\ ~Check(c)
      <4>1. UNCHANGED held
        BY <1>5, <3>3
           DEF Step, Start, BuildPlain, ElementRejected, ResetPlaceholders, ReadPlaceholder,
               WritePlaceholder, EscapeRefused, EscapeUse, Refused, Exec, ExecFails, Heal, Begin,
               BeginFails, TxExec, TxExecFails, Commit, CommitFails, Rollback, ReadPage, ReadFails,
               CountRecords, shared
      <4> QED
        BY <4>1
    <3> QED
      BY <3>1, <3>2, <3>3
  <2>3. \A d \in Clients : \A k : Escapes(d, k)' => Escapes(d, k)
    BY <2>2 DEF Escapes
  <2> QED
    BY <1>1, <2>1, <2>3 DEF EscapeInv, At
<1> QED
  BY <1>3, <1>4, <1>5

LEMMA EscapeKept ==
  LocalsInv /\ LeaseInv /\ EscapeInv /\ [Next]_<<config, vars>> => EscapeInv'
<1> SUFFICES ASSUME LocalsInv, LeaseInv, EscapeInv, [Next]_<<config, vars>>
             PROVE  EscapeInv'
  OBVIOUS
<1>1. ASSUME UNCHANGED <<held, st>>
      PROVE  EscapeInv'
  BY <1>1 DEF EscapeInv, Escapes, At
<1>2. ASSUME NEW h \in config.conns, Break(h)
      PROVE  UNCHANGED <<held, st>>
  BY <1>2 DEF Break
<1>3. CASE UNCHANGED <<config, vars>>
  BY <1>1, <1>3 DEF vars
<1> QED
  BY <1>1, <1>2, <1>3, EscapeStep DEF Next, LeaseInv

LEMMA NobodyNeeds ==
  ASSUME NEW c, st[c].pc \notin {"acquire", "build"}
  PROVE  Needs(c) = {}
BY DEF Needs, At

\* Where everybody in a call needs a lease, those who have one are transactions
\* that wait to escape.
LEMMA HoldersWait ==
  ASSUME LocalsInv, LeaseInv, EscapeInv, \A d \in Clients : At(d, "idle") \/ Needs(d) # {},
         NEW g \in held
  PROVE  /\ config.mode = "escaped"
         /\ g[2] \in config.conns
         /\ \E c \in config.clients : g[1] = <<c, "own">> /\ At(c, "build")
<1>1. PICK c \in Clients, u \in {"own", "escape"}, h \in config.conns : g = <<<<c, u>>, h>>
  BY DEF LeaseInv, Grants, Leases
<1>2. h \in Conns
  BY UseTypes
<1>3. u = "own"
  <2> SUFFICES ASSUME u = "escape"
               PROVE  FALSE
    OBVIOUS
  <2>1. st[c].pc = "drop"
    BY <1>1, <1>2 DEF EscapeInv, Escapes, At
  <2>2. Needs(c) = {}
    BY <2>1, NobodyNeeds
  <2> QED
    BY <2>1, <2>2 DEF At
<1>4. Holding(c) \/ At(c, "return")
  BY <1>1, <1>2, <1>3 DEF LeaseInv, Leased
<1>5. st[c].pc # "idle" /\ st[c].pc # "acquire"
  BY <1>4 DEF Holding, Leasing, Building, At
<1>6. Needs(c) # {}
  BY <1>5 DEF At
<1>7. st[c].pc = "build"
  BY <1>5, <1>6, NobodyNeeds
<1>8. config.mode = "escaped"
  BY <1>6, <1>7 DEF Needs, At
<1>9. c \in config.clients
  BY <1>5 DEF LocalsInv, Locals, InCall, At
<1> QED
  BY <1>1, <1>3, <1>7, <1>8, <1>9 DEF At

\* Then some connection is nobody's.
LEMMA RoomIsLeft ==
  ASSUME LocalsInv, LeaseInv, EscapeInv, \A d \in Clients : At(d, "idle") \/ Needs(d) # {},
         RoomToEscape, config \in Configs
  PROVE  /\ Cardinality(held) < Cardinality(config.conns)
         /\ \E h \in config.conns : \A g \in held : g[2] # h
<1>1. config.conns # {} /\ IsFiniteSet(config.conns) /\ IsFiniteSet(config.clients)
  BY BackendAssumption, UseTypes, FS_Subset
<1>2. Cardinality(config.conns) \in Nat /\ Cardinality(config.clients) \in Nat
  BY <1>1, FS_CardinalityType
<1>3. Cardinality(config.conns) # 0
  BY <1>1, FS_EmptySet
<1>4. IsFiniteSet(held) /\ Cardinality(held) < Cardinality(config.conns)
  <2>1. CASE held = {}
    BY <1>2, <1>3, <2>1, FS_EmptySet
  <2>2. CASE held # {}
    <3> DEFINE user == [g \in held |-> g[1][1]]
    <3>1. Cardinality(config.clients) < Cardinality(config.conns)
      BY <2>2, HoldersWait DEF RoomToEscape
    <3>2. ASSUME NEW g \in held
          PROVE  user[g] \in config.clients /\ g[1] = <<user[g], "own">>
      BY HoldersWait
    <3>3. \A g1, g2 \in held : user[g1] = user[g2] => g1 = g2
      <4> SUFFICES ASSUME NEW g1 \in held, NEW g2 \in held, user[g1] = user[g2]
                   PROVE  g1 = g2
        OBVIOUS
      <4> HIDE DEF user
      <4>1. g1[1] = g2[1]
        BY <3>2
      <4> QED
        BY <4>1 DEF LeaseInv, Grants
    <3>4. user \in Injection(held, config.clients)
      BY <3>2, <3>3 DEF Injection, IsInjective
    <3>5. IsFiniteSet(held) /\ Cardinality(held) <= Cardinality(config.clients)
      BY <1>1, <3>4, FS_Injection
    <3>6. Cardinality(held) \in Nat
      BY <3>5, FS_CardinalityType
    <3> QED
      BY <1>2, <3>1, <3>5, <3>6
  <2> QED
    BY <2>1, <2>2
<1>5. \E h \in config.conns : \A g \in held : g[2] # h
  <2> SUFFICES ASSUME \A h \in config.conns : \E g \in held : g[2] = h
               PROVE  FALSE
    OBVIOUS
  <2> DEFINE lease == [h \in config.conns |-> CHOOSE g \in held : g[2] = h]
  <2>1. \A h \in config.conns : lease[h] \in held /\ lease[h][2] = h
    OBVIOUS
  <2>2. lease \in Injection(config.conns, held)
    BY <2>1 DEF Injection, IsInjective
  <2>3. Cardinality(config.conns) <= Cardinality(held)
    BY <1>4, <2>2, FS_Injection
  <2>4. Cardinality(held) \in Nat
    BY <1>4, FS_CardinalityType
  <2> QED
    BY <1>2, <1>4, <2>3, <2>4
<1> QED
  BY <1>4, <1>5

\* Threads wait for each other's connections only where each of them may need
\* a second one to escape on (MysqlDb.cpp:429) and they are as many as the
\* connections; everywhere else some call can go on.
THEOREM CallsGoOn ==
  Spec => []SomebodyGoesOn
<1>1. ASSUME LocalsInv, LeaseInv, EscapeInv, config \in Configs
      PROVE  SomebodyGoesOn
  <2> SUFFICES ASSUME RoomToEscape, NEW c \in Clients, ~At(c, "idle"),
                      \A d \in Clients : At(d, "idle") \/ Needs(d) # {}
               PROVE  \A use \in Needs(c) : CanLease(<<c, use>>)
    BY DEF SomebodyGoesOn
  <2>1. Cardinality(held) < Cardinality(config.conns)
    BY <1>1, RoomIsLeft
  <2>2. PICK h \in config.conns : \A g \in held : g[2] # h
    BY <1>1, RoomIsLeft
  <2>3. ASSUME NEW use \in Needs(c), NEW g \in held
        PROVE  g[1] # <<c, use>>
    <3> SUFFICES ASSUME g[1] = <<c, use>>
                 PROVE  FALSE
      OBVIOUS
    <3>1. PICK d \in config.clients : g[1] = <<d, "own">> /\ At(d, "build")
      BY <1>1, HoldersWait
    <3>2. d = c /\ use = "own"
      BY <3>1
    <3> QED
      BY <2>3, <3>1, <3>2 DEF Needs, At
  <2> QED
    BY <2>1, <2>2, <2>3 DEF CanLease
<1>2. Init => EscapeInv /\ config \in Configs
  BY DEF Init, EscapeInv, Escapes
<1>3. config \in Configs /\ [Next]_<<config, vars>> => (config \in Configs)'
  BY DEF Next
<1> QED
  BY <1>1, <1>2, <1>3, EscapeKept, BackendInvariant, PTL DEF Spec, BackendInv, CallsInv
=============================================================================
