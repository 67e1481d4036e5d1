----------------------------- MODULE SqlBackend -----------------------------
(***************************************************************************)
(* The calls of the SQL backends (SqlBackendBase and the overrides of      *)
(* MysqlDb and Dm8Db) on one backend object that several threads share.    *)
(* They lease connections from a pool, taken here as what ExclusiveGrants  *)
(* promises, which DbPool is shown to implement.                           *)
(*                                                                         *)
(* The server is external: a statement is atomic, a transaction locks the  *)
(* rows it writes until it ends, ids are unique, and a statement that      *)
(* waits for a lock may be made to fail.                                   *)
(***************************************************************************)
EXTENDS Naturals, SequencesExt

CONSTANTS
  Clients,    \* the threads
  Conns,      \* the pooled connections, maxConn_ of them
  Keys,       \* row ids
  NoRow,      \* a row that is not there
  NoTx,       \* a connection outside a transaction
  Nil,        \* nothing yet
  Calls,      \* the calls there are
  Values,     \* text values per built statement
  Configs     \* the uses of a backend to look at, see Uses

(***************************************************************************)
(* mode: how values enter a statement: "numbered" ($n), "escaped" (literals *)
(* that a connection escapes) or "positional".  nested: what the server    *)
(* does when a transaction begins inside another.  heals: the backend      *)
(* overrides selfHealConnections().  faults: what may fail.  clients,      *)
(* conns, calls: who shares the object, its connections and the calls that *)
(* are made.  each: bound, the calls of each client.                       *)
(***************************************************************************)
Uses ==
  [mode : {"numbered", "escaped", "positional"}, nested : {"refused", "committed", "joined"},
   heals : BOOLEAN,
   faults : SUBSET {"connect", "exec", "break"},
   clients : SUBSET Clients, conns : SUBSET Conns, calls : SUBSET Calls, each : Nat]

\* A statement: what it does, the rows it writes, the value it writes to them,
\* and whether the builder makes its text.
Statements ==
  [kind : {"insert", "update", "upsert", "delete", "select", "begin", "commit", "wrong"},
   keys : SUBSET Keys, val : Nat, built : BOOLEAN]

Dm8Ops == {"create", "rows"}
Ops == {"write", "trans", "select"} \cup Dm8Ops

ASSUME BackendAssumption ==
  /\ Values \in Nat \ {0}
  /\ \A use \in Configs : use \in Uses /\ use.conns # {} /\ IsFiniteSet(use.clients)
  /\ NoTx \notin Seq(Statements) /\ Nil \notin {"insert", "update", "success", "failed"}
  /\ IsFiniteSet(Conns)

\* DM8's create() is given one row, and its insertBatch() one after the other.
\* What cannot be built is refused at the door, but for an element of a transaction.
ASSUME CallAssumption ==
  \A call \in Calls :
    /\ call \in [op : Ops, parts : Seq(Statements)] /\ call.parts # <<>>
    /\ call.op \in Dm8Ops => \A i \in DOMAIN call.parts : \E k \in Keys : call.parts[i].keys = {k}
    /\ call.op # "trans" => \A i \in DOMAIN call.parts : call.parts[i].kind # "wrong"

\* The backend that heals its pool is SQLite's, whose pool is of one.
ASSUME HealAssumption ==
  \A use \in Configs : use.heals =>
    Cardinality(use.conns) = 1 /\ \A call \in use.calls : call.op \notin Dm8Ops

VARIABLES
  config,   \* how the object is used, which does not change
  table,    \* the committed rows: Keys -> value or NoRow
  tx,       \* of each connection: the statements of its transaction, or NoTx
  held,     \* the leases of the pool: pairs of a lease and its connection
  broken,   \* connections on which every statement fails
  toll,     \* history: how often a connection broke, and the writes outside
            \* transactions that failed on a broken one
  counter,  \* placeholderIndex_, shared by the threads
  st        \* the local state of each client's call

shared == <<table, tx, held, broken, toll, counter>>
vars == <<table, tx, held, broken, toll, counter, st>>

Leases == Clients \X {"own", "escape"}
Pool == INSTANCE ExclusiveGrants WITH
          Users <- Leases, Resources <- Conns, limit <- Cardinality(config.conns)

NoCall == [op |-> "none", parts |-> <<>>]

\* The locals of a client that is in no call.
NoLocals ==
  [pc |-> "idle", call |-> NoCall, part |-> 1, numbers |-> <<>>, ptr |-> Nil, kind |-> Nil,
   page |-> 0, records |-> 0, result |-> Nil, applied |-> 0, calls |-> 0]

Init ==
  /\ config \in Configs
  /\ table = [k \in Keys |-> NoRow]
  /\ tx = [h \in Conns |-> NoTx]
  /\ held = {}
  /\ broken = {}
  /\ toll = [breaks |-> 0, lost |-> 0]
  /\ counter = 1
  /\ st = [c \in Clients |-> NoLocals]

-----------------------------------------------------------------------------
Update(c, fields) ==
  st' = [st EXCEPT ![c] = [f \in DOMAIN @ |-> IF f \in DOMAIN fields THEN fields[f] ELSE @[f]]]
Goto(c, to) == Update(c, [pc |-> to])
At(c, where) == st[c].pc = where

Own(c) == CHOOSE h \in Conns : <<<<c, "own">>, h>> \in held

IsTrans(c) == st[c].call.op = "trans"

\* Dm8's create(), and its insertBatch(), which creates row after row.
IsCreate(c) == st[c].call.op \in Dm8Ops

\* The statement at hand; Dm8's create() has chosen its kind.
Statement(c) ==
  LET s == st[c].call.parts[st[c].part]
  IN  IF IsCreate(c) /\ st[c].kind # Nil THEN [s EXCEPT !.kind = st[c].kind] ELSE s

Effect(t, s) ==
  [k \in Keys |->
     CASE k \notin s.keys -> t[k]
       [] k \in s.keys /\ s.kind = "delete" -> NoRow
       [] k \in s.keys /\ s.kind = "update" /\ t[k] = NoRow -> NoRow
       [] OTHER -> s.val]
After(t, parts) == FoldLeft(Effect, t, parts)

\* What the session of a connection sees: its own transaction is applied.
Session(h) == IF tx[h] = NoTx THEN table ELSE After(table, tx[h])

\* The server refuses to insert an id that is there.
Accepts(t, s) == s.kind = "insert" => \A k \in s.keys : t[k] = NoRow

LockedByOther(s, h) ==
  \E g \in Conns \ {h} : tx[g] # NoTx /\ \E i \in DOMAIN tx[g] : tx[g][i].keys \cap s.keys # {}

-----------------------------------------------------------------------------
(* Building a statement.                                                   *)

\* Entering a call.  transGo() leases first and builds under its lease; Dm8's
\* create() first looks the row up.
Start(c, call) ==
  /\ At(c, "idle") /\ st[c].calls < config.each
  /\ Update(c, [call |-> call, calls |-> st[c].calls + 1,
                pc |-> IF call.op \in {"trans", "create", "rows"} THEN "acquire" ELSE "build"])
  /\ UNCHANGED shared

Built(c) == IF IsTrans(c) THEN "exec" ELSE "acquire"

\* A statement given as text, or without values to escape or to number.
BuildPlain(c) ==
  /\ At(c, "build")
  /\ config.mode = "positional" \/ ~Statement(c).built
  /\ Statement(c).kind # "wrong"
  /\ Goto(c, Built(c))
  /\ UNCHANGED shared

\* Mutant: a transaction element that cannot be built is answered without a
\* rollback.
ElementRejected_NoRollback(c) ==
  /\ At(c, "build") /\ IsTrans(c) /\ Statement(c).kind = "wrong"
  /\ Update(c, [pc |-> "return", result |-> "failed"])
  /\ UNCHANGED shared

\* buildStructuredSql() returned false.
ElementRejected(c) ==
  /\ At(c, "build") /\ IsTrans(c) /\ Statement(c).kind = "wrong"
  /\ Goto(c, "rollback")
  /\ UNCHANGED shared

\* Mutant: the counter is not reset.
ResetPlaceholders_Not(c) ==
  /\ At(c, "build") /\ config.mode = "numbered" /\ Statement(c).built
  /\ Statement(c).kind # "wrong"
  /\ Update(c, [pc |-> "number", numbers |-> <<>>])
  /\ UNCHANGED shared

\* resetPlaceholders(), then nextPlaceholder() for each value: a read and a
\* write of an int that nothing protects.
ResetPlaceholders(c) ==
  /\ At(c, "build") /\ config.mode = "numbered" /\ Statement(c).built
  /\ Statement(c).kind # "wrong"
  /\ counter' = 1
  /\ Update(c, [pc |-> "number", numbers |-> <<>>])
  /\ UNCHANGED <<table, tx, held, broken, toll>>

ReadPlaceholder(c) ==
  /\ At(c, "number")
  /\ Update(c, [pc |-> "advance", numbers |-> Append(st[c].numbers, counter)])
  /\ UNCHANGED shared

WritePlaceholder(c) ==
  /\ At(c, "advance")
  /\ counter' = Last(st[c].numbers) + 1
  /\ Goto(c, IF Len(st[c].numbers) < Values THEN "number" ELSE Built(c))
  /\ UNCHANGED <<table, tx, held, broken, toll>>

\* MysqlDb::escapeString(): leases a connection of its own ...
EscapeLease(c) ==
  /\ At(c, "build") /\ config.mode = "escaped" /\ Statement(c).built
  /\ Statement(c).kind # "wrong"
  /\ \E h \in config.conns :
       /\ Pool!Grant(<<c, "escape">>, h)
       /\ Update(c, [pc |-> "drop", ptr |-> h])
  /\ UNCHANGED <<table, tx, broken, toll, counter>>

\* ... or, when no connection can be made, escapes without one ...
EscapeRefused(c) ==
  /\ "connect" \in config.faults
  /\ At(c, "build") /\ config.mode = "escaped" /\ Statement(c).built
  /\ Statement(c).kind # "wrong"
  /\ Cardinality(held) < Cardinality(config.conns)
  /\ Goto(c, Built(c))
  /\ UNCHANGED shared

\* Mutant: the temporary lease outlives its statement.
EscapeDrop_Kept(c) ==
  /\ At(c, "drop")
  /\ Goto(c, "escape")
  /\ UNCHANGED shared

\* ... the temporary lease dies at the end of its statement ...
EscapeDrop(c) ==
  /\ At(c, "drop")
  /\ Pool!Return(<<<<c, "escape">>, st[c].ptr>>)
  /\ Goto(c, "escape")
  /\ UNCHANGED <<table, tx, broken, toll, counter>>

\* ... and the bare pointer is used.
EscapeUse(c) ==
  /\ At(c, "escape")
  /\ Update(c, [pc |-> Built(c), ptr |-> Nil])
  /\ UNCHANGED shared

-----------------------------------------------------------------------------
(* Leases.                                                                 *)

Acquire(c) ==
  /\ At(c, "acquire")
  /\ \E h \in config.conns : Pool!Grant(<<c, "own">>, h)
  /\ Goto(c, CASE IsTrans(c) -> "begin"
               [] IsCreate(c) /\ st[c].kind = Nil -> "check"
               [] st[c].call.op = "select" -> "read"
               [] OTHER -> "exec")
  /\ UNCHANGED <<table, tx, broken, toll, counter>>

\* acquireConnection() returned an empty lease.  The lookup of Dm8's create()
\* takes that for a row that is not there.
Refused(c) ==
  /\ "connect" \in config.faults
  /\ At(c, "acquire")
  /\ Cardinality(held) < Cardinality(config.conns)
  /\ IF IsCreate(c) /\ st[c].kind = Nil
     THEN Update(c, [pc |-> "build", kind |-> "insert"])
     ELSE Update(c, [pc |-> "return", result |-> "failed"])
  /\ UNCHANGED shared

Leased(c) == \E h \in Conns : <<<<c, "own">>, h>> \in held
ReleaseOwn(c) == Pool!Return(<<<<c, "own">>, Own(c)>>)

\* The locals end with the call.
Leave(c) == Update(c, [NoLocals EXCEPT !.calls = st[c].calls])

\* Mutant: a call that failed keeps its lease.
Return_KeepsLease(c) ==
  /\ At(c, "return")
  /\ IF st[c].result = "failed" THEN UNCHANGED held ELSE ReleaseOwn(c)
  /\ Leave(c)
  /\ UNCHANGED <<table, tx, broken, toll, counter>>

\* Mutant: the rows after one that failed are tried all the same.
RowsLeft_PastFailure(c) == st[c].call.op = "rows" /\ st[c].part < Len(st[c].call.parts)

\* insertBatch() of Dm8 has rows left.
RowsLeft(c) ==
  st[c].call.op = "rows" /\ st[c].result = "success" /\ st[c].part < Len(st[c].call.parts)

\* The create() of one row has returned, and that of the next begins.
NextRow(c) ==
  /\ At(c, "return") /\ RowsLeft(c)
  /\ IF Leased(c) THEN ReleaseOwn(c) ELSE UNCHANGED held
  /\ Update(c, [pc |-> "acquire", part |-> st[c].part + 1, kind |-> Nil, result |-> Nil])
  /\ UNCHANGED <<table, tx, broken, toll, counter>>

\* The function returns and its lease, if it has one, dies.
Return(c) ==
  /\ At(c, "return") /\ ~RowsLeft(c)
  /\ IF Leased(c) THEN ReleaseOwn(c) ELSE UNCHANGED held
  /\ Leave(c)
  /\ UNCHANGED <<table, tx, broken, toll, counter>>

-----------------------------------------------------------------------------
(* create(), update(), remove(), execSql(), insertBatch(): one statement.  *)

CanRun(c, s) == Own(c) \notin broken /\ ~LockedByOther(s, Own(c)) /\ Accepts(Session(Own(c)), s)

\* The server runs one statement on a session: it commits by itself unless a
\* transaction is open.
Run(h, s) ==
  IF tx[h] = NoTx THEN table' = Effect(table, s) /\ UNCHANGED tx
  ELSE tx' = [tx EXCEPT ![h] = Append(@, s)] /\ UNCHANGED table

\* Begin on a session that may be left in a transaction.
CanBegin(h) == h \notin broken /\ (tx[h] = NoTx \/ config.nested # "refused")
BeginOn(h) ==
  LET joins == tx[h] # NoTx /\ config.nested = "joined"
  IN  /\ tx' = [tx EXCEPT ![h] = IF joins THEN @ ELSE <<>>]
      /\ table' = IF joins THEN table ELSE Session(h)

\* A server that refuses a second begin refuses a commit without one too.
CanCommit(h) == tx[h] # NoTx \/ config.nested # "refused"
CommitOn(h) == table' = Session(h) /\ tx' = [tx EXCEPT ![h] = NoTx]

CanFail(c, s) ==
  \/ "exec" \in config.faults \/ ~CanRun(c, s)
  \/ s.kind = "begin" /\ ~CanBegin(Own(c))
  \/ s.kind = "commit" /\ ~CanCommit(Own(c))

Done(c) == Update(c, [pc |-> "return", result |-> "success", applied |-> st[c].applied + 1])

Exec(c) ==
  /\ At(c, "exec") /\ ~IsTrans(c)
  /\ CanRun(c, Statement(c))
  /\ CASE Statement(c).kind = "begin"  -> CanBegin(Own(c)) /\ BeginOn(Own(c))
       [] Statement(c).kind = "commit" -> CanCommit(Own(c)) /\ CommitOn(Own(c))
       [] OTHER -> Run(Own(c), Statement(c))
  /\ Done(c)
  /\ UNCHANGED <<held, broken, toll, counter>>

\* Mutant: a failed write leaves the pool as it is.
ExecFails_NoHeal(c) ==
  /\ At(c, "exec") /\ ~IsTrans(c)
  /\ CanFail(c, Statement(c))
  /\ toll' = [toll EXCEPT !.lost = IF Own(c) \in broken THEN @ + 1 ELSE @]
  /\ Update(c, [pc |-> "return", result |-> "failed"])
  /\ UNCHANGED <<table, tx, held, broken, counter>>

\* The lease lasts while the pool is healed, where the backend can do that.
\* Dm8's create() does not ask for it.
ExecFails(c) ==
  /\ At(c, "exec") /\ ~IsTrans(c)
  /\ CanFail(c, Statement(c))
  /\ toll' = [toll EXCEPT !.lost = IF Own(c) \in broken THEN @ + 1 ELSE @]
  /\ IF config.heals /\ ~IsCreate(c) THEN Goto(c, "heal")
     ELSE Update(c, [pc |-> "return", result |-> "failed"])
  /\ UNCHANGED <<table, tx, held, broken, counter>>

\* selfHealConnections() marks the pool: its only connection, which this call
\* still leases, is closed with what its session has open, and made anew for
\* the next lease.
Heal(c) ==
  /\ At(c, "heal")
  /\ tx' = [tx EXCEPT ![Own(c)] = NoTx]
  /\ broken' = broken \ {Own(c)}
  /\ Update(c, [pc |-> "return", result |-> "failed"])
  /\ UNCHANGED <<table, held, toll, counter>>

\* Mutant: the lookup's answer is not used.
Check_Ignored(c) ==
  /\ At(c, "check")
  /\ Update(c, [pc |-> "build", kind |-> "insert"])
  /\ ReleaseOwn(c)
  /\ UNCHANGED <<table, tx, broken, toll, counter>>

\* Dm8's create() with an id: select() on a lease of its own, then update()
\* or the insert on another.  A lookup that fails counts as not found.
Check(c) ==
  /\ At(c, "check")
  /\ LET k == CHOOSE k \in Statement(c).keys : TRUE
     IN  \/ /\ Own(c) \notin broken
            /\ Update(c, [pc |-> "build", kind |-> IF Session(Own(c))[k] = NoRow THEN "insert" ELSE "update"])
         \/ /\ "exec" \in config.faults \/ Own(c) \in broken
            /\ Update(c, [pc |-> "build", kind |-> "insert"])
  /\ ReleaseOwn(c)
  /\ UNCHANGED <<table, tx, broken, toll, counter>>

-----------------------------------------------------------------------------
(* transGo().                                                              *)

\* Mutant: the statements run outside a transaction.
TxExec_AutoCommit(c) ==
  /\ At(c, "exec") /\ IsTrans(c)
  /\ CanRun(c, Statement(c))
  /\ table' = Effect(table, Statement(c))
  /\ counter' = 1
  /\ Update(c, IF st[c].part = Len(st[c].call.parts) THEN [pc |-> "commit"]
               ELSE [pc |-> "build", part |-> st[c].part + 1])
  /\ UNCHANGED <<tx, held, broken, toll>>

Begin(c) ==
  /\ At(c, "begin") /\ CanBegin(Own(c))
  /\ BeginOn(Own(c))
  /\ Goto(c, "build")
  /\ UNCHANGED <<held, broken, toll, counter>>

\* Mutant: the result of the begin is not tested.
BeginFails_Untested(c) ==
  /\ At(c, "begin")
  /\ "exec" \in config.faults \/ ~CanBegin(Own(c))
  /\ Goto(c, "build")
  /\ UNCHANGED shared

BeginFails(c) ==
  /\ At(c, "begin")
  /\ "exec" \in config.faults \/ ~CanBegin(Own(c))
  /\ Goto(c, "rollback")
  /\ UNCHANGED shared

TxExec(c) ==
  /\ At(c, "exec") /\ IsTrans(c)
  /\ CanRun(c, Statement(c))
  /\ Run(Own(c), Statement(c))
  /\ counter' = 1
  /\ Update(c, IF st[c].part = Len(st[c].call.parts) THEN [pc |-> "commit"]
               ELSE [pc |-> "build", part |-> st[c].part + 1])
  /\ UNCHANGED <<held, broken, toll>>

TxExecFails(c) ==
  /\ At(c, "exec") /\ IsTrans(c)
  /\ CanFail(c, Statement(c))
  /\ counter' = 1
  /\ Goto(c, "rollback")
  /\ UNCHANGED <<table, tx, held, broken, toll>>

Commit(c) ==
  /\ At(c, "commit") /\ Own(c) \notin broken
  /\ CommitOn(Own(c))
  /\ Done(c)
  /\ UNCHANGED <<held, broken, toll, counter>>

\* Mutant: the result of the commit is not tested.
CommitFails_Untested(c) ==
  /\ At(c, "commit")
  /\ "exec" \in config.faults \/ Own(c) \in broken
  /\ tx' = [tx EXCEPT ![Own(c)] = NoTx]
  /\ Update(c, [pc |-> "return", result |-> "success"])
  /\ UNCHANGED <<table, held, broken, toll, counter>>

CommitFails(c) ==
  /\ At(c, "commit")
  /\ "exec" \in config.faults \/ Own(c) \in broken
  /\ Goto(c, "rollback")
  /\ UNCHANGED shared

\* rollbackTx() ignores its result: on a broken connection the server ends
\* the transaction by itself.
Rollback(c) ==
  /\ At(c, "rollback")
  /\ tx' = [tx EXCEPT ![Own(c)] = NoTx]
  /\ Update(c, [pc |-> "return", result |-> "failed"])
  /\ UNCHANGED <<table, held, broken, toll, counter>>

-----------------------------------------------------------------------------
(* select() of page 1, size 1: the rows, then the records count.           *)

RowCount(c) == Cardinality({k \in Keys : Session(Own(c))[k] # NoRow})

ReadPage(c) ==
  /\ At(c, "read") /\ Own(c) \notin broken
  /\ Update(c, [pc |-> "count", page |-> IF RowCount(c) = 0 THEN 0 ELSE 1])
  /\ UNCHANGED shared

ReadFails(c) ==
  /\ At(c, "read")
  /\ "exec" \in config.faults \/ Own(c) \in broken
  /\ Update(c, [pc |-> "return", result |-> "failed"])
  /\ UNCHANGED shared

\* Mutant: a count that fails counts as 0.
CountRecords_NoFallback(c) ==
  /\ At(c, "count")
  /\ \/ /\ Own(c) \notin broken
        /\ Update(c, [pc |-> "return", result |-> "success", records |-> RowCount(c)])
     \/ /\ "exec" \in config.faults \/ Own(c) \in broken
        /\ Update(c, [pc |-> "return", result |-> "success", records |-> 0])
  /\ UNCHANGED shared

\* A count that fails is replaced by the size of the page.
CountRecords(c) ==
  /\ At(c, "count")
  /\ \/ /\ Own(c) \notin broken
        /\ Update(c, [pc |-> "return", result |-> "success", records |-> RowCount(c)])
     \/ /\ "exec" \in config.faults \/ Own(c) \in broken
        /\ Update(c, [pc |-> "return", result |-> "success", records |-> st[c].page])
  /\ UNCHANGED shared

-----------------------------------------------------------------------------
\* A connection goes bad, be it in the pool, leased or in a transaction.
Break(h) ==
  /\ "break" \in config.faults
  /\ h \notin broken
  /\ broken' = broken \cup {h}
  /\ toll' = [toll EXCEPT !.breaks = @ + 1]
  /\ UNCHANGED <<table, tx, held, counter, st>>

Step(c) ==
  /\ UNCHANGED config
  /\ \/ BuildPlain(c) \/ ElementRejected(c)
     \/ ResetPlaceholders(c) \/ ReadPlaceholder(c) \/ WritePlaceholder(c)
     \/ EscapeLease(c) \/ EscapeRefused(c) \/ EscapeDrop(c) \/ EscapeUse(c)
     \/ Acquire(c) \/ Refused(c) \/ NextRow(c) \/ Return(c)
     \/ Exec(c) \/ ExecFails(c) \/ Heal(c) \/ Check(c)
     \/ Begin(c) \/ BeginFails(c) \/ TxExec(c) \/ TxExecFails(c)
     \/ Commit(c) \/ CommitFails(c) \/ Rollback(c)
     \/ ReadPage(c) \/ ReadFails(c) \/ CountRecords(c)

Next ==
  /\ UNCHANGED config
  /\ \/ \E c \in config.clients : Step(c) \/ \E call \in config.calls : Start(c, call)
     \/ \E h \in config.conns : Break(h)

\* A thread runs on unless it waits for a connection, and statements return.
Fairness == \A c \in Clients : WF_vars(Step(c))

Spec == Init /\ [][Next]_<<config, vars>>
FairSpec == Spec /\ Fairness

-----------------------------------------------------------------------------
\* Clients that begin transactions by a statement of their own.
RawTransactions ==
  \E call \in config.calls : \E i \in DOMAIN call.parts : call.parts[i].kind = "begin"

\* "Any statement failing rolls the whole transaction back" (README.md:155),
\* and every other call is one statement, or one for each row of a DM8 batch:
\* each change of the table is the whole effect of one call or row, on its way
\* to the answer "success".  A begin given as text suspends that.
Whole(c) ==
  IF IsTrans(c) THEN After(table, st[c].call.parts) ELSE Effect(table, Statement(c))
ChangesAreWholeCalls ==
  [][table' # table /\ ~RawTransactions =>
       \E c \in Clients : /\ st'[c].applied = st[c].applied + 1
                           /\ table' = Whole(c) /\ st'[c].result = "success"]_vars

\* A call's answer tells what it did to its session: exactly one application
\* when it says success and none when it says that it failed, where a DM8 batch
\* has applied the rows before the one that failed, and no other.
AnswerTellsEffect ==
  \A c \in Clients : st[c].call.op \in {"write", "trans", "create", "rows"} /\ At(c, "return") =>
    LET rows == IF st[c].call.op = "rows" THEN st[c].part ELSE 1
    IN  st[c].applied = IF st[c].result = "success" THEN rows ELSE rows - 1

\* The session a connection brings back to the pool is clean: no transaction
\* survives its call, whichever way transGo() is left (DbPool.h:9).  A session
\* that a begin given as text has left open is no transaction of another call's
\* either, on a server that refuses to begin inside one.
InTransaction(c) == IsTrans(c) /\ st[c].pc \in {"build", "number", "advance", "drop", "escape", "exec", "commit"}
SoFar(c) == SubSeq(st[c].call.parts, 1, IF At(c, "commit") THEN st[c].part ELSE st[c].part - 1)
TransactionsAreTheirOwn ==
  /\ ~RawTransactions =>
       \A h \in Conns : tx[h] # NoTx =>
         \E c \in Clients : <<<<c, "own">>, h>> \in held /\ IsTrans(c) /\ ~At(c, "return")
  /\ config.nested = "refused" =>
       \A c \in Clients : InTransaction(c) => tx[Own(c)] = SoFar(c)

\* What another thread may disturb is exact for one alone: a statement reaches
\* its connection with the placeholders $1..$n in the order of its values
\* (PostgresDb.h:5); create() "overwrites an existing row when the id is
\* provided" (README.md:16), also where it reads first and writes then; and the
\* rows and the records count "observe the same snapshot"
\* (SqlBackendBase.cpp:118-119).  A begin given as text leaves its rows locked,
\* which may stop the next create() of the same thread.
AloneCallsAreExact ==
  \A c \in Clients :
    /\ config.clients = {c} /\ config.mode = "numbered" /\ At(c, "exec") /\ Statement(c).built =>
         st[c].numbers = [i \in 1..Values |-> i]
    /\ config.clients = {c} /\ config.faults = {} /\ ~RawTransactions /\ IsCreate(c) =>
         st[c].result # "failed"
    /\ Cardinality(config.conns) = 1 /\ st[c].call.op = "select" /\ st[c].result = "success" =>
         (st[c].page = 0 <=> st[c].records = 0)

\* "Self-healing after connection failures" (README.md:17): "a failed write can
\* leave the pooled connection wedged ... every later write would keep failing
\* on the same handle" (SqlBackendBase.h:88-94).  Where the backend heals its
\* pool, a connection that breaks costs one write at most, whatever the threads
\* that share it do meanwhile.  Only the writes outside transactions are
\* counted: transGo() asks nobody to heal when a statement, its begin or its
\* commit fails (SqlBackendBase.cpp:231-265), and neither does a read, so any
\* number of these fail until such a write does.
BreakdownCostsOneWrite == config.heals => toll.lost <= toll.breaks

\* The lease a thread needs for its next step, and whether the pool can give it.
Needs(c) ==
  CASE At(c, "acquire") -> {"own"}
    [] At(c, "build") /\ config.mode = "escaped" /\ Statement(c).built /\ Statement(c).kind # "wrong" -> {"escape"}
    [] OTHER -> {}
CanLease(u) ==
  /\ Cardinality(held) < Cardinality(config.conns)
  /\ \E h \in config.conns : \A g \in held : g[1] # u /\ g[2] # h

\* Whoever leases a connection beside its own (MysqlDb.cpp:429) may wait for
\* those who wait for it.  With one connection more than threads, or without
\* such leases, some thread that is in a call can always go on.
RoomToEscape ==
  config.mode = "escaped" => Cardinality(config.clients) < Cardinality(config.conns)
SomebodyGoesOn ==
  RoomToEscape /\ (\E c \in Clients : ~At(c, "idle")) =>
    \E c \in Clients : ~At(c, "idle") /\ \A use \in Needs(c) : CanLease(<<c, use>>)

\* Every call comes to its answer.
EveryCallReturns == \A c \in Clients : ~At(c, "idle") ~> At(c, "idle")

\* So it does where a thread that escapes its literals never needs a
\* connection while every connection waits for it.
EveryCallReturnsGivenRoom ==
  \A c \in Clients : RoomToEscape /\ ~At(c, "idle") ~> At(c, "idle")
=============================================================================
