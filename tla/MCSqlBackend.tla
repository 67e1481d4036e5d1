---------------------------- MODULE MCSqlBackend ----------------------------
(* Instances of SqlBackend: two rows, calls of every kind on them, and the *)
(* ways the backends of the repository are used.                           *)
EXTENDS SqlBackend

CONSTANTS k1, k2, c1, c2, h1, h2, h3
MCKeys == {k1, k2}

Stmt(kind, keys, val) == [kind |-> kind, keys |-> keys, val |-> val, built |-> TRUE]
Text(kind, keys, val) == [Stmt(kind, keys, val) EXCEPT !.built = FALSE]
Write(s) == [op |-> "write", parts |-> <<s>>]
Trans(parts) == [op |-> "trans", parts |-> parts]

Create == [op |-> "create", parts |-> <<Stmt("insert", {k1}, 6)>>]
Select == [op |-> "select", parts |-> <<Stmt("select", {}, 0)>>]
BatchOfDm8 == [op |-> "rows", parts |-> <<Stmt("insert", {k1}, 7), Stmt("insert", {k2}, 7)>>]
RawBegin == Write(Text("begin", {}, 0))
RawCommit == Write(Text("commit", {}, 0))
Upsert == Write(Stmt("upsert", {k1}, 1))
Batch == Write(Stmt("upsert", {k1, k2}, 2))
Delete == Write(Text("delete", {k1}, 0))
InsertBoth == Trans(<<Stmt("insert", {k1}, 3), Text("insert", {k2}, 3)>>)
MoveBack == Trans(<<Text("update", {k2}, 4), Stmt("delete", {k1}, 0)>>)
Malformed == Trans(<<Stmt("upsert", {k2}, 5), Stmt("wrong", {}, 0)>>)

EveryCall == {BatchOfDm8, RawBegin, RawCommit, Create, Select, Upsert, Batch, Delete, InsertBoth, MoveBack, Malformed}

Usual == {Create, Select, Batch, Delete, InsertBoth, MoveBack, Malformed}

\* Two threads and two connections, as the servers have by default.
Shared ==
  [mode |-> "positional", nested |-> "refused", heals |-> FALSE, faults |-> {"connect", "exec"}, clients |-> {c1, c2},
   conns |-> {h1, h2}, calls |-> Usual, each |-> 2]

\* One connection that may go bad, as sqlite has.
Sqlite ==
  [Shared EXCEPT !.conns = {h1}, !.heals = TRUE, !.faults = {"exec", "break"},
                 !.calls = {Select, Upsert, Batch, InsertBoth, Malformed}]

\* Numbered placeholders and one thread, escaped literals and a connection to
\* spare beside two threads or one, and one thread's read-then-write create()
\* with nothing that fails.
Numbered ==
  [Shared EXCEPT !.mode = "numbered", !.clients = {c1}, !.conns = {h1}, !.faults = {"exec"}]
Escaped ==
  [Shared EXCEPT !.mode = "escaped", !.conns = {h1, h2, h3}, !.each = 1]
EscapedAlone ==
  [Shared EXCEPT !.mode = "escaped", !.clients = {c1}]
Alone ==
  [Shared EXCEPT !.clients = {c1}, !.faults = {}, !.calls = {Create, BatchOfDm8, Upsert, Delete},
                 !.each = 4]

\* DM8's batches beside other writers, and begins and commits given as text on
\* servers of each kind.
Dm8Batches ==
  [Shared EXCEPT !.nested = "joined", !.calls = {BatchOfDm8, Create, Delete}, !.each = 1]
Raw(server) ==
  [Shared EXCEPT !.conns = {h1}, !.nested = server, !.heals = server = "refused", !.faults = {},
                 !.calls = {RawBegin, RawCommit, Upsert, InsertBoth}]

EveryUse ==
  {Shared, Sqlite, Numbered, Escaped, EscapedAlone, Alone, Dm8Batches}
  \cup {Raw(server) : server \in {"refused", "committed", "joined"}}

\* Two transactions that escape on a pool of two.
TightEscaped ==
  {[Shared EXCEPT !.mode = "escaped", !.faults = {}, !.calls = {InsertBoth, MoveBack}, !.each = 1]}
=============================================================================
